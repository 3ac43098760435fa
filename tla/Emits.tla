-------------------------------- MODULE Emits --------------------------------
(* Compiles of a program that changes, and the files they leave. A compile runs  *)
(* the $onValidate of the storage libraries that are loaded, which write their    *)
(* files already then, and after them the $onEmit of the Rust and the C emitter.   *)
(* Each has its own rule for files that are there: autoFile leaves a file whose     *)
(* body is the same, ReplaceFile keeps the lines of the user, the C emitter also     *)
(* trusts the hash of the inputs in the header, and ops.rs is written only once.      *)
(* A process may end in the middle of its writes, and the user edits files between    *)
(* compiles. A file is a record [body, hash, own]: the body rendered for a program,    *)
(* the program its header names, and what the user wrote in it.                         *)
EXTENDS Naturals, FiniteSets

CONSTANTS Programs,   \* versions of the program, naturals from 1
          Interned,   \* those with interned models
          Invalid,    \* those the storage libraries refuse
          BodyOf,     \* version and file to the body rendered, a natural from 1
          Loaded,     \* the sets of libraries and emitters a project may load
          Routes,     \* files of the Rust emitter to where the project wants them, if it says
          MaxSteps    \* bound on compiles and edits

Libraries == {"rusqlite", "sqlx", "binding-core"}
Emitters  == {"rust", "c"}

VARIABLES loaded,    \* what this project loads
          program,   \* the version in the editor
          compiled,  \* the version being compiled
          todo,      \* the stages still to run
          stage,     \* the stage whose files are being written, or "none"
          pending,   \* its files to write: [file, text]
          disk,      \* paths to what is there
          status,    \* "idle", "running", "ok" or "failed"
          writers,   \* paths to the stages that wrote them in this compile
          steps

vars == <<loaded, program, compiled, todo, stage, pending, disk, status, writers, steps>>

Absent == [body |-> 0, hash |-> 0, own |-> 0]
Cut    == 0                     \* the body of a file that ends early, or was edited
Present(path) == disk[path] # Absent

----------------------------------------------------------------------------
(* What a stage writes for a version, and where.                                      *)
CFiles == {"user_auto.h", "user_auto.c"}
Files(s, p) ==
    CASE s \in {"rusqlite", "sqlx"} -> {"schema_auto.sql", "generated.rs"}
                                       \cup (IF p \in Interned THEN {"intern_auto.rs"} ELSE {})
      [] s = "binding-core" -> IF p \in Interned THEN {"schema_auto.sql", "generated.rs", "intern_auto.rs"}
                                                 ELSE {"schema.sql", "generated.rs", "generated.go"}
      [] s = "rust" -> {"ops_auto.rs", "ops.rs"}
      [] s = "c"    -> CFiles
AllFiles == UNION {Files(s, p) : s \in Libraries \cup Emitters, p \in Programs}

Unrouted == Routes = <<>>
PathOf(f)  == IF f \in Files("rust", 1) /\ ~Unrouted /\ f \in DOMAIN Routes THEN Routes[f] ELSE f
Written(f) == f \in Files("rust", 1) => Unrouted \/ f \in DOMAIN Routes
Paths      == {PathOf(f) : f \in AllFiles}

(* A project sends no file of the Rust emitter where another file goes, nor two to one place. *)
ASSUME EmitsAssumption ==
    /\ Programs \subseteq Nat \ {0} /\ Interned \subseteq Programs /\ Invalid \subseteq Programs
    /\ Loaded \subseteq SUBSET (Libraries \cup Emitters)
    /\ \A p \in Programs : \A f \in AllFiles : BodyOf[p][f] \in Nat \ {0}
    /\ \A f \in Files("rust", 1) \cap DOMAIN Routes :
           /\ Routes[f] \notin AllFiles \ {f}
           /\ \A g \in Files("rust", 1) \cap DOMAIN Routes : Routes[f] = Routes[g] => f = g
    /\ MaxSteps \in Nat

Rendered(s, f, old) == [body |-> BodyOf[compiled][f], hash |-> compiled,
                        own |-> IF f = "generated.rs" THEN old.own ELSE 0]

(* Mutant: a file with the marker is left, whatever follows it.                          *)
autoFile_Marker(f, old) == old # Absent

(* autoFile leaves a file whose body is the one it would write.                           *)
autoFile(f, old) == old.body = BodyOf[compiled][f]

(* The C emitter: the same inputs, or the same body.                                       *)
unchanged(f, old) == old # Absent /\ (old.hash = compiled \/ old.body = BodyOf[compiled][f])

(* Mutant: it looks for the file under the name it has in the crate.                        *)
USER_OWNED_FILES_Unrouted(f) == f = "ops.rs" /\ disk[f] # Absent

USER_OWNED_FILES(f) == f = "ops.rs" /\ Present(PathOf(f))

Skips(s, f) ==
    LET old == disk[PathOf(f)] IN
    CASE s = "c"    -> unchanged(f, old)
      [] s = "rust" -> ~Written(f) \/ USER_OWNED_FILES(f)
      [] OTHER      -> f \in {"schema_auto.sql", "intern_auto.rs"} /\ autoFile(f, old)

(* Mutant: a library knows only of itself.                                                   *)
loadedAutoEmitters_Own(s) == {s}

loadedAutoEmitters(s) == loaded \cap Libraries

----------------------------------------------------------------------------
Init == /\ loaded \in Loaded
        /\ program \in Programs /\ compiled = program
        /\ todo = {} /\ stage = "none" /\ pending = {}
        /\ disk = [path \in Paths \cup AllFiles |-> Absent]
        /\ status = "idle"
        /\ writers = [path \in Paths \cup AllFiles |-> {}]
        /\ steps = 0

Step == steps < MaxSteps /\ steps' = steps + 1
Edited == /\ status # "running" /\ status' = "idle"
          /\ UNCHANGED <<loaded, compiled, todo, stage, pending, writers>>

(* The user edits the program, the body of a generated file, or what is the user's own.        *)
EditProgram == /\ Step /\ Edited
               /\ program' \in Programs \ {program} /\ UNCHANGED disk
EditFile == /\ Step /\ Edited
            /\ \E path \in DOMAIN disk : /\ Present(path)
                  /\ disk' = [disk EXCEPT ![path].body = Cut,
                                          ![path].own = IF path = "generated.rs" THEN @ ELSE 1]
            /\ UNCHANGED program
WriteOwn == /\ Step /\ Edited
            /\ \E f \in {"generated.rs", "ops.rs"} :
                  Present(PathOf(f)) /\ disk' = [disk EXCEPT ![PathOf(f)].own = 1]
            /\ UNCHANGED program

Compile == /\ Step /\ status # "running"
           /\ status' = "running" /\ compiled' = program
           /\ todo' = loaded
           /\ writers' = [path \in DOMAIN writers |-> {}]
           /\ UNCHANGED <<loaded, program, stage, pending, disk>>

Running == status = "running" /\ stage = "none" /\ UNCHANGED <<loaded, program, compiled, steps, writers, disk>>

(* A library that is not alone, or meets a schema it refuses, reports an error: no emitter      *)
(* runs, the libraries that are left report theirs.                                              *)
Refuses(s) == s \in Libraries /\ (Cardinality(loadedAutoEmitters(s)) > 1 \/ compiled \in Invalid)

(* The libraries come before the emitters.                                                        *)
InTurn(s) == s \in todo /\ (s \in Libraries \/ todo \cap Libraries = {})
Diagnose == \E s \in todo :
    /\ Running /\ InTurn(s) /\ Refuses(s)
    /\ todo' = {t \in todo \ {s} : t \in Libraries /\ Refuses(t)}
    /\ status' = IF todo' = {} THEN "failed" ELSE "running"
    /\ UNCHANGED <<stage, pending>>

Begin == \E s \in todo :
    /\ Running /\ InTurn(s) /\ ~Refuses(s)
    /\ stage' = s
    /\ pending' = {[file |-> f, text |-> Rendered(s, f, disk[PathOf(f)])] :
                       f \in {f \in Files(s, compiled) : ~Skips(s, f)}}
    /\ todo' = todo \ {s} /\ UNCHANGED status

(* The libraries write all at once, the emitters one file after another.                         *)
AtOnce == stage \in Libraries
Put(ws, partial) ==
    [path \in DOMAIN disk |->
        IF \E w \in ws : PathOf(w.file) = path
        THEN LET w == CHOOSE w \in ws : PathOf(w.file) = path
             IN IF w \in partial THEN [body |-> Cut, hash |-> w.text.hash, own |-> 0] ELSE w.text
        ELSE disk[path]]

WriteFile == /\ stage # "none"
             /\ \E w \in pending :
                   /\ pending' = pending \ {w} /\ disk' = Put({w}, {})
                   /\ writers' = [writers EXCEPT ![PathOf(w.file)] = @ \cup {stage}]
             /\ UNCHANGED <<loaded, program, compiled, todo, stage, status, steps>>

(* A write fails, or the process ends: files are complete, cut off or untouched.                  *)
CutOff == /\ stage # "none"
          /\ \E ws \in SUBSET pending : \E partial \in SUBSET ws :
                /\ partial # {}
                /\ ~AtOnce => Cardinality(ws) = 1
                /\ disk' = Put(ws, partial)
          /\ pending' = {} /\ todo' = {} /\ stage' = "none" /\ status' = "failed"
          /\ UNCHANGED <<loaded, program, compiled, writers, steps>>

Finish == /\ stage # "none" /\ pending = {}
          /\ stage' = "none"
          /\ status' = IF todo = {} THEN "ok" ELSE "running"
          /\ UNCHANGED <<loaded, program, compiled, todo, pending, disk, writers, steps>>

Next == \/ EditProgram \/ EditFile \/ WriteOwn
        \/ Compile \/ Diagnose \/ Begin \/ WriteFile \/ CutOff \/ Finish
Spec == Init /\ [][Next]_vars

----------------------------------------------------------------------------
(* After a compile that succeeded every file it stands for holds what it would write, also     *)
(* when compiles before were cut off, failed for another version, or files were edited: what    *)
(* one stage and the next wrote is of one version. Two kinds of files are not repaired: a C file  *)
(* whose header names these inputs, and ops.rs, which is the user's from the first byte on.        *)
NotRepaired(s, f) == \/ s = "c" /\ disk[PathOf(f)].hash = compiled
                     \/ s = "rust" /\ (f = "ops.rs" \/ ~Written(f))
Current == status = "ok" => \A s \in loaded : \A f \in Files(s, compiled) :
    disk[PathOf(f)].body = BodyOf[compiled][f] \/ NotRepaired(s, f)

(* No two generators write one file in a compile: all of the libraries have a generated.rs and a *)
(* schema, and whichever came last would win.                                                      *)
OneWriter == \A path \in DOMAIN writers : Cardinality(writers[path]) <= 1

(* What the user wrote below the zones of generated.rs, and ops.rs, is changed by nobody else,      *)
(* unless a write of that very file was cut off.                                                     *)
UserCodeStays == [][~CutOff => \A f \in {"generated.rs", "ops.rs"} :
    disk[PathOf(f)].own = 1 => disk'[PathOf(f)].own = 1]_vars
=============================================================================
