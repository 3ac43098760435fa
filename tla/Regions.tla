------------------------------- MODULE Regions -------------------------------
(***************************************************************************)
(* A generated source file that its user writes in, too: ReplaceFile of     *)
(* the Rust package and TsReplaceFile of the React package.  Zones of the   *)
(* file stand between two sigil lines and belong to the emitter, all other  *)
(* lines belong to the user.  An emit reads the file from disk, finds the   *)
(* sigils with a regular expression and splices the new zones in.           *)
(*                                                                         *)
(* The file is a sequence of lines, each with its newline; an offset of the *)
(* code is the number of lines before it.                                   *)
(***************************************************************************)
EXTENDS Integers, Sequences, FiniteSets, SequencesExt

CONSTANTS
    Ids,         \* the zones in the order the emitter lists them, a sequence
    Texts,       \* lines that users write
    Scaffold,    \* the line of the ManualZone
    Versions,    \* what the zones are generated from
    Void,        \* the versions, by zone, for which a zone has no content
    Careless,    \* the emitters whose files lose single sigils, too
    MaxEdits,    \* bound on what users do to the file
    MaxEmits,    \* bound on the emits
    Missing      \* there is no file

ASSUME RegionsAssumption ==
    /\ Ids \in Seq(Range(Ids)) /\ IsInjective(Ids)
    /\ Versions # {}
    /\ Void \in [Range(Ids) -> SUBSET Versions]
    /\ Careless \subseteq {"rust", "ts"}
    /\ MaxEdits \in Nat
    /\ MaxEmits \in Nat

VARIABLES
    emitter,     \* whose file it is, ReplaceFile's or TsReplaceFile's
    file,        \* the lines on disk, or Missing
    emits,       \* the emits so far
    edits,       \* the changes by users so far
    given        \* the zones and the version of the last emit

fileVars == <<emitter, file, emits, edits, given>>

Zones == Range(Ids)

Start(z) == [kind |-> "start", id |-> z]
End(z) == [kind |-> "end", id |-> z]
AutoLine(z, v) == [kind |-> "auto", id |-> z, version |-> v]
Hand(t) == [kind |-> "hand", text |-> t]
Blank == [kind |-> "blank"]

\* The content of a zone and the newline behind it.
Content(z, v) == IF v \in Void[z] THEN <<Blank>> ELSE <<AutoLine(z, v)>>

NewZone(z, v) == <<Start(z)>> \o Content(z, v) \o <<End(z)>>

NewZones(S, v) == FlattenSeq([n \in 1..Len(Ids) |->
    IF Ids[n] \in S THEN NewZone(Ids[n], v) ELSE <<>>])

\* The first emit.
BuildInitialContent(S, v) == NewZones(S, v) \o <<Blank, Hand(Scaffold)>>

-----------------------------------------------------------------------------
(* Splicing *)

Sigils(f) == {n \in 1..Len(f) : f[n].kind \in {"start", "end"}}

\* The expression takes the blank lines before a sigil for its indentation.
LineStart(f, n) ==
    CHOOSE m \in 0..(n - 1) :
        /\ \A k \in (m + 1)..(n - 1) : f[k] = Blank
        /\ m > 0 => f[m] # Blank

\* Where the sigils of a zone are; the last of a kind counts, and the offsets
\* of one that is not there are 0.
Pair(f, z) ==
    LET starts == {n \in 1..Len(f) : f[n] = Start(z)}
        ends == {n \in 1..Len(f) : f[n] = End(z)}
        Latest(S) == CHOOSE n \in S : \A m \in S : m <= n
    IN [startOffset |-> IF starts = {} THEN 0 ELSE LineStart(f, Latest(starts)),
        startLineEnd |-> IF starts = {} THEN 0 ELSE Latest(starts),
        endLineStart |-> IF ends = {} THEN 0 ELSE LineStart(f, Latest(ends)),
        endLineEnd |-> IF ends = {} THEN 0 ELSE Latest(ends)]

OnDisk(f) == {f[n].id : n \in Sigils(f)}

\* Mutant: a start sigil is enough.
Matched_ByStart(f, S) == {z \in OnDisk(f) \intersect S : Pair(f, z).startLineEnd > 0}

Matched(f, S) == {z \in OnDisk(f) \intersect S :
    LET pair == Pair(f, z) IN pair.startLineEnd > 0 /\ pair.endLineStart > 0}

\* Mutant: zones that are no longer given stay.
Orphaned_Stay(f, S) == {}

Orphaned(f, S) == {z \in OnDisk(f) \ S : Pair(f, z).endLineEnd > 0}

\* Mutant: all zones that are given are added.
Added_All(f, S) == S

Added(f, S) == S \ OnDisk(f)

FirstSigil(f, z) == CHOOSE n \in Sigils(f) :
    f[n].id = z /\ \A m \in Sigils(f) : f[m].id = z => n <= m

\* The zones of a set of zones with their ranks, in the order of the ranks.
Lower(r, s) == \E n \in DOMAIN r : r[n] < s[n] /\ \A m \in 1..(n - 1) : r[m] = s[m]
Sorted(ranked) == [k \in 1..Cardinality(ranked) |->
    (CHOOSE p \in ranked : Cardinality({q \in ranked : Lower(q.rank, p.rank)}) = k - 1).zone]

\* The zones to process, by position.  The sort is stable, so matched zones
\* come first among equals and then those first seen.
AllDiskIds(f, S) ==
    LET Rank(z) == <<Pair(f, z).startOffset, IF z \in S THEN 0 ELSE 1, FirstSigil(f, z)>>
        ranked == {[zone |-> z, rank |-> Rank(z)] : z \in Matched(f, S) \union Orphaned(f, S)}
    IN Sorted(ranked)

Substring(f, from, to) == SubSeq(f, from + 1, to)

\* Where the loop over the zones on disk stands after k of them.
Cursor(f, ids, k) == IF k = 0 THEN 0 ELSE Pair(f, ids[k]).endLineEnd

\* What one turn of the loop puts out.
SpliceZone(f, S, v, cursor, z) ==
    LET pair == Pair(f, z)
    IN Substring(f, cursor, pair.startOffset)
       \o IF z \in S
          THEN Substring(f, pair.startOffset, pair.startLineEnd)
               \o Content(z, v)
               \o Substring(f, pair.endLineStart, pair.endLineEnd)
          ELSE <<>>

SpliceZones(f, S, v) ==
    LET ids == AllDiskIds(f, S)
        result == FlattenSeq([k \in DOMAIN ids |-> SpliceZone(f, S, v, Cursor(f, ids, k - 1), ids[k])])
        new == Added(f, S)
        separator == IF result # <<>> THEN <<Blank>> ELSE <<>>
    IN result
       \o (IF new = {} THEN <<>> ELSE separator \o NewZones(new, v))
       \o Substring(f, Cursor(f, ids, Len(ids)), Len(f))

ReplaceFile(f, S, v) ==
    IF f = Missing THEN BuildInitialContent(S, v) ELSE SpliceZones(f, S, v)

\* TsReplaceFile only fills the zones it finds: none is stripped or added.
TsRegionIds(f, S) ==
    LET ranked == {[zone |-> z, rank |-> <<Pair(f, z).startLineEnd>>] : z \in Matched(f, S)}
    IN Sorted(ranked)

TsSpliceZone(f, v, cursor, z) ==
    LET pair == Pair(f, z)
    IN Substring(f, cursor, pair.startLineEnd)
       \o Content(z, v)
       \o Substring(f, pair.endLineStart, pair.endLineEnd)

TsSpliceZones(f, S, v) ==
    LET ids == TsRegionIds(f, S)
        result == FlattenSeq([k \in DOMAIN ids |-> TsSpliceZone(f, v, Cursor(f, ids, k - 1), ids[k])])
    IN result \o Substring(f, Cursor(f, ids, Len(ids)), Len(f))

TsReplaceFile(f, S, v) ==
    IF f = Missing THEN BuildInitialContent(S, v) ELSE TsSpliceZones(f, S, v)

Emitted(f, S, v) ==
    IF emitter = "rust" THEN ReplaceFile(f, S, v) ELSE TsReplaceFile(f, S, v)

-----------------------------------------------------------------------------
FileInit ==
    /\ emitter \in {"rust", "ts"}
    /\ file = Missing
    /\ emits = 0
    /\ edits = 0
    /\ given = [zones |-> {}, version |-> CHOOSE v \in Versions : TRUE]

Emit(S, v) ==
    /\ emits < MaxEmits
    /\ emits' = emits + 1
    /\ file' = Emitted(file, S, v)
    /\ given' = [zones |-> S, version |-> v]
    /\ UNCHANGED <<emitter, edits>>

Edit ==
    /\ file # Missing
    /\ edits < MaxEdits
    /\ edits' = edits + 1
    /\ UNCHANGED <<emitter, emits, given>>

\* The line after which a line of the user's own would stand in a zone.
InZone(f, n) == \E z \in Zones :
    /\ \E i \in 1..n : f[i] = Start(z)
    /\ \E j \in (n + 1)..Len(f) : f[j] = End(z)

\* The user writes a line, or leaves one blank, outside the zones.
WriteLine(line) ==
    /\ Edit
    /\ line # Blank => line \notin Range(file)
    /\ \E n \in 0..Len(file) :
        /\ ~ InZone(file, n)
        /\ file' = InsertAt(file, n + 1, line)

\* The user takes a whole zone out, or moves it to the end of the file.
CutZone(z) ==
    /\ Edit
    /\ \E i \in {n \in 1..Len(file) : file[n] = Start(z)} : \E j \in (i + 1)..Len(file) :
        /\ file[j] = End(z)
        /\ LET rest == SubSeq(file, 1, i - 1) \o SubSeq(file, j + 1, Len(file))
           IN file' \in {rest, rest \o SubSeq(file, i, j)}

RemoveFile ==
    /\ Edit
    /\ file' = Missing

\* The user deletes a sigil and leaves the rest of its zone.
CutSigil ==
    /\ Edit
    /\ emitter \in Careless
    /\ \E n \in Sigils(file) : file' = RemoveAt(file, n)

FileNext ==
    \/ \E S \in SUBSET Zones, v \in Versions : Emit(S, v)
    \/ \E line \in {Hand(t) : t \in Texts} \union {Blank} : WriteLine(line)
    \/ \E z \in Zones : CutZone(z)
    \/ RemoveFile
    \/ CutSigil

FileSpec == FileInit /\ [][FileNext]_fileVars

-----------------------------------------------------------------------------
Sigil == {Start(z) : z \in Zones} \union {End(z) : z \in Zones}
Generated == {AutoLine(z, v) : z \in Zones, v \in Versions}
Hands == {Hand(t) : t \in Texts \union {Scaffold}}
Solid == Sigil \union Generated \union Hands

ASSUME MissingAssumption == Missing \notin Seq(Solid \union {Blank})

\* The file is missing or made of lines, each of which but blank ones is there once.
FileTypeOK ==
    /\ file = Missing \/ (/\ file \in Seq(Solid \union {Blank})
                          /\ \A m, n \in DOMAIN file : file[m] = file[n] => m = n \/ file[m] = Blank)
    /\ emitter \in {"rust", "ts"}
    /\ emits \in 0..MaxEmits
    /\ edits \in 0..MaxEdits
    /\ given \in [zones : SUBSET Zones, version : Versions]

\* The lines of K and which comes after which; one that is there twice, after itself.
InOrder(f, K) ==
    LET own == {n \in DOMAIN f : f[n] \in K}
        pairs == {d \in own \X own : d[1] < d[2]}
    IN [lines |-> {f[n] : n \in own}, after |-> {<<f[d[1]], f[d[2]]>> : d \in pairs}]

JustEmitted == emits' # emits

(* An emit into a file keeps every line the user wrote outside the zones, in *)
(* its order, whatever zones come and go: spliceZones.                       *)
ManualPreserved ==
    [][JustEmitted /\ file # Missing => InOrder(file', Hands) = InOrder(file, Hands)]_fileVars

(* After an emit by the Rust emitter the file has exactly the zones that were *)
(* given, each once and with the new content between its sigils, and nothing  *)
(* generated remains anywhere else.                                           *)
ZonesCurrent ==
    [][JustEmitted /\ emitter = "rust" =>
        /\ OnDisk(file') = given'.zones
        /\ \A z \in given'.zones : \E i, j \in DOMAIN file' :
            /\ file'[i] = Start(z) /\ file'[j] = End(z)
            /\ InOrder(SubSeq(file', i, j), Solid) = InOrder(NewZone(z, given'.version), Solid)
            /\ \A n \in DOMAIN file' \ (i..j) :
                file'[n].kind \in {"start", "end", "auto"} => file'[n].id # z
        /\ \A l \in Range(file') : l.kind = "auto" => l.id \in given'.zones]_fileVars

(* Emitting the same once more changes nothing but blank lines: the emitter   *)
(* finds its own output.  (A zone without content gains a blank line with     *)
(* every emit, see LineStart.)                                                *)
EmitSettles ==
    [][JustEmitted =>
        \A again \in {Emitted(file', given'.zones, given'.version)} :
            InOrder(again, Solid) = InOrder(file', Solid)]_fileVars
=============================================================================
