------------------------------ MODULE MCIntern ------------------------------
(* Two kinds of entities: one with a column to update beside its key, and    *)
(* one that is all key, and whose key may be absent.                         *)
EXTENDS InternWriter, TLC

CONSTANTS Link, Tag, caller, alias, tag

MCEntities == {Link, Tag}
MCFields == Link :> <<caller, alias>> @@ Tag :> <<tag>>
MCKey == Link :> {caller} @@ Tag :> {tag}
MCOptional == {alias, tag}

Symmetry == Permutations(Writers) \union Permutations(Words)
=============================================================================
