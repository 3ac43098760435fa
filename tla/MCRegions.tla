------------------------------ MODULE MCRegions ------------------------------
(* Three zones, one of which has no content in one of the versions. *)
EXTENDS Regions, TLC

CONSTANTS imports, structs, routes, first, second

MCIds == <<imports, structs, routes>>
MCVoid == imports :> {} @@ structs :> {second} @@ routes :> {}

Symmetry == Permutations(Texts)
=============================================================================
