---------------------------- MODULE MCTaggedRows ----------------------------
(* Two tables of two and three columns, and connections that take one or two *)
(* rows of the one and at most one of the other.                             *)
EXTENDS TaggedRows

MCColumns == <<2, 3>>
MCPrefix == <<5, 7>>
MCTuple == <<6, 9>>
MCLimits == [variables : {2, 4, 7}, length : {4, 10, 17, 19, 27}]
=============================================================================
