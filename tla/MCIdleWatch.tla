---------------------------- MODULE MCIdleWatch ----------------------------
(* An instance of IdleWatch for TLC. *)
EXTENDS IdleWatch

CONSTANTS r1, r2, r3

SomeRequests == {r1, r2, r3}
=============================================================================
