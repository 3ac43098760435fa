----------------------------- MODULE MCDaemon -----------------------------
(* Instances of Daemon for TLC. *)
EXTENDS Daemon

CONSTANTS d1, d2, c1, c2

TwoDaemons == {d1, d2}
TwoClients == {c1, c2}
=============================================================================
