---------------------------- MODULE Rendezvous ----------------------------
(***************************************************************************)
(* What the background daemon promises its clients: one well-known name,   *)
(* at most one process allowed to answer under it, and nobody but that     *)
(* process ever changes what the name leads to.                            *)
(*                                                                         *)
(* `owner' is the process allowed to answer, `door' the process a client   *)
(* reaches by connecting to the name (None: the connection is refused).    *)
(* Module Daemon implements this with a lock file and a socket file.       *)
(***************************************************************************)
CONSTANTS Processes, None

VARIABLES owner, door

vars == <<owner, door>>

Init == owner = None /\ door = None

\* A process becomes the owner only when there is none, and behind a shut door.
Acquire(p) ==
    /\ owner = None /\ door = None
    /\ owner' = p
    /\ UNCHANGED door

\* The owner starts answering.
Open(p) ==
    /\ owner = p /\ door = None
    /\ door' = p
    /\ UNCHANGED owner

\* The owner stops answering, and stays the owner until it has tidied up.
Close(p) ==
    /\ owner = p /\ door = p
    /\ door' = None
    /\ UNCHANGED owner

\* The owner leaves, or dies while it answers.
Release(p) ==
    /\ owner = p
    /\ owner' = None /\ door' = None

Next == \E p \in Processes : Acquire(p) \/ Open(p) \/ Close(p) \/ Release(p)

Spec == Init /\ [][Next]_vars
=============================================================================
