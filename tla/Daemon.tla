------------------------------ MODULE Daemon ------------------------------
(***************************************************************************)
(* The life of the generated background daemon and of the command-line     *)
(* clients that start it, greet it and send it their request               *)
(* (packages/rust/src/emitter/templates: server_auto.rs, client_auto.rs,   *)
(* daemon_auto.rs).                                                        *)
(*                                                                         *)
(* Any number of clients and daemon processes run at once. They share the  *)
(* lock file, the socket file, the socket's parent directory and the       *)
(* daemon binary on disk, each touched by a separate system call, so every *)
(* call is an action of its own. Processes may die at any step, and the    *)
(* binary may be replaced while old daemons still run it.                  *)
(***************************************************************************)
EXTENDS Naturals

CONSTANTS
    Daemons,         \* process ids available for daemons: a bound on spawns
    Clients,         \* one invocation of the command-line client each
    None,
    Handshake,       \* handshake_enabled()
    SeparateParent,  \* socket_path() is not directly inside cache_dir()
    MaxAttempts,     \* connection attempts of ready_socket (100 in the code)
    MaxUpgrades,     \* bound: how often the daemon binary is replaced
    MaxFaults        \* bound: crashes and failed writes of the pid file

ASSUME DaemonAssumption ==
    /\ None \notin Daemons
    /\ Handshake \in BOOLEAN
    /\ SeparateParent \in BOOLEAN
    /\ MaxAttempts \in Nat \ {0}
    /\ MaxUpgrades \in Nat
    /\ MaxFaults \in Nat

VARIABLES
    exe,        \* executable_stamp of the daemon binary now on disk
    parentDir,  \* the socket's parent directory exists
    sockFile,   \* the daemon whose bind created the socket file, or None
    pidFile,    \* the daemon whose id the pid file holds, or None
    lock,       \* the holder of the exclusive lock on the lock file, or None
    dpc,        \* what each daemon does next
    image,      \* the binary each daemon was executed from
    stamp,      \* DaemonState.stamp
    cancelled,  \* DaemonState.shutdown
    cpc,        \* what each client does next
    cstamp,     \* ready_socket's stamp, computed once
    started,    \* ready_socket's `started' flag
    attempts,   \* iterations of ready_socket's loop
    link,       \* the daemon each client is connected to, or None
    xchg,       \* state of the request on that connection
    faults

fileVars == <<exe, parentDir, sockFile, pidFile, lock>>
daemonVars == <<dpc, image, stamp, cancelled>>
clientVars == <<cpc, cstamp, started, attempts>>
wireVars == <<link, xchg>>
vars == <<fileVars, daemonVars, clientVars, wireVars, faults>>

Versions == 0..MaxUpgrades

DaemonPhases == {"unborn", "prepare", "lock", "clear", "stamp", "bind", "pid", "serve",
                 "drain", "rmSock", "rmParent", "rmPid", "exit", "gone"}
ClientPhases == {"begin", "probe", "greet", "greeted", "nap", "send", "sent", "done", "failed"}
Exchanges == {"none", "queued", "active", "ok", "conflict", "reset"}

TypeOK ==
    /\ exe \in Versions
    /\ parentDir \in BOOLEAN
    /\ sockFile \in Daemons \cup {None}
    /\ pidFile \in Daemons \cup {None}
    /\ lock \in Daemons \cup {None}
    /\ dpc \in [Daemons -> DaemonPhases]
    /\ image \in [Daemons -> Versions]
    /\ stamp \in [Daemons -> Versions]
    /\ cancelled \in [Daemons -> BOOLEAN]
    /\ cpc \in [Clients -> ClientPhases]
    /\ cstamp \in [Clients -> Versions]
    /\ started \in [Clients -> BOOLEAN]
    /\ attempts \in [Clients -> 0..MaxAttempts]
    /\ link \in [Clients -> Daemons \cup {None}]
    /\ xchg \in [Clients -> Exchanges]
    /\ faults \in 0..MaxFaults

\* The phases between a successful try_lock_exclusive and the return of daemon().
HoldsLock(d) == dpc[d] \in {"clear", "stamp", "bind", "pid", "serve", "drain",
                            "rmSock", "rmParent", "rmPid", "exit"}
\* The listener exists: the kernel accepts connections to the path d bound.
Listening(d) == dpc[d] \in {"pid", "serve"}
Running(d) == dpc[d] \notin {"unborn", "gone"}

\* The daemon a connect() to the socket path reaches.
Reachable(d) == sockFile = d /\ parentDir /\ Listening(d)

\* Requests that d's handlers are working on: DaemonState.active counts them.
Active(d) == {c \in Clients : link[c] = d /\ xchg[c] = "active"}

\* Every connection to d that got no answer is closed by the kernel.
ResetLinks(d, states) ==
    xchg' = [c \in Clients |-> IF link[c] = d /\ xchg[c] \in states THEN "reset" ELSE xchg[c]]

Init ==
    /\ exe = 0
    /\ parentDir = ~SeparateParent
    /\ sockFile = None /\ pidFile = None /\ lock = None
    /\ dpc = [d \in Daemons |-> "unborn"]
    /\ image = [d \in Daemons |-> 0]
    /\ stamp = [d \in Daemons |-> 0]
    /\ cancelled = [d \in Daemons |-> FALSE]
    /\ cpc = [c \in Clients |-> "begin"]
    /\ cstamp = [c \in Clients |-> 0]
    /\ started = [c \in Clients |-> FALSE]
    /\ attempts = [c \in Clients |-> 0]
    /\ link = [c \in Clients |-> None]
    /\ xchg = [c \in Clients |-> "none"]
    /\ faults = 0

-----------------------------------------------------------------------------
(* The daemon process: fn daemon, step by step.                            *)

Goto(d, phase) == dpc' = [dpc EXCEPT ![d] = phase]

\* Mutant: the stale socket file is removed before the lock is taken.
PrepareDirs_ClearsSocket(d) ==
    /\ dpc[d] = "prepare"
    /\ parentDir' = TRUE
    /\ sockFile' = None
    /\ Goto(d, "lock")
    /\ UNCHANGED <<exe, pidFile, lock, image, stamp, cancelled, clientVars, wireVars, faults>>

\* create_dir_all of the cache directory (never removed, so not a variable)
\* and of the socket's parent; then the process detaches.
PrepareDirs(d) ==
    /\ dpc[d] = "prepare"
    /\ parentDir' = TRUE
    /\ Goto(d, "lock")
    /\ UNCHANGED <<exe, sockFile, pidFile, lock, image, stamp, cancelled, clientVars, wireVars, faults>>

\* Mutant: the losing daemon goes on as if it held the lock.
TryLock_Ignored(d) ==
    /\ dpc[d] = "lock"
    /\ lock' = d /\ Goto(d, "clear")
    /\ UNCHANGED <<exe, parentDir, sockFile, pidFile, image, stamp, cancelled, clientVars, wireVars, faults>>

\* try_lock_exclusive; WouldBlock ends the process with success.
TryLock(d) ==
    /\ dpc[d] = "lock"
    /\ \/ lock = None /\ lock' = d /\ Goto(d, "clear")
       \/ lock # None /\ Goto(d, "gone") /\ UNCHANGED lock
    /\ UNCHANGED <<exe, parentDir, sockFile, pidFile, image, stamp, cancelled, clientVars, wireVars, faults>>

\* The socket file a dead daemon left behind is removed.
ClearStale(d) ==
    /\ dpc[d] = "clear"
    /\ sockFile' = None
    /\ Goto(d, "stamp")
    /\ UNCHANGED <<exe, parentDir, pidFile, lock, image, stamp, cancelled, clientVars, wireVars, faults>>

\* Mutant: the stamp is that of the binary the process was executed from, as
\* if it had been computed before the lock was taken.
ReadStamp_BeforeLock(d) ==
    /\ dpc[d] = "stamp"
    /\ stamp' = [stamp EXCEPT ![d] = image[d]]
    /\ Goto(d, "bind")
    /\ UNCHANGED <<exe, parentDir, sockFile, pidFile, lock, image, cancelled, clientVars, wireVars, faults>>

\* executable_stamp(current_exe()): the metadata of whatever now lies at the
\* path. Where the path of a replaced binary no longer resolves, the `?' ends
\* the process, which has nothing to clean up yet.
ReadStamp(d) ==
    /\ dpc[d] = "stamp"
    /\ \/ stamp' = [stamp EXCEPT ![d] = exe] /\ Goto(d, "bind") /\ UNCHANGED lock
       \/ exe # image[d] /\ lock' = None /\ Goto(d, "gone") /\ UNCHANGED stamp
    /\ UNCHANGED <<exe, parentDir, sockFile, pidFile, image, cancelled, clientVars, wireVars, faults>>

\* UnixListener::bind: fails when the directory is missing or the name taken,
\* and the failure goes through the same cleanup as a normal end.
Bind(d) ==
    /\ dpc[d] = "bind"
    /\ IF parentDir /\ sockFile = None
       THEN sockFile' = d /\ Goto(d, "pid")
       ELSE UNCHANGED sockFile /\ Goto(d, "rmSock")
    /\ UNCHANGED <<exe, parentDir, pidFile, lock, image, stamp, cancelled, clientVars, wireVars, faults>>

\* The pid file is written; the accept loop starts.
WritePid(d) ==
    /\ dpc[d] = "pid"
    /\ pidFile' = d
    /\ Goto(d, "serve")
    /\ UNCHANGED <<exe, parentDir, sockFile, lock, image, stamp, cancelled, clientVars, wireVars, faults>>

\* A queued connection is accepted, its request read and handed to a handler.
Accept(d, c) ==
    /\ dpc[d] = "serve"
    /\ link[c] = d /\ xchg[c] = "queued"
    /\ xchg' = [xchg EXCEPT ![c] = "active"]
    /\ UNCHANGED <<fileVars, daemonVars, clientVars, link, faults>>

\* fn handshake: a client built against another binary cancels this daemon.
AnswerHandshake(d, c) ==
    /\ dpc[d] \in {"serve", "drain"}
    /\ c \in Active(d) /\ cpc[c] = "greeted"
    /\ IF Handshake /\ cstamp[c] # stamp[d]
       THEN /\ cancelled' = [cancelled EXCEPT ![d] = TRUE]
            /\ xchg' = [xchg EXCEPT ![c] = "conflict"]
       ELSE /\ xchg' = [xchg EXCEPT ![c] = "ok"]
            /\ UNCHANGED cancelled
    /\ UNCHANGED <<fileVars, dpc, image, stamp, clientVars, link, faults>>

\* An operation's response has been written out in full.
AnswerRequest(d, c) ==
    /\ dpc[d] \in {"serve", "drain"}
    /\ c \in Active(d) /\ cpc[c] = "sent"
    /\ xchg' = [xchg EXCEPT ![c] = "ok"]
    /\ UNCHANGED <<fileVars, daemonVars, clientVars, link, faults>>

\* The idle watcher (module IdleWatch) found nothing active for long enough,
\* or someone posted /__shutdown, whatever is active.
Cancel(d) ==
    /\ dpc[d] = "serve" /\ ~cancelled[d]
    /\ cancelled' = [cancelled EXCEPT ![d] = TRUE]
    /\ UNCHANGED <<fileVars, dpc, image, stamp, clientVars, wireVars, faults>>

\* The graceful shutdown drops the listener: what was not accepted is lost.
StopAccepting(d) ==
    /\ dpc[d] = "serve" /\ cancelled[d]
    /\ ResetLinks(d, {"queued"})
    /\ Goto(d, "drain")
    /\ UNCHANGED <<fileVars, image, stamp, cancelled, clientVars, link, faults>>

\* Mutant: the server stops without waiting for requests in progress.
Drained_Abrupt(d) ==
    /\ dpc[d] = "drain"
    /\ ResetLinks(d, {"active"})
    /\ Goto(d, "rmSock")
    /\ UNCHANGED <<fileVars, image, stamp, cancelled, clientVars, link, faults>>

\* axum::serve returns once the last accepted request is answered.
Drained(d) ==
    /\ dpc[d] = "drain" /\ Active(d) = {}
    /\ Goto(d, "rmSock")
    /\ UNCHANGED <<fileVars, image, stamp, cancelled, clientVars, wireVars, faults>>

\* Cleanup after the server returned: whatever lies at the socket path goes.
RemoveSocket(d) ==
    /\ dpc[d] = "rmSock"
    /\ sockFile' = None
    /\ Goto(d, IF SeparateParent THEN "rmParent" ELSE "rmPid")
    /\ UNCHANGED <<exe, parentDir, pidFile, lock, image, stamp, cancelled, clientVars, wireVars, faults>>

\* remove_dir fails, and is ignored, on a directory that is not empty.
RemoveParent(d) ==
    /\ dpc[d] = "rmParent"
    /\ parentDir' = (parentDir /\ sockFile # None)
    /\ Goto(d, "rmPid")
    /\ UNCHANGED <<exe, sockFile, pidFile, lock, image, stamp, cancelled, clientVars, wireVars, faults>>

RemovePid(d) ==
    /\ dpc[d] = "rmPid"
    /\ pidFile' = None
    /\ Goto(d, "exit")
    /\ UNCHANGED <<exe, parentDir, sockFile, lock, image, stamp, cancelled, clientVars, wireVars, faults>>

\* Mutant: the lock's file handle outlives daemon().
Exit_KeepsLock(d) ==
    /\ dpc[d] = "exit"
    /\ Goto(d, "gone")
    /\ UNCHANGED <<fileVars, image, stamp, cancelled, clientVars, wireVars, faults>>

\* daemon() returns: closing the lock file releases the lock.
Exit(d) ==
    /\ dpc[d] = "exit"
    /\ lock' = IF lock = d THEN None ELSE lock
    /\ Goto(d, "gone")
    /\ UNCHANGED <<exe, parentDir, sockFile, pidFile, image, stamp, cancelled, clientVars, wireVars, faults>>

\* fs::write of the pid file fails: the listener is dropped, the cleanup runs.
PidWriteFails(d) ==
    /\ dpc[d] = "pid" /\ faults < MaxFaults
    /\ faults' = faults + 1
    /\ ResetLinks(d, {"queued"})
    /\ Goto(d, "rmSock")
    /\ UNCHANGED <<fileVars, image, stamp, cancelled, clientVars, link>>

\* The process is killed: the kernel releases its lock and its connections,
\* and leaves its files where they are.
Crash(d) ==
    /\ Running(d) /\ faults < MaxFaults
    /\ faults' = faults + 1
    /\ lock' = IF lock = d THEN None ELSE lock
    /\ ResetLinks(d, {"queued", "active"})
    /\ Goto(d, "gone")
    /\ UNCHANGED <<exe, parentDir, sockFile, pidFile, image, stamp, cancelled, clientVars, link>>

DaemonStep(d) ==
    \/ PrepareDirs(d) \/ TryLock(d) \/ ClearStale(d) \/ ReadStamp(d) \/ Bind(d) \/ WritePid(d)
    \/ StopAccepting(d) \/ Drained(d)
    \/ RemoveSocket(d) \/ RemoveParent(d) \/ RemovePid(d) \/ Exit(d)

-----------------------------------------------------------------------------
(* The client process: fn ready_socket, fn send and fn run.                *)

GotoC(c, phase) == cpc' = [cpc EXCEPT ![c] = phase]

\* The stamp of the server binary is computed once, before the loop.
BeginReady(c) ==
    /\ cpc[c] = "begin"
    /\ cstamp' = [cstamp EXCEPT ![c] = exe]
    /\ GotoC(c, "probe")
    /\ UNCHANGED <<fileVars, daemonVars, started, attempts, wireVars, faults>>

\* The probe connects and hangs up: with no handshake that is all it takes.
ProbeConnects(c) ==
    /\ cpc[c] = "probe"
    /\ \E d \in Daemons : Reachable(d)
    /\ GotoC(c, IF Handshake THEN "greet" ELSE "send")
    /\ UNCHANGED <<fileVars, daemonVars, cstamp, started, attempts, wireVars, faults>>

\* NotFound or ConnectionRefused: start a daemon, once, and look again later.
ProbeRefused(c) ==
    /\ cpc[c] = "probe"
    /\ \A d \in Daemons : ~Reachable(d)
    /\ \/ /\ started[c]
          /\ GotoC(c, "nap")
          /\ UNCHANGED <<dpc, image, started>>
       \/ /\ ~started[c]
          /\ \E d \in Daemons :
                /\ dpc[d] = "unborn"
                /\ Goto(d, "prepare")
                /\ image' = [image EXCEPT ![d] = exe]
          /\ started' = [started EXCEPT ![c] = TRUE]
          /\ GotoC(c, "nap")
       \/ /\ ~started[c]                       \* spawn() fails: no process left
          /\ \A d \in Daemons : dpc[d] # "unborn"
          /\ GotoC(c, "failed")
          /\ UNCHANGED <<dpc, image, started>>
    /\ UNCHANGED <<fileVars, stamp, cancelled, cstamp, attempts, wireVars, faults>>

\* A new connection for the handshake; an error means another attempt.
Greet(c) ==
    /\ cpc[c] = "greet"
    /\ \/ \E d \in Daemons :
            /\ Reachable(d)
            /\ link' = [link EXCEPT ![c] = d]
            /\ xchg' = [xchg EXCEPT ![c] = "queued"]
            /\ GotoC(c, "greeted")
       \/ /\ \A d \in Daemons : ~Reachable(d)
          /\ GotoC(c, "nap")
          /\ UNCHANGED wireVars
    /\ UNCHANGED <<fileVars, daemonVars, cstamp, started, attempts, faults>>

HangUp(c) ==
    /\ link' = [link EXCEPT ![c] = None]
    /\ xchg' = [xchg EXCEPT ![c] = "none"]

\* The handshake's outcome: OK leaves the loop; CONFLICT clears `started', so
\* that the next refused connection spawns a daemon from the new binary.
HearGreeting(c) ==
    /\ cpc[c] = "greeted"
    /\ \/ xchg[c] = "ok" /\ GotoC(c, "send") /\ UNCHANGED started
       \/ /\ xchg[c] = "conflict" /\ GotoC(c, "nap")
          /\ started' = [started EXCEPT ![c] = FALSE]
       \/ xchg[c] = "reset" /\ GotoC(c, "nap") /\ UNCHANGED started
    /\ HangUp(c)
    /\ UNCHANGED <<fileVars, daemonVars, cstamp, attempts, faults>>

\* Mutant: the loop has no bound.
Nap_Forever(c) ==
    /\ cpc[c] = "nap"
    /\ GotoC(c, "probe")
    /\ UNCHANGED <<fileVars, daemonVars, cstamp, started, attempts, wireVars, faults>>

\* The sleep at the end of an iteration; the loop's bound.
Nap(c) ==
    /\ cpc[c] = "nap"
    /\ attempts' = [attempts EXCEPT ![c] = @ + 1]
    /\ GotoC(c, IF attempts[c] + 1 = MaxAttempts THEN "failed" ELSE "probe")
    /\ UNCHANGED <<fileVars, daemonVars, cstamp, started, wireVars, faults>>

\* The request itself goes over one more new connection and is never retried.
Send(c) ==
    /\ cpc[c] = "send"
    /\ \/ \E d \in Daemons :
            /\ Reachable(d)
            /\ link' = [link EXCEPT ![c] = d]
            /\ xchg' = [xchg EXCEPT ![c] = "queued"]
            /\ GotoC(c, "sent")
       \/ /\ \A d \in Daemons : ~Reachable(d)
          /\ GotoC(c, "failed")
          /\ UNCHANGED wireVars
    /\ UNCHANGED <<fileVars, daemonVars, cstamp, started, attempts, faults>>

HearAnswer(c) ==
    /\ cpc[c] = "sent"
    /\ \/ xchg[c] = "ok" /\ GotoC(c, "done")
       \/ xchg[c] = "reset" /\ GotoC(c, "failed")
    /\ HangUp(c)
    /\ UNCHANGED <<fileVars, daemonVars, cstamp, started, attempts, faults>>

ClientStep(c) ==
    \/ BeginReady(c) \/ ProbeConnects(c) \/ ProbeRefused(c) \/ Greet(c) \/ HearGreeting(c)
    \/ Nap(c) \/ Send(c) \/ HearAnswer(c)

-----------------------------------------------------------------------------

\* Environment: the daemon binary is rebuilt or reinstalled.
Upgrade ==
    /\ exe < MaxUpgrades
    /\ exe' = exe + 1
    /\ UNCHANGED <<parentDir, sockFile, pidFile, lock, daemonVars, clientVars, wireVars, faults>>

\* Every invocation is over and every daemon has left.
AllOver ==
    /\ \A c \in Clients : cpc[c] \in {"done", "failed"}
    /\ \A d \in Daemons : ~Running(d)
    /\ UNCHANGED vars

Next ==
    \/ \E d \in Daemons : DaemonStep(d)
    \/ \E d \in Daemons, c \in Clients :
            Accept(d, c) \/ AnswerHandshake(d, c) \/ AnswerRequest(d, c)
    \/ \E d \in Daemons : Cancel(d) \/ PidWriteFails(d) \/ Crash(d)
    \/ \E c \in Clients : ClientStep(c)
    \/ Upgrade
    \/ AllOver

\* A runnable process runs, and an operation ends. Nothing obliges a binary to
\* be replaced, a process to crash, or a daemon to be cancelled.
Fairness ==
    /\ \A d \in Daemons : WF_vars(DaemonStep(d))
    /\ \A d \in Daemons, c \in Clients :
            WF_vars(Accept(d, c) \/ AnswerHandshake(d, c) \/ AnswerRequest(d, c))
    /\ \A c \in Clients : WF_vars(ClientStep(c))

Spec == Init /\ [][Next]_vars
FairSpec == Spec /\ Fairness

-----------------------------------------------------------------------------
(* Properties                                                              *)

\* A client that finds the socket path finds the one live listener: as long as
\* a daemon accepts connections, its socket file and the directory it lies in
\* exist, it holds the lock, and the pid file, once written, names it. Stale
\* files of crashed daemons and the cleanup of older ones never break this.
ListenerPublished ==
    \A d \in Daemons : Listening(d) =>
        /\ sockFile = d /\ parentDir /\ lock = d
        /\ dpc[d] = "serve" => pidFile = d

\* No two daemons are past the lock at once, in service or in cleanup.
OneServer ==
    \A d, e \in Daemons : HoldsLock(d) /\ HoldsLock(e) => d = e

\* With the handshake on, no request is worked on by a daemon that read an
\* older stamp than the client did, though the daemon that answers the request
\* need not be the one that answered the handshake.
NeverServedByOlder ==
    \A c \in Clients :
        Handshake /\ cpc[c] = "sent" /\ xchg[c] \in {"queued", "active"}
            => stamp[link[c]] >= cstamp[c]

\* A request that reached a handler is answered, whatever cancels the daemon:
\* only a crash cuts it off.
NoRequestCutOff ==
    [][\A c \in Clients : xchg[c] = "active" /\ xchg'[c] = "reset" => faults' = faults + 1]_vars

\* What a client finds behind the socket path.
Door == IF \E d \in Daemons : Reachable(d)
        THEN CHOOSE d \in Daemons : Reachable(d)
        ELSE None

\* The lock file and the socket file together implement the abstract promise:
\* the path leads to nobody or to the lock's holder, who alone changes that.
Promise == INSTANCE Rendezvous WITH Processes <- Daemons, owner <- lock, door <- Door
ImplementsRendezvous == Promise!Spec

\* No client waits forever for a daemon that died, drained or never came.
ClientsEnd == \A c \in Clients : []<>(cpc[c] \in {"done", "failed"})

\* A daemon told to stop does not keep the lock for good: another may take its
\* place.
CancelledLeaves == \A d \in Daemons : []<>(cancelled[d] => lock # d)
=============================================================================
