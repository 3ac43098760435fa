----------------------------- MODULE IdleWatch -----------------------------
(***************************************************************************)
(* Inside one serving daemon: the middleware that counts requests in       *)
(* progress (fn touch, impl Drop for RequestGuard), the task that cancels  *)
(* an idle daemon, and the server's graceful end                           *)
(* (packages/rust/src/emitter/templates/server_auto.rs).                   *)
(*                                                                         *)
(* The counter and the time of the last activity are two shared variables, *)
(* written by every request and read by the watcher without a common lock. *)
(* Requests may stall between any two steps; the one timing assumption is  *)
(* that the watcher's two reads fall into one tick of the clock.           *)
(***************************************************************************)
EXTENDS Naturals

CONSTANTS
    Requests,   \* connections that carry one request at a time
    Idle        \* idle_secs(), in ticks

ASSUME IdleAssumption == Idle \in Nat \ {0}

VARIABLES
    rpc,        \* where each request is between fetch_add and fetch_sub
    active,     \* DaemonState.active
    elapsed,    \* DaemonState.last.elapsed(), as far as Idle
    wpc,        \* what the watcher does next
    shutdown,   \* DaemonState.shutdown
    server,     \* the accept loop: accepting, draining the rest, or returned
    quiet       \* history: ticks since a response last came to its end, as far as Idle

watchVars == <<rpc, active, elapsed, wpc, shutdown, server, quiet>>

Phases == {"away", "entered", "handling", "streaming", "ended", "stamped"}

WatchTypeOK ==
    /\ rpc \in [Requests -> Phases]
    /\ active \in Nat
    /\ elapsed \in 0..Idle
    /\ wpc \in {"sleep", "awake", "check", "end"}
    /\ shutdown \in BOOLEAN
    /\ server \in {"accepting", "draining", "returned"}
    /\ quiet \in 0..Idle

WatchInit ==
    /\ rpc = [r \in Requests |-> "away"]
    /\ active = 0 /\ elapsed = 0
    /\ wpc = "sleep"
    /\ shutdown = FALSE
    /\ server = "accepting"
    /\ quiet = Idle

-----------------------------------------------------------------------------

Move(r, from, to) ==
    /\ rpc[r] = from
    /\ rpc' = [rpc EXCEPT ![r] = to]

\* fn touch: the counter goes up first,
Enter(r) ==
    /\ server = "accepting"
    /\ Move(r, "away", "entered")
    /\ active' = active + 1
    /\ UNCHANGED <<elapsed, wpc, shutdown, server, quiet>>

\* then the time of the last activity is set and the handler runs.
Touch(r) ==
    /\ Move(r, "entered", "handling")
    /\ elapsed' = 0
    /\ UNCHANGED <<active, wpc, shutdown, server, quiet>>

\* The handler returns; its body is streamed, and holds the guard.
Respond(r) ==
    /\ Move(r, "handling", "streaming")
    /\ UNCHANGED <<active, elapsed, wpc, shutdown, server, quiet>>

\* The last chunk is out, or the peer hung up and the body is dropped unread.
EndBody(r) ==
    /\ Move(r, "streaming", "ended")
    /\ quiet' = 0
    /\ UNCHANGED <<active, elapsed, wpc, shutdown, server>>

\* The peer hung up before there was a response: the future owns the guard.
AbandonHandler(r) ==
    /\ Move(r, "handling", "ended")
    /\ quiet' = 0
    /\ UNCHANGED <<active, elapsed, wpc, shutdown, server>>

\* RequestGuard::drop: the time of the last activity is set first,
StampLast(r) ==
    /\ Move(r, "ended", "stamped")
    /\ elapsed' = 0
    /\ UNCHANGED <<active, wpc, shutdown, server, quiet>>

\* Mutant: the counter is never brought down again.
Leave_Forgets(r) ==
    /\ Move(r, "stamped", "away")
    /\ UNCHANGED <<active, elapsed, wpc, shutdown, server, quiet>>

\* then the counter goes down.
Leave(r) ==
    /\ Move(r, "stamped", "away")
    /\ active' = active - 1
    /\ UNCHANGED <<elapsed, wpc, shutdown, server, quiet>>

\* The handler of /__shutdown, or of /__handshake for a mismatched client.
Shutdown(r) ==
    /\ rpc[r] = "handling" /\ ~shutdown
    /\ shutdown' = TRUE
    /\ UNCHANGED <<rpc, active, elapsed, wpc, server, quiet>>

\* Mutant: only the time of the last activity is asked for.
ReadActive_Skipped ==
    /\ wpc = "awake" /\ server # "returned"
    /\ wpc' = "check"
    /\ UNCHANGED <<rpc, active, elapsed, shutdown, server, quiet>>

\* After its sleep the watcher reads the counter; `&&' stops it unless zero.
ReadActive ==
    /\ wpc = "awake" /\ server # "returned"
    /\ wpc' = IF active = 0 THEN "check" ELSE "sleep"
    /\ UNCHANGED <<rpc, active, elapsed, shutdown, server, quiet>>

\* Then it reads the time of the last activity, and cancels or sleeps on.
ReadLast ==
    /\ wpc = "check"
    /\ IF elapsed = Idle
       THEN wpc' = "end" /\ shutdown' = TRUE
       ELSE wpc' = "sleep" /\ UNCHANGED shutdown
    /\ UNCHANGED <<rpc, active, elapsed, server, quiet>>

\* with_graceful_shutdown: the listener is dropped,
DropListener ==
    /\ server = "accepting" /\ shutdown
    /\ server' = "draining"
    /\ UNCHANGED <<rpc, active, elapsed, wpc, shutdown, quiet>>

\* and serve returns when the last body is gone.
Return ==
    /\ server = "draining"
    /\ \A r \in Requests : rpc[r] = "away"
    /\ server' = "returned"
    /\ UNCHANGED <<rpc, active, elapsed, wpc, shutdown, quiet>>

Older(t) == IF t < Idle THEN t + 1 ELSE t

\* A second passes; it is also the watcher's sleep.
Tick ==
    /\ wpc # "check" /\ server # "returned"
    /\ elapsed' = Older(elapsed)
    /\ quiet' = Older(quiet)
    /\ wpc' = IF wpc = "sleep" THEN "awake" ELSE wpc
    /\ UNCHANGED <<rpc, active, shutdown, server>>

Done == server = "returned" /\ UNCHANGED watchVars

RequestStep(r) ==
    Touch(r) \/ Respond(r) \/ EndBody(r) \/ AbandonHandler(r) \/ StampLast(r) \/ Leave(r)
WatcherStep == ReadActive \/ ReadLast
ServerStep == DropListener \/ Return

WatchNext ==
    \/ \E r \in Requests : Enter(r) \/ RequestStep(r) \/ Shutdown(r)
    \/ WatcherStep
    \/ ServerStep
    \/ Tick
    \/ Done

\* Time passes, the runtime polls its tasks, and responses come to an end.
\* Nothing obliges a request to arrive or to cancel the daemon.
WatchFairness ==
    /\ \A r \in Requests : WF_watchVars(RequestStep(r))
    /\ WF_watchVars(WatcherStep)
    /\ WF_watchVars(ServerStep)
    /\ WF_watchVars(Tick)

WatchSpec == WatchInit /\ [][WatchNext]_watchVars
WatchFairSpec == WatchSpec /\ WatchFairness

-----------------------------------------------------------------------------
(* Properties                                                              *)

\* The watcher cancels only a daemon that has been idle: no response came to
\* its end within the idle time, and none is being computed or streamed. (A
\* request that has only just raised the counter may be there; it is served
\* by the graceful end.)
IdleMeansIdle ==
    [][wpc = "check" /\ wpc' = "end" =>
           quiet = Idle /\ \A r \in Requests : rpc[r] \in {"away", "entered"}]_watchVars

\* A daemon that nobody talks to any more ends by itself.
IdleDaemonEnds ==
    []<>(\E r \in Requests : rpc[r] # "away") \/ <>(server = "returned")
=============================================================================
