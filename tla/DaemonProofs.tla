--------------------------- MODULE DaemonProofs ---------------------------
(***************************************************************************)
(* Theorems about module Daemon for any number of clients, daemon          *)
(* processes, upgrades and faults, and about module IdleWatch for any      *)
(* number of requests.                                                     *)
(***************************************************************************)
EXTENDS Daemon, IdleWatch, FiniteSetTheorems, TLAPS

\* Whoever is past try_lock_exclusive holds the lock: hence one at a time.
LockInv == \A d \in Daemons : HoldsLock(d) => lock = d

\* The holder's files are as it left them: only the holder touches them.
FilesInv ==
    \A d \in Daemons :
        /\ Listening(d) => sockFile = d /\ parentDir
        /\ dpc[d] = "serve" => pidFile = d

\* An unanswered request sits at a daemon that can still answer or reset it.
WireInv ==
    \A c \in Clients :
        /\ xchg[c] \in {"queued", "active"} => link[c] \in Daemons
        /\ xchg[c] = "queued" => Listening(link[c])
        /\ xchg[c] = "active" => dpc[link[c]] \in {"serve", "drain"}

\* c knows that its own stamp was the daemon's when the daemon answered.
Vouched(c) ==
    /\ Handshake
    /\ \/ cpc[c] \in {"send", "sent"}
       \/ cpc[c] = "greeted" /\ xchg[c] = "ok"

\* d has computed its stamp and not yet released the lock.
Stamped(d) == HoldsLock(d) /\ dpc[d] \notin {"clear", "stamp"}

\* The binary on disk only gets newer, and so do the stamps of successive
\* holders of the lock: from the moment a client was told OK, no holder's stamp
\* is older than the client's.
StampInv ==
    \A c \in Clients :
        /\ cstamp[c] <= exe
        /\ Vouched(c) => \A d \in Daemons : Stamped(d) => stamp[d] >= cstamp[c]

\* The loop of ready_socket is left at its bound.
AttemptsInv == \A c \in Clients : cpc[c] # "failed" => attempts[c] < MaxAttempts

IInv == TypeOK /\ AttemptsInv /\ LockInv /\ FilesInv /\ WireInv /\ StampInv

-----------------------------------------------------------------------------

\* Initially nothing runs.
LEMMA InitIInv == Init => IInv
  <1> SUFFICES ASSUME Init PROVE IInv
    OBVIOUS
  <1> USE DaemonAssumption DEF Init
  <1>1. TypeOK
    BY DEF TypeOK, Versions, DaemonPhases, ClientPhases, Exchanges
  <1>2. LockInv /\ FilesInv
    BY DEF LockInv, FilesInv, HoldsLock, Listening
  <1>3. WireInv
    BY DEF WireInv
  <1>4. StampInv
    BY DEF StampInv, Vouched
  <1>5. AttemptsInv
    BY DEF AttemptsInv
  <1>6. QED
    BY <1>1, <1>2, <1>3, <1>4, <1>5 DEF IInv

\* Every step keeps the variables in their types.
LEMMA TypeStep == TypeOK /\ AttemptsInv /\ [Next]_vars => TypeOK'
  <1> SUFFICES ASSUME TypeOK, AttemptsInv, [Next]_vars PROVE TypeOK'
    OBVIOUS
  <1> USE DaemonAssumption DEF TypeOK, Versions, DaemonPhases, ClientPhases, Exchanges,
          fileVars, daemonVars, clientVars, wireVars, Goto, GotoC, ResetLinks
  <1>1. ASSUME NEW d \in Daemons, PrepareDirs(d) PROVE TypeOK'
    BY <1>1 DEF PrepareDirs
  <1>2. ASSUME NEW d \in Daemons, TryLock(d) PROVE TypeOK'
    BY <1>2 DEF TryLock
  <1>3. ASSUME NEW d \in Daemons, ClearStale(d) PROVE TypeOK'
    BY <1>3 DEF ClearStale
  <1>4. ASSUME NEW d \in Daemons, ReadStamp(d) PROVE TypeOK'
    BY <1>4 DEF ReadStamp
  <1>5. ASSUME NEW d \in Daemons, Bind(d) PROVE TypeOK'
    BY <1>5 DEF Bind
  <1>6. ASSUME NEW d \in Daemons, WritePid(d) PROVE TypeOK'
    BY <1>6 DEF WritePid
  <1>7. ASSUME NEW d \in Daemons, StopAccepting(d) PROVE TypeOK'
    BY <1>7 DEF StopAccepting
  <1>8. ASSUME NEW d \in Daemons, Drained(d) PROVE TypeOK'
    BY <1>8 DEF Drained
  <1>9. ASSUME NEW d \in Daemons, RemoveSocket(d) PROVE TypeOK'
    BY <1>9 DEF RemoveSocket
  <1>10. ASSUME NEW d \in Daemons, RemoveParent(d) PROVE TypeOK'
    BY <1>10 DEF RemoveParent
  <1>11. ASSUME NEW d \in Daemons, RemovePid(d) PROVE TypeOK'
    BY <1>11 DEF RemovePid
  <1>12. ASSUME NEW d \in Daemons, Exit(d) PROVE TypeOK'
    BY <1>12 DEF Exit
  <1>13. ASSUME NEW d \in Daemons, NEW c \in Clients, Accept(d, c) PROVE TypeOK'
    BY <1>13 DEF Accept
  <1>14. ASSUME NEW d \in Daemons, NEW c \in Clients, AnswerHandshake(d, c) PROVE TypeOK'
    BY <1>14 DEF AnswerHandshake
  <1>15. ASSUME NEW d \in Daemons, NEW c \in Clients, AnswerRequest(d, c) PROVE TypeOK'
    BY <1>15 DEF AnswerRequest
  <1>16. ASSUME NEW d \in Daemons, Cancel(d) PROVE TypeOK'
    BY <1>16 DEF Cancel
  <1>17. ASSUME NEW d \in Daemons, PidWriteFails(d) PROVE TypeOK'
    BY <1>17 DEF PidWriteFails
  <1>18. ASSUME NEW d \in Daemons, Crash(d) PROVE TypeOK'
    BY <1>18 DEF Crash
  <1>19. ASSUME NEW c \in Clients, BeginReady(c) PROVE TypeOK'
    BY <1>19 DEF BeginReady
  <1>20. ASSUME NEW c \in Clients, ProbeConnects(c) PROVE TypeOK'
    BY <1>20 DEF ProbeConnects
  <1>21. ASSUME NEW c \in Clients, ProbeRefused(c) PROVE TypeOK'
    <2>1. CASE started[c]
      BY <1>21, <2>1 DEF ProbeRefused
    <2>2. CASE ~started[c] /\ \E d \in Daemons : dpc[d] = "unborn"
      <3>1. PICK d \in Daemons : Goto(d, "prepare") /\ image' = [image EXCEPT ![d] = exe]
        BY <1>21, <2>2 DEF ProbeRefused
      <3>2. started' = [started EXCEPT ![c] = TRUE] /\ GotoC(c, "nap")
        BY <1>21, <2>2 DEF ProbeRefused
      <3>3. UNCHANGED <<fileVars, stamp, cancelled, cstamp, attempts, wireVars, faults>>
        BY <1>21 DEF ProbeRefused
      <3>4. QED
        BY <3>1, <3>2, <3>3
    <2>3. CASE ~started[c] /\ \A d \in Daemons : dpc[d] # "unborn"
      BY <1>21, <2>3 DEF ProbeRefused
    <2>4. QED
      BY <2>1, <2>2, <2>3
  <1>22. ASSUME NEW c \in Clients, Greet(c) PROVE TypeOK'
    BY <1>22 DEF Greet
  <1>23. ASSUME NEW c \in Clients, HearGreeting(c) PROVE TypeOK'
    BY <1>23 DEF HearGreeting, HangUp
  <1>24. ASSUME NEW c \in Clients, Nap(c) PROVE TypeOK'
    BY <1>24 DEF Nap, AttemptsInv
  <1>25. ASSUME NEW c \in Clients, Send(c) PROVE TypeOK'
    BY <1>25 DEF Send
  <1>26. ASSUME NEW c \in Clients, HearAnswer(c) PROVE TypeOK'
    BY <1>26 DEF HearAnswer, HangUp
  <1>27. CASE Upgrade
    BY <1>27 DEF Upgrade
  <1>28. CASE AllOver \/ UNCHANGED vars
    BY <1>28 DEF AllOver, vars
  <1>29. QED
    BY <1>1, <1>2, <1>3, <1>4, <1>5, <1>6, <1>7, <1>8, <1>9, <1>10, <1>11, <1>12, <1>13, <1>14,
       <1>15, <1>16, <1>17, <1>18, <1>19, <1>20, <1>21, <1>22, <1>23, <1>24, <1>25, <1>26, <1>27,
       <1>28 DEF Next, DaemonStep, ClientStep

\* Only Nap counts attempts, and it leaves the loop at the bound.
LEMMA AttemptsStep == TypeOK /\ AttemptsInv /\ [Next]_vars => AttemptsInv'
  <1> SUFFICES ASSUME TypeOK, AttemptsInv, [Next]_vars PROVE AttemptsInv'
    OBVIOUS
  <1> USE DaemonAssumption DEF AttemptsInv, TypeOK, clientVars, GotoC, ClientPhases
  <1>1. ASSUME NEW d \in Daemons, DaemonStep(d) PROVE AttemptsInv'
    BY <1>1 DEF DaemonStep, PrepareDirs, TryLock, ClearStale, ReadStamp, Bind, WritePid,
         StopAccepting, Drained, RemoveSocket, RemoveParent, RemovePid, Exit
  <1>2. ASSUME NEW d \in Daemons, Cancel(d) \/ PidWriteFails(d) \/ Crash(d) PROVE AttemptsInv'
    BY <1>2 DEF Cancel, PidWriteFails, Crash
  <1>3. ASSUME NEW d \in Daemons, NEW c \in Clients,
               Accept(d, c) \/ AnswerHandshake(d, c) \/ AnswerRequest(d, c)
        PROVE  AttemptsInv'
    BY <1>3 DEF Accept, AnswerHandshake, AnswerRequest
  <1>4. ASSUME NEW c \in Clients, Nap(c) PROVE AttemptsInv'
    <2>1. attempts' = [attempts EXCEPT ![c] = attempts[c] + 1]
      BY <1>4 DEF Nap
    <2>2. cpc' = [cpc EXCEPT ![c] = IF attempts[c] + 1 = MaxAttempts THEN "failed" ELSE "probe"]
      BY <1>4 DEF Nap
    <2>3. attempts[c] < MaxAttempts
      BY <1>4 DEF Nap
    <2>4. QED
      BY <2>1, <2>2, <2>3
  <1>5. ASSUME NEW c \in Clients, ClientStep(c), ~Nap(c) PROVE AttemptsInv'
    <2>1. attempts' = attempts /\ cpc[c] # "failed"
      BY <1>5 DEF ClientStep, BeginReady, ProbeConnects, ProbeRefused, Greet, HearGreeting,
           Send, HearAnswer
    <2>2. \A e \in Clients \ {c} : cpc'[e] = cpc[e]
      BY <1>5 DEF ClientStep, BeginReady, ProbeConnects, ProbeRefused, Greet, HearGreeting,
           Send, HearAnswer
    <2>3. QED
      BY <2>1, <2>2
  <1>6. CASE Upgrade \/ AllOver \/ UNCHANGED vars
    BY <1>6 DEF Upgrade, AllOver, vars
  <1>7. QED
    BY <1>1, <1>2, <1>3, <1>4, <1>5, <1>6 DEF Next

\* The daemons' phases change only by the daemons' own steps, by a crash, by a
\* failed write, or when a client turns an unborn process into a prepared one.
LEMMA ClientFrame ==
    ASSUME TypeOK, NEW c \in Clients, ClientStep(c)
    PROVE  /\ UNCHANGED <<fileVars, stamp, cancelled, faults>>
           /\ \A d \in Daemons : dpc'[d] = dpc[d] \/ (dpc[d] = "unborn" /\ dpc'[d] = "prepare")
  <1> USE DEF TypeOK, fileVars, daemonVars, Goto
  <1>1. CASE ProbeRefused(c)
    <2>1. UNCHANGED <<fileVars, stamp, cancelled, faults>>
      BY <1>1 DEF ProbeRefused
    <2>2. \/ UNCHANGED dpc
          \/ \E d \in Daemons : dpc[d] = "unborn" /\ dpc' = [dpc EXCEPT ![d] = "prepare"]
      BY <1>1 DEF ProbeRefused
    <2>3. QED
      BY <2>1, <2>2
  <1>2. CASE ~ProbeRefused(c)
    BY <1>2 DEF ClientStep, BeginReady, ProbeConnects, Greet, HearGreeting, Nap, Send, HearAnswer
  <1>3. QED
    BY <1>1, <1>2

\* A daemon gets past the lock only by taking it free, and gives it up only by
\* leaving the phases that need it.
LEMMA LockStep == TypeOK /\ LockInv /\ [Next]_vars => LockInv'
  <1> SUFFICES ASSUME TypeOK, LockInv, [Next]_vars PROVE LockInv'
    OBVIOUS
  <1> USE DaemonAssumption DEF LockInv, HoldsLock, TypeOK, fileVars, daemonVars, Goto
  <1>1. ASSUME NEW d \in Daemons, TryLock(d) PROVE LockInv'
    BY <1>1 DEF TryLock
  <1>2. ASSUME NEW d \in Daemons, ReadStamp(d) PROVE LockInv'
    BY <1>2 DEF ReadStamp
  <1>3. ASSUME NEW d \in Daemons, Exit(d) \/ Crash(d) PROVE LockInv'
    BY <1>3 DEF Exit, Crash
  <1>4. ASSUME NEW d \in Daemons, PrepareDirs(d) \/ ClearStale(d) \/ Bind(d) \/ WritePid(d)
                 \/ StopAccepting(d) \/ Drained(d)
        PROVE  LockInv'
    BY <1>4 DEF PrepareDirs, ClearStale, Bind, WritePid, StopAccepting, Drained
  <1>5. ASSUME NEW d \in Daemons, RemoveSocket(d) \/ RemoveParent(d) \/ RemovePid(d)
                 \/ Cancel(d) \/ PidWriteFails(d)
        PROVE  LockInv'
    BY <1>5 DEF RemoveSocket, RemoveParent, RemovePid, Cancel, PidWriteFails
  <1>6. ASSUME NEW d \in Daemons, NEW c \in Clients,
               Accept(d, c) \/ AnswerHandshake(d, c) \/ AnswerRequest(d, c)
        PROVE  LockInv'
    BY <1>6 DEF Accept, AnswerHandshake, AnswerRequest
  <1>7. ASSUME NEW c \in Clients, ClientStep(c) PROVE LockInv'
    BY <1>7, ClientFrame
  <1>8. CASE Upgrade \/ AllOver \/ UNCHANGED vars
    BY <1>8 DEF Upgrade, AllOver, vars
  <1>9. QED
    BY <1>1, <1>2, <1>3, <1>4, <1>5, <1>6, <1>7, <1>8 DEF Next, DaemonStep

\* Files are created and removed under the lock only, so that no step of one
\* daemon takes away what another one listens on. RemoveParent spares a
\* directory with a socket in it, but no other daemon can have one there.
LEMMA FilesStep == TypeOK /\ LockInv /\ FilesInv /\ [Next]_vars => FilesInv'
  <1> SUFFICES ASSUME TypeOK, LockInv, FilesInv, [Next]_vars PROVE FilesInv'
    OBVIOUS
  <1> USE DaemonAssumption DEF LockInv, HoldsLock, FilesInv, Listening, TypeOK,
          fileVars, daemonVars, Goto
  <1>1. ASSUME NEW d \in Daemons, PrepareDirs(d) PROVE FilesInv'
    BY <1>1 DEF PrepareDirs
  <1>2. ASSUME NEW d \in Daemons, TryLock(d) \/ ReadStamp(d) \/ Exit(d) PROVE FilesInv'
    BY <1>2 DEF TryLock, ReadStamp, Exit
  <1>3. ASSUME NEW d \in Daemons, ClearStale(d) PROVE FilesInv'
    BY <1>3 DEF ClearStale
  <1>4. ASSUME NEW d \in Daemons, Bind(d) PROVE FilesInv'
    BY <1>4 DEF Bind
  <1>5. ASSUME NEW d \in Daemons, WritePid(d) PROVE FilesInv'
    BY <1>5 DEF WritePid
  <1>6. ASSUME NEW d \in Daemons, StopAccepting(d) \/ Drained(d) PROVE FilesInv'
    BY <1>6 DEF StopAccepting, Drained
  <1>7. ASSUME NEW d \in Daemons, RemoveSocket(d) PROVE FilesInv'
    BY <1>7 DEF RemoveSocket
  <1>8. ASSUME NEW d \in Daemons, RemoveParent(d) PROVE FilesInv'
    BY <1>8 DEF RemoveParent
  <1>9. ASSUME NEW d \in Daemons, RemovePid(d) PROVE FilesInv'
    BY <1>9 DEF RemovePid
  <1>10. ASSUME NEW d \in Daemons, Cancel(d) \/ PidWriteFails(d) \/ Crash(d) PROVE FilesInv'
    BY <1>10 DEF Cancel, PidWriteFails, Crash
  <1>11. ASSUME NEW d \in Daemons, NEW c \in Clients,
                Accept(d, c) \/ AnswerHandshake(d, c) \/ AnswerRequest(d, c)
         PROVE  FilesInv'
    BY <1>11 DEF Accept, AnswerHandshake, AnswerRequest
  <1>12. ASSUME NEW c \in Clients, ClientStep(c) PROVE FilesInv'
    BY <1>12, ClientFrame
  <1>13. CASE Upgrade \/ AllOver \/ UNCHANGED vars
    BY <1>13 DEF Upgrade, AllOver, vars
  <1>14. QED
    BY <1>1, <1>2, <1>3, <1>4, <1>5, <1>6, <1>7, <1>8, <1>9, <1>10, <1>11, <1>12, <1>13
       DEF Next, DaemonStep

\* Whoever drops the listener or dies resets what was waiting there.
LEMMA WireStep == TypeOK /\ WireInv /\ [Next]_vars => WireInv'
  <1> SUFFICES ASSUME TypeOK, WireInv, [Next]_vars PROVE WireInv'
    OBVIOUS
  <1> USE DaemonAssumption DEF WireInv, Listening, TypeOK, fileVars, daemonVars, clientVars,
          wireVars, Goto, GotoC
  <1>1. ASSUME NEW d \in Daemons, PrepareDirs(d) \/ TryLock(d) \/ ClearStale(d) \/ ReadStamp(d)
                 \/ Bind(d) \/ WritePid(d)
        PROVE  WireInv'
    BY <1>1 DEF PrepareDirs, TryLock, ClearStale, ReadStamp, Bind, WritePid
  <1>2. ASSUME NEW d \in Daemons, StopAccepting(d) PROVE WireInv'
    BY <1>2 DEF StopAccepting, ResetLinks
  <1>3. ASSUME NEW d \in Daemons, Drained(d) PROVE WireInv'
    BY <1>3 DEF Drained, Active
  <1>4. ASSUME NEW d \in Daemons, RemoveSocket(d) \/ RemoveParent(d) \/ RemovePid(d) \/ Exit(d)
                 \/ Cancel(d)
        PROVE  WireInv'
    BY <1>4 DEF RemoveSocket, RemoveParent, RemovePid, Exit, Cancel
  <1>5. ASSUME NEW d \in Daemons, PidWriteFails(d) PROVE WireInv'
    BY <1>5 DEF PidWriteFails, ResetLinks
  <1>6. ASSUME NEW d \in Daemons, Crash(d) PROVE WireInv'
    BY <1>6 DEF Crash, ResetLinks
  <1>7. ASSUME NEW d \in Daemons, NEW c \in Clients,
               Accept(d, c) \/ AnswerHandshake(d, c) \/ AnswerRequest(d, c)
        PROVE  WireInv'
    BY <1>7 DEF Accept, AnswerHandshake, AnswerRequest
  <1>8. ASSUME NEW c \in Clients, Greet(c) \/ Send(c) PROVE WireInv'
    BY <1>8 DEF Greet, Send, Reachable
  <1>9. ASSUME NEW c \in Clients, HearGreeting(c) \/ HearAnswer(c) PROVE WireInv'
    BY <1>9 DEF HearGreeting, HearAnswer, HangUp
  <1>10. ASSUME NEW c \in Clients, BeginReady(c) \/ ProbeConnects(c) \/ Nap(c) PROVE WireInv'
    BY <1>10 DEF BeginReady, ProbeConnects, Nap
  <1>11. ASSUME NEW c \in Clients, ProbeRefused(c) PROVE WireInv'
    <2>1. UNCHANGED wireVars
      BY <1>11 DEF ProbeRefused
    <2>2. \A d \in Daemons : dpc'[d] = dpc[d] \/ (dpc[d] = "unborn" /\ dpc'[d] = "prepare")
      BY <1>11, ClientFrame DEF ClientStep
    <2>3. QED
      BY <2>1, <2>2
  <1>12. CASE Upgrade \/ AllOver \/ UNCHANGED vars
    BY <1>12 DEF Upgrade, AllOver, vars
  <1>13. QED
    BY <1>1, <1>2, <1>3, <1>4, <1>5, <1>6, <1>7, <1>8, <1>9, <1>10, <1>11, <1>12
       DEF Next, DaemonStep, ClientStep

\* OK vouches for the only stamped daemon there is, and later stamps are newer.
LEMMA StampStep ==
    TypeOK /\ LockInv /\ WireInv /\ StampInv /\ [Next]_vars => StampInv'
  <1> SUFFICES ASSUME TypeOK, LockInv, WireInv, StampInv, [Next]_vars PROVE StampInv'
    OBVIOUS
  <1> USE DaemonAssumption DEF StampInv, Stamped, HoldsLock, TypeOK, Versions,
          fileVars, daemonVars, clientVars, wireVars, Goto, GotoC
  <1>1. ASSUME NEW d \in Daemons, ReadStamp(d) PROVE StampInv'
    <2>1. UNCHANGED <<exe, cstamp, cpc, xchg>>
      BY <1>1 DEF ReadStamp
    <2>2. \A e \in Daemons : Stamped(e)' => (Stamped(e) /\ stamp'[e] = stamp[e]) \/ stamp'[e] = exe
      BY <1>1 DEF ReadStamp
    <2>3. QED
      BY <2>1, <2>2 DEF Vouched
  <1>2. ASSUME NEW d \in Daemons, PrepareDirs(d) \/ TryLock(d) \/ ClearStale(d) \/ Bind(d)
                 \/ WritePid(d) \/ Drained(d)
        PROVE  StampInv'
    BY <1>2 DEF PrepareDirs, TryLock, ClearStale, Bind, WritePid, Drained, Vouched
  <1>3. ASSUME NEW d \in Daemons, RemoveSocket(d) \/ RemoveParent(d) \/ RemovePid(d) \/ Exit(d)
                 \/ Cancel(d)
        PROVE  StampInv'
    BY <1>3 DEF RemoveSocket, RemoveParent, RemovePid, Exit, Cancel, Vouched
  <1>4. ASSUME NEW d \in Daemons, StopAccepting(d) \/ PidWriteFails(d) \/ Crash(d)
        PROVE  StampInv'
    <2>1. UNCHANGED <<exe, cstamp, cpc, stamp>>
      BY <1>4 DEF StopAccepting, PidWriteFails, Crash
    <2>2. \A c \in Clients : Vouched(c)' => Vouched(c)
      BY <1>4 DEF StopAccepting, PidWriteFails, Crash, ResetLinks, Vouched
    <2>3. \A e \in Daemons : Stamped(e)' => Stamped(e)
      BY <1>4 DEF StopAccepting, PidWriteFails, Crash
    <2>4. QED
      BY <2>1, <2>2, <2>3
  <1>5. ASSUME NEW d \in Daemons, NEW c \in Clients, AnswerHandshake(d, c) PROVE StampInv'
    <2>1. UNCHANGED <<exe, cstamp, cpc, stamp, dpc>>
      BY <1>5 DEF AnswerHandshake
    <2>2. HoldsLock(d) /\ \A e \in Daemons : Stamped(e) => e = d
      BY <1>5 DEF AnswerHandshake, LockInv
    <2>3. \A k \in Clients : Vouched(k)' => Vouched(k) \/ cstamp[k] = stamp[d]
      BY <1>5 DEF AnswerHandshake, Vouched
    <2>4. QED
      BY <2>1, <2>2, <2>3
  <1>6. ASSUME NEW d \in Daemons, NEW c \in Clients, Accept(d, c) \/ AnswerRequest(d, c)
        PROVE  StampInv'
    BY <1>6 DEF Accept, AnswerRequest, Vouched
  <1>7. ASSUME NEW c \in Clients, ClientStep(c) PROVE StampInv'
    <2>1. UNCHANGED <<exe, stamp>>
      BY <1>7, ClientFrame
    <2>2. \A e \in Daemons : Stamped(e)' => Stamped(e)
      BY <1>7, ClientFrame
    <2>3. \A k \in Clients : cstamp'[k] \in {cstamp[k], exe}
      BY <1>7 DEF ClientStep, BeginReady, ProbeConnects, ProbeRefused, Greet, HearGreeting, Nap,
         Send, HearAnswer
    <2>4. \A k \in Clients : Vouched(k)' => Vouched(k) /\ cstamp'[k] = cstamp[k]
      <3>1. CASE BeginReady(c)
        BY <3>1 DEF BeginReady, Vouched
      <3>2. CASE ProbeConnects(c) \/ Nap(c)
        BY <3>2 DEF ProbeConnects, Nap, Vouched
      <3>3. CASE ProbeRefused(c)
        <4>1. UNCHANGED <<cstamp, xchg>>
          BY <3>3 DEF ProbeRefused
        <4>2. \A k \in Clients : cpc'[k] = cpc[k] \/ cpc'[k] \in {"nap", "failed"}
          BY <3>3 DEF ProbeRefused
        <4>3. QED
          BY <4>1, <4>2 DEF Vouched
      <3>4. CASE Greet(c) \/ Send(c)
        BY <3>4 DEF Greet, Send, Vouched
      <3>5. CASE HearGreeting(c) \/ HearAnswer(c)
        BY <3>5 DEF HearGreeting, HearAnswer, HangUp, Vouched
      <3>6. QED
        BY <1>7, <3>1, <3>2, <3>3, <3>4, <3>5 DEF ClientStep
    <2>5. QED
      BY <2>1, <2>2, <2>3, <2>4
  <1>8. CASE Upgrade \/ AllOver \/ UNCHANGED vars
    BY <1>8 DEF Upgrade, AllOver, vars, Vouched
  <1>9. QED
    BY <1>1, <1>2, <1>3, <1>4, <1>5, <1>6, <1>7, <1>8 DEF Next, DaemonStep

\* The inductive invariant holds in every reachable state.
THEOREM Invariance == Spec => []IInv
  <1>1. IInv /\ [Next]_vars => IInv'
    BY TypeStep, AttemptsStep, LockStep, FilesStep, WireStep, StampStep DEF IInv
  <1>2. QED
    BY InitIInv, <1>1, PTL DEF Spec

\* Every variable keeps its type, for any number of processes.
THEOREM TypeCorrect == Spec => []TypeOK
  <1>1. IInv => TypeOK
    BY DEF IInv
  <1>2. QED
    BY Invariance, <1>1, PTL

\* No two daemons are past the lock at once, in service or in cleanup.
THEOREM MutualExclusion == Spec => []OneServer
  <1>1. IInv => OneServer
    BY DEF IInv, LockInv, OneServer
  <1>2. QED
    BY Invariance, <1>1, PTL

\* The socket path, its directory and the pid file belong to the daemon that
\* listens: no cleanup and no start-up of another daemon touches them.
THEOREM Published == Spec => []ListenerPublished
  <1>1. IInv => ListenerPublished
    BY DEF IInv, LockInv, FilesInv, ListenerPublished, HoldsLock, Listening
  <1>2. QED
    BY Invariance, <1>1, PTL

\* With the handshake on, no request reaches a daemon whose stamp is older than
\* the client's, however many daemons came and went since the handshake.
THEOREM FreshEnough == Spec => []NeverServedByOlder
  <1>1. IInv => NeverServedByOlder
    <2> SUFFICES ASSUME IInv, NEW c \in Clients,
                        Handshake, cpc[c] = "sent", xchg[c] \in {"queued", "active"}
                 PROVE  stamp[link[c]] >= cstamp[c]
      BY DEF NeverServedByOlder
    <2>1. link[c] \in Daemons /\ dpc[link[c]] \in {"pid", "serve", "drain"}
      BY DEF IInv, WireInv, Listening
    <2>2. Stamped(link[c]) /\ Vouched(c)
      BY <2>1 DEF Stamped, HoldsLock, Vouched
    <2>3. QED
      BY <2>1, <2>2 DEF IInv, StampInv
  <1>2. QED
    BY Invariance, <1>1, PTL

\* Nothing but a crash cuts off a request that a handler is working on.
THEOREM Graceful == Spec => NoRequestCutOff
  <1> DEFINE Cut == \A c \in Clients :
                        xchg[c] = "active" /\ xchg'[c] = "reset" => faults' = faults + 1
  <1>1. TypeOK /\ [Next]_vars => Cut
    <2> SUFFICES ASSUME TypeOK, [Next]_vars, NEW c \in Clients,
                        xchg[c] = "active", xchg'[c] = "reset"
                 PROVE  faults' = faults + 1
      OBVIOUS
    <2> USE DEF TypeOK, wireVars
    <2>1. ASSUME NEW d \in Daemons, DaemonStep(d) PROVE FALSE
      BY <2>1 DEF DaemonStep, PrepareDirs, TryLock, ClearStale, ReadStamp, Bind, WritePid,
         StopAccepting, Drained, RemoveSocket, RemoveParent, RemovePid, Exit, ResetLinks
    <2>2. ASSUME NEW d \in Daemons, Cancel(d) \/ PidWriteFails(d) \/ Crash(d)
          PROVE  faults' = faults + 1
      BY <2>2 DEF Cancel, PidWriteFails, Crash
    <2>3. ASSUME NEW d \in Daemons, NEW k \in Clients,
                 Accept(d, k) \/ AnswerHandshake(d, k) \/ AnswerRequest(d, k)
          PROVE  FALSE
      BY <2>3 DEF Accept, AnswerHandshake, AnswerRequest
    <2>4. ASSUME NEW k \in Clients, ClientStep(k) PROVE FALSE
      BY <2>4 DEF ClientStep, BeginReady, ProbeConnects, ProbeRefused, Greet, HearGreeting, Nap,
         Send, HearAnswer, HangUp
    <2>5. CASE Upgrade \/ AllOver \/ UNCHANGED vars
      BY <2>5 DEF Upgrade, AllOver, vars
    <2>6. QED
      BY <2>1, <2>2, <2>3, <2>4, <2>5 DEF Next
  <1>2. [][Cut]_vars => NoRequestCutOff
    BY PTL DEF NoRequestCutOff
  <1>3. QED
    BY TypeCorrect, <1>1, <1>2, PTL DEF Spec

-----------------------------------------------------------------------------
(* Daemon implements Rendezvous.                                           *)

\* The socket path leads to d exactly when d listens.
LEMMA DoorIsListener ==
    IInv => /\ \A d \in Daemons : Listening(d) <=> Door = d
            /\ (\A d \in Daemons : ~Listening(d)) => Door = None
  <1> SUFFICES ASSUME IInv
               PROVE  /\ \A d \in Daemons : Listening(d) <=> Door = d
                      /\ (\A d \in Daemons : ~Listening(d)) => Door = None
    OBVIOUS
  <1>1. \A d \in Daemons : Reachable(d) <=> Listening(d)
    BY DEF IInv, FilesInv, Reachable
  <1>2. \A d, e \in Daemons : Listening(d) /\ Listening(e) => d = e
    BY DEF IInv, LockInv, HoldsLock, Listening
  <1>3. Door \in Daemons => Listening(Door)
    BY <1>1, DaemonAssumption DEF Door
  <1>4. ASSUME NEW d \in Daemons, Listening(d) PROVE Door = d
    <2>1. Door \in Daemons
      BY <1>1, <1>4 DEF Door
    <2>2. QED
      BY <1>2, <1>3, <1>4, <2>1
  <1>5. (\A d \in Daemons : ~Listening(d)) => Door = None
    BY <1>1 DEF Door
  <1>6. QED
    BY <1>3, <1>4, <1>5

\* What a step does to the lock and to the set of listeners, and nothing else,
\* decides which step of Rendezvous it is.
LEMMA RendezvousStep ==
    IInv /\ IInv' /\ [Next]_vars => [Promise!Next]_<<lock, Door>>
  <1> SUFFICES ASSUME IInv, IInv', [Next]_vars PROVE [Promise!Next]_<<lock, Door>>
    OBVIOUS
  <1> DEFINE Quiet == lock' = lock /\ \A e \in Daemons : Listening(e)' <=> Listening(e)
  <1>1. /\ \A d \in Daemons : Listening(d) <=> Door = d
        /\ (\A d \in Daemons : ~Listening(d)) => Door = None
    BY DoorIsListener
  <1>2. /\ \A d \in Daemons : Listening(d)' <=> Door' = d
        /\ (\A d \in Daemons : ~Listening(d)') => Door' = None
    <2>1. (IInv => /\ \A d \in Daemons : Listening(d) <=> Door = d
                   /\ (\A d \in Daemons : ~Listening(d)) => Door = None)'
      BY DoorIsListener, PTL
    <2>2. QED
      BY <2>1
  <1>3. Quiet => UNCHANGED <<lock, Door>>
    BY <1>1, <1>2
  <1>4. \A d \in Daemons : Listening(d) => lock = d
    BY DEF IInv, LockInv, HoldsLock, Listening
  <1>5. \A d \in Daemons : Listening(d)' => lock' = d
    BY DEF IInv, LockInv, HoldsLock, Listening
  <1>6. TypeOK
    BY DEF IInv
  <1> USE DaemonAssumption
  <1> HIDE DEF Quiet
  \* The lock changes hands.
  <1>7. ASSUME NEW d \in Daemons, lock = None, lock' = d, \A e \in Daemons : ~Listening(e)'
        PROVE  Promise!Next
    <2>1. \A e \in Daemons : ~Listening(e)
      BY <1>4, <1>7
    <2>2. Door = None /\ Door' = None
      BY <1>1, <1>2, <1>7, <2>1
    <2>3. Promise!Acquire(d)
      BY <1>7, <2>2 DEF Promise!Acquire
    <2>4. QED
      BY <2>3 DEF Promise!Next
  <1>8. ASSUME NEW d \in Daemons, lock = d, lock' = None PROVE Promise!Next
    <2>1. Door' = None
      BY <1>2, <1>5, <1>8
    <2>2. Promise!Release(d)
      BY <1>8, <2>1 DEF Promise!Release
    <2>3. QED
      BY <2>2 DEF Promise!Next
  \* The holder starts or stops listening.
  <1>9. ASSUME NEW d \in Daemons, lock = d, lock' = lock, ~Listening(d), Listening(d)'
        PROVE  Promise!Next
    <2>1. Door = None
      BY <1>1, <1>4, <1>9
    <2>2. Door' = d
      BY <1>2, <1>9
    <2>3. Promise!Open(d)
      BY <1>9, <2>1, <2>2 DEF Promise!Open
    <2>4. QED
      BY <2>3 DEF Promise!Next
  <1>10. ASSUME NEW d \in Daemons, lock' = lock, Listening(d), ~Listening(d)'
         PROVE  Promise!Next
    <2>1. lock = d /\ Door = d
      BY <1>1, <1>4, <1>10
    <2>2. Door' = None
      BY <1>2, <1>5, <1>10, <2>1
    <2>3. Promise!Close(d)
      BY <1>10, <2>1, <2>2 DEF Promise!Close
    <2>4. QED
      BY <2>3 DEF Promise!Next
  <1> USE DEF TypeOK, Listening, Goto, fileVars, daemonVars, HoldsLock
  <1>11. ASSUME NEW d \in Daemons, TryLock(d) PROVE Promise!Next \/ Quiet
    <2>1. CASE lock = None
      <3>1. lock' = d /\ dpc' = [dpc EXCEPT ![d] = "clear"]
        BY <1>11, <2>1 DEF TryLock
      <3>2. \A e \in Daemons : ~Listening(e)'
        BY <1>4, <1>6, <2>1, <3>1
      <3>3. QED
        BY <1>7, <2>1, <3>1, <3>2
    <2>2. CASE lock # None
      BY <1>6, <1>11, <2>2 DEF TryLock, Quiet
    <2>3. QED
      BY <2>1, <2>2
  <1>12. ASSUME NEW d \in Daemons, ReadStamp(d) PROVE Promise!Next \/ Quiet
    <2>1. lock = d
      BY <1>12 DEF ReadStamp, IInv, LockInv
    <2>2. lock' = None \/ Quiet
      BY <1>6, <1>12 DEF ReadStamp, Quiet
    <2>3. QED
      BY <1>8, <2>1, <2>2
  <1>13. ASSUME NEW d \in Daemons, Exit(d) PROVE Promise!Next
    <2>1. lock = d /\ lock' = None
      BY <1>13 DEF Exit, IInv, LockInv
    <2>2. QED
      BY <1>8, <2>1
  <1>14. ASSUME NEW d \in Daemons, Crash(d) PROVE Promise!Next \/ Quiet
    <2>1. CASE lock = d
      <3>1. lock' = None
        BY <1>14, <2>1 DEF Crash
      <3>2. QED
        BY <1>8, <2>1, <3>1
    <2>2. CASE lock # d
      <3>1. ~Listening(d)
        BY <1>4, <2>2
      <3>2. Quiet
        BY <1>6, <1>14, <2>2, <3>1 DEF Crash, Quiet
      <3>3. QED
        BY <3>2
    <2>3. QED
      BY <2>1, <2>2
  <1>15. ASSUME NEW d \in Daemons, Bind(d) PROVE Promise!Next \/ Quiet
    <2>1. lock = d /\ lock' = lock /\ ~Listening(d)
      BY <1>15 DEF Bind, IInv, LockInv
    <2>2. Listening(d)' \/ Quiet
      BY <1>6, <1>15 DEF Bind, Quiet
    <2>3. QED
      BY <1>9, <2>1, <2>2
  <1>16. ASSUME NEW d \in Daemons, StopAccepting(d) \/ PidWriteFails(d) PROVE Promise!Next
    <2>1. lock' = lock /\ Listening(d)
      BY <1>16 DEF StopAccepting, PidWriteFails
    <2>2. ~Listening(d)'
      BY <1>6, <1>16 DEF StopAccepting, PidWriteFails
    <2>3. QED
      BY <1>10, <2>1, <2>2
  <1>17. ASSUME NEW d \in Daemons,
                PrepareDirs(d) \/ ClearStale(d) \/ WritePid(d) \/ Drained(d) \/ RemoveSocket(d)
                    \/ RemoveParent(d) \/ RemovePid(d) \/ Cancel(d)
         PROVE  Quiet
    BY <1>6, <1>17 DEF PrepareDirs, ClearStale, WritePid, Drained, RemoveSocket, RemoveParent,
       RemovePid, Cancel, Quiet
  <1>18. ASSUME NEW d \in Daemons, NEW c \in Clients,
                Accept(d, c) \/ AnswerHandshake(d, c) \/ AnswerRequest(d, c)
         PROVE  Quiet
    BY <1>18 DEF Accept, AnswerHandshake, AnswerRequest, Quiet
  <1>19. ASSUME NEW c \in Clients, ClientStep(c) PROVE Quiet
    BY <1>6, <1>19, ClientFrame DEF Quiet
  <1>20. CASE Upgrade \/ AllOver \/ UNCHANGED vars
    <2>1. Quiet
      BY <1>20 DEF Upgrade, AllOver, vars, Quiet
    <2>2. QED
      BY <1>3, <2>1
  <1>21. QED
    BY <1>3, <1>11, <1>12, <1>13, <1>14, <1>15, <1>16, <1>17, <1>18, <1>19, <1>20
       DEF Next, DaemonStep

\* The daemon's files implement the abstract promise.
THEOREM Refinement == Spec => ImplementsRendezvous
  <1>1. Init => Promise!Init
    <2> SUFFICES ASSUME Init PROVE Promise!Init
      OBVIOUS
    <2>1. \A d \in Daemons : ~Listening(d)
      BY DEF Init, Listening
    <2>2. Door = None
      BY <2>1, InitIInv, DoorIsListener
    <2>3. QED
      BY <2>2 DEF Init, Promise!Init
  <1>2. QED
    BY <1>1, Invariance, RendezvousStep, PTL
       DEF Spec, ImplementsRendezvous, Promise!Spec, Promise!vars

-----------------------------------------------------------------------------
(* Inside one daemon: the watcher, for any number of requests and any idle   *)
(* time.                                                                      *)

Busy == {r \in Requests : rpc[r] # "away"}

\* The counter is the number of requests between fetch_add and fetch_sub.
Counted == IsFiniteSet(Busy) /\ active = Cardinality(Busy)

\* The time since the last activity is ahead of the time since a response
\* ended only while a guard is about to set it.
QuietLags == elapsed <= quiet \/ \E r \in Requests : rpc[r] = "ended"

\* Between the two reads of the watcher a request may come in. It has not
\* passed touch, or it has set the time of the last activity back.
CheckStands ==
    wpc = "check" => elapsed < Idle \/ \A r \in Requests : rpc[r] \in {"away", "entered"}

WatchInv == WatchTypeOK /\ Counted /\ QuietLags /\ CheckStands

LEMMA InitWatchInv == WatchInit => WatchInv
<1> SUFFICES ASSUME WatchInit PROVE WatchInv
    OBVIOUS
<1> USE IdleAssumption DEF WatchInit
<1>1. WatchTypeOK
    <2>1. 0 \in 0..Idle /\ Idle \in 0..Idle
        OBVIOUS
    <2> QED BY <2>1 DEF WatchTypeOK, Phases
<1>2. Busy = {}
    BY DEF Busy
<1>3. Counted
    BY <1>2, FS_EmptySet DEF Counted
<1>4. QuietLags /\ CheckStands
    BY DEF QuietLags, CheckStands
<1> QED BY <1>1, <1>3, <1>4 DEF WatchInv

(* A request that moves from one phase to another outside "away" leaves the  *)
(* set of busy requests as it was.                                           *)
LEMMA MoveKeepsBusy ==
    ASSUME WatchTypeOK, NEW r \in Requests, NEW from \in Phases \ {"away"},
           NEW to \in Phases \ {"away"}, Move(r, from, to)
    PROVE  Busy' = Busy
BY DEF Busy, Move, WatchTypeOK

LEMMA EnterKeeps ==
    ASSUME WatchInv, NEW r \in Requests, Enter(r)
    PROVE  WatchInv'
<1> USE IdleAssumption DEF WatchInv, Enter, Move
<1>1. WatchTypeOK'
    BY DEF WatchTypeOK, Phases
<1>2. Busy' = Busy \union {r} /\ r \notin Busy
    BY DEF Busy, WatchTypeOK
<1>3. Counted'
    BY <1>2, FS_AddElement DEF Counted
<1>4. QuietLags' /\ CheckStands'
    BY DEF QuietLags, CheckStands, WatchTypeOK
<1> QED BY <1>1, <1>3, <1>4

LEMMA LeaveKeeps ==
    ASSUME WatchInv, NEW r \in Requests, Leave(r)
    PROVE  WatchInv'
<1> USE IdleAssumption DEF WatchInv, Leave, Move
<1>1. Busy' = Busy \ {r} /\ r \in Busy
    BY DEF Busy, WatchTypeOK
<1>2. Counted' /\ active' \in Nat
    <2>1. IsFiniteSet(Busy') /\ Cardinality(Busy') = Cardinality(Busy) - 1
        BY <1>1, FS_RemoveElement DEF Counted
    <2> QED BY <2>1, FS_CardinalityType DEF Counted
<1>3. WatchTypeOK'
    BY <1>2 DEF WatchTypeOK, Phases
<1>4. QuietLags' /\ CheckStands'
    BY DEF QuietLags, CheckStands, WatchTypeOK
<1> QED BY <1>2, <1>3, <1>4

LEMMA RequestKeeps ==
    ASSUME WatchInv, NEW r \in Requests,
           Touch(r) \/ Respond(r) \/ EndBody(r) \/ AbandonHandler(r) \/ StampLast(r)
    PROVE  WatchInv'
<1> USE IdleAssumption DEF WatchInv
<1>1. CASE Touch(r)
    <2>1. WatchTypeOK' /\ QuietLags' /\ CheckStands'
        BY <1>1 DEF Touch, Move, WatchTypeOK, Phases, QuietLags, CheckStands
    <2>2. Counted'
        BY <1>1, MoveKeepsBusy DEF Touch, Counted, Phases
    <2> QED BY <2>1, <2>2
<1>2. CASE Respond(r)
    <2>1. WatchTypeOK' /\ QuietLags' /\ CheckStands'
        BY <1>2 DEF Respond, Move, WatchTypeOK, Phases, QuietLags, CheckStands
    <2>2. Counted'
        BY <1>2, MoveKeepsBusy DEF Respond, Counted, Phases
    <2> QED BY <2>1, <2>2
<1>3. CASE EndBody(r)
    <2>1. WatchTypeOK' /\ QuietLags' /\ CheckStands'
        BY <1>3 DEF EndBody, Move, WatchTypeOK, Phases, QuietLags, CheckStands
    <2>2. Counted'
        BY <1>3, MoveKeepsBusy DEF EndBody, Counted, Phases
    <2> QED BY <2>1, <2>2
<1>4. CASE AbandonHandler(r)
    <2>1. WatchTypeOK' /\ QuietLags' /\ CheckStands'
        BY <1>4 DEF AbandonHandler, Move, WatchTypeOK, Phases, QuietLags, CheckStands
    <2>2. Counted'
        BY <1>4, MoveKeepsBusy DEF AbandonHandler, Counted, Phases
    <2> QED BY <2>1, <2>2
<1>5. CASE StampLast(r)
    <2>1. WatchTypeOK' /\ QuietLags' /\ CheckStands'
        BY <1>5 DEF StampLast, Move, WatchTypeOK, Phases, QuietLags, CheckStands
    <2>2. Counted'
        BY <1>5, MoveKeepsBusy DEF StampLast, Counted, Phases
    <2> QED BY <2>1, <2>2
<1> QED BY <1>1, <1>2, <1>3, <1>4, <1>5

(* The steps that leave the requests and the counter alone. *)
LEMMA OtherKeeps ==
    ASSUME WatchInv, (\E r \in Requests : Shutdown(r)) \/ WatcherStep \/ ServerStep \/ Tick
                 \/ UNCHANGED watchVars
    PROVE  WatchInv'
<1> USE IdleAssumption DEF WatchInv
<1>1. Counted'
    BY DEF Counted, Busy, Shutdown, WatcherStep, ReadActive, ReadLast, ServerStep,
           DropListener, Return, Tick, watchVars
<1>2. CASE \E r \in Requests : Shutdown(r)
    BY <1>1, <1>2 DEF Shutdown, WatchTypeOK, QuietLags, CheckStands
<1>3. CASE ReadActive
    <2>1. active = 0 => Busy = {}
        BY FS_EmptySet DEF Counted
    <2>2. active = 0 => \A r \in Requests : rpc[r] = "away"
        BY <2>1 DEF Busy
    <2> QED BY <1>1, <1>3, <2>2 DEF ReadActive, WatchTypeOK, QuietLags, CheckStands
<1>4. CASE ReadLast
    BY <1>1, <1>4 DEF ReadLast, WatchTypeOK, QuietLags, CheckStands
<1>5. CASE ServerStep
    BY <1>1, <1>5 DEF ServerStep, DropListener, Return, WatchTypeOK, QuietLags, CheckStands
<1>6. CASE Tick
    BY <1>1, <1>6 DEF Tick, Older, WatchTypeOK, QuietLags, CheckStands
<1>7. CASE UNCHANGED watchVars
    BY <1>1, <1>7 DEF watchVars, WatchTypeOK, QuietLags, CheckStands
<1> QED BY <1>2, <1>3, <1>4, <1>5, <1>6, <1>7 DEF WatcherStep

LEMMA NextWatchInv == WatchInv /\ [WatchNext]_watchVars => WatchInv'
<1> SUFFICES ASSUME WatchInv, [WatchNext]_watchVars PROVE WatchInv'
    OBVIOUS
<1>1. ASSUME NEW r \in Requests, Enter(r) \/ RequestStep(r)
      PROVE  WatchInv'
    BY <1>1, EnterKeeps, LeaveKeeps, RequestKeeps DEF RequestStep
<1>2. CASE Done
    BY <1>2, OtherKeeps DEF Done
<1> QED BY <1>1, <1>2, OtherKeeps DEF WatchNext

(* The counter of requests in progress is exact, and what the watcher read   *)
(* first still counts when it reads the time of the last activity.           *)
THEOREM WatchInvariance == WatchSpec => []WatchInv
<1> QED BY InitWatchInv, NextWatchInv, PTL DEF WatchSpec

(* Every variable keeps its type; the counter never goes below zero, where   *)
(* AtomicUsize would wrap.                                                    *)
THEOREM WatchTypeCorrect == WatchSpec => []WatchTypeOK
<1>1. WatchInv => WatchTypeOK
    BY DEF WatchInv
<1> QED BY <1>1, WatchInvariance, PTL

(* The watcher cancels a daemon only if no response is computed or streamed  *)
(* and none came to its end within the idle time.                            *)
THEOREM CancelsOnlyIdle == WatchSpec => IdleMeansIdle
<1> DEFINE A == wpc = "check" /\ wpc' = "end" =>
                    quiet = Idle /\ \A r \in Requests : rpc[r] \in {"away", "entered"}
<1>1. ASSUME WatchInv, [WatchNext]_watchVars PROVE A
    <2> SUFFICES ASSUME wpc = "check", wpc' = "end"
                 PROVE  quiet = Idle /\ \A r \in Requests : rpc[r] \in {"away", "entered"}
        OBVIOUS
    <2>1. ReadLast
        <3>1. ~ UNCHANGED wpc
            OBVIOUS
        <3> QED BY <1>1, <3>1 DEF WatchNext, RequestStep, WatcherStep, ServerStep, Enter, Touch, Respond,
                EndBody, AbandonHandler, StampLast, Leave, Shutdown, ReadActive,
                DropListener, Return, Tick, Done, watchVars
    <2>2. elapsed = Idle
        BY <2>1 DEF ReadLast
    <2>3. \A r \in Requests : rpc[r] \in {"away", "entered"}
        BY <1>1, <2>2, IdleAssumption DEF WatchInv, CheckStands
    <2>4. quiet = Idle
        BY <1>1, <2>2, <2>3, IdleAssumption DEF WatchInv, QuietLags, WatchTypeOK
    <2> QED BY <2>3, <2>4
<1>2. WatchInv /\ [WatchNext]_watchVars => [A]_watchVars
    BY <1>1
<1> QED BY <1>2, WatchInvariance, PTL DEF WatchSpec, IdleMeansIdle

=============================================================================
