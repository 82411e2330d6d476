----------------------------- MODULE LrcpServer -----------------------------
(***************************************************************************)
(* The lifecycle of the LRCP server: Listen and Shutdown of serverUDP and  *)
(* the sessionManager with its map of sessions.  A session number may be   *)
(* connected again after its session was removed, so there may be several  *)
(* session objects of one number, of which the map holds at most one.      *)
(*                                                                         *)
(* Two goroutines belong to a session: the one that calls the handler and  *)
(* the sender, which closes the session when a line was not acknowledged   *)
(* within TimeoutSession.  A datagram is handled by a goroutine, which may *)
(* have to wait for one of the two.  What the lengths and positions in a   *)
(* message make of it is in LrcpReceive and LrcpSend; here every outcome   *)
(* of HandleIncoming is possible for every message.                        *)
(***************************************************************************)
EXTENDS Naturals, FiniteSets

CONSTANTS Numbers,   \* session numbers
          Objects,   \* session objects; bounds the number of connects
          Datagrams, \* goroutines that handle datagrams at the same time
          NoSession  \* nil

ASSUME NoSessionAssumption == NoSession \notin Objects
ASSUME ProcessAssumption == Objects \cap Datagrams = {}
ASSUME FiniteAssumption == IsFiniteSet(Objects) /\ IsFiniteSet(Datagrams)

VARIABLES
  listen,      \* Listen: "off", "started" (isRunning set), "cancellable"
               \* (s.cancel set), "bound" (closer started), "serving" (session
               \* manager set, reader started), "stopped" (returned)
  serverDone,  \* serverCtx is done
  connOpen,    \* conn is open; closed by the closer
  reader,      \* "none", "reading", "waiting" (wgLocal.Wait), "done"
  sessions,    \* the map of the manager
  number,      \* the number of every created session object
  sessDone,    \* the objects whose cancelCtx was called
  worker,      \* the objects whose handler goroutine runs
  step,        \* of the senders: "idle" (not started), "run" (outer select), "line"
               \* (a line is under way), "done"; of the datagrams: "idle",
               \* "connect", "get", "signal" (waits at signalAck), "deliver"
               \* (waits at lockIncomingData or incomingChan); of both, in
               \* Remove: "remove", "cancel", "wait"
  of,          \* per datagram: the session number of the message
  target,      \* per sender and datagram: the session whose goroutines it
               \* waits for
  shutdown,    \* Shutdown: "no", "sessions" (at sessionsLock), "waitSessions"
               \* (holds sessionsLock), "waitStopped", "returned"
  closing      \* the sessions that sessionManager.Shutdown waits for

listenVars == <<listen, connOpen, reader>>
sessionVars == <<sessions, number, sessDone, worker, step, of, target>>
shutdownVars == <<shutdown, closing>>
serverVars == <<listenVars, serverDone, sessionVars, shutdownVars>>

\* The goroutines that may call Remove.
Removers == Objects \cup Datagrams

ServerInit ==
  /\ listen = "off" /\ connOpen = FALSE /\ reader = "none" /\ serverDone = FALSE
  /\ sessions = [n \in Numbers |-> NoSession]
  /\ number = [o \in {} |-> NoSession]
  /\ sessDone = {} /\ worker = {}
  /\ step = [p \in Removers |-> "idle"]
  /\ of = [d \in Datagrams |-> CHOOSE n \in Numbers : TRUE]
  /\ target = [p \in Removers |-> NoSession]
  /\ shutdown = "no" /\ closing = {}

Created == DOMAIN number

\* The context of a session descends from the one of the server.
CtxDone(o) == serverDone \/ o \in sessDone

\* sess.wg.Wait returns.
Ended(o) == o \notin worker /\ step[o] = "done"

\* Only Shutdown keeps sessionsLock over a wait.
LockFree == shutdown # "waitSessions"

GoTo(p, s) == step' = [step EXCEPT ![p] = s]

----------------------------------------------------------------------------
(* serverUDP.Listen *)

ListenStarts ==
  /\ listen = "off"
  /\ listen' = "started"
  /\ UNCHANGED <<connOpen, reader, serverDone, sessionVars, shutdownVars>>

\* Shutdown holds s.lock until it waits for s.stopped.
ServerLockFree == shutdown \notin {"sessions", "waitSessions"}

SetCancel ==
  /\ listen = "started" /\ ServerLockFree
  /\ listen' = "cancellable"
  /\ UNCHANGED <<connOpen, reader, serverDone, sessionVars, shutdownVars>>

Bind ==
  /\ listen = "cancellable"
  /\ listen' = "bound" /\ connOpen' = TRUE
  /\ UNCHANGED <<reader, serverDone, sessionVars, shutdownVars>>

\* The address is taken: Listen returns the error.
BindFails ==
  /\ listen = "cancellable"
  /\ listen' = "stopped" /\ serverDone' = TRUE
  /\ UNCHANGED <<connOpen, reader, sessionVars, shutdownVars>>

SetManager ==
  /\ listen = "bound" /\ ServerLockFree
  /\ listen' = "serving" /\ reader' = "reading"
  /\ UNCHANGED <<connOpen, serverDone, sessionVars, shutdownVars>>

\* The closer.
CloseServerConn ==
  /\ serverDone /\ connOpen
  /\ connOpen' = FALSE
  /\ UNCHANGED <<listen, reader, serverDone, sessionVars, shutdownVars>>

\* Connects are bounded by the objects that are left for them.
ReadDatagram(d, kind, n) ==
  /\ reader = "reading" /\ connOpen
  /\ step[d] = "idle"
  /\ kind = "connect" =>
       Cardinality({e \in Datagrams : step[e] = "connect"})
         < Cardinality(Objects \ Created)
  /\ GoTo(d, kind)
  /\ of' = [of EXCEPT ![d] = n]
  /\ UNCHANGED <<listenVars, serverDone, sessions, number, sessDone, worker, target,
                 shutdownVars>>

\* The check of serverCtx, or a read from the closed conn.
ReaderStops ==
  /\ reader = "reading" /\ (serverDone \/ ~connOpen)
  /\ reader' = "waiting"
  /\ UNCHANGED <<listen, connOpen, serverDone, sessionVars, shutdownVars>>

\* Any other error; Listen takes it from errChan.
ReadFailed ==
  /\ reader = "reading" /\ connOpen
  /\ reader' = "waiting"
  /\ UNCHANGED <<listen, connOpen, serverDone, sessionVars, shutdownVars>>

\* Mutant: the reader does not cancel the server's context.
ContextLeft == serverDone

\* The deferred cancelFunc.
ContextCancelled == TRUE

\* wgLocal.Wait, then cancelFunc and wg.Done.
ReaderDone ==
  /\ reader = "waiting"
  /\ \A d \in Datagrams : step[d] = "idle"
  /\ reader' = "done" /\ serverDone' = ContextCancelled
  /\ UNCHANGED <<listen, connOpen, sessionVars, shutdownVars>>

\* wg.Wait for closer and reader, and close(s.stopped).
ListenStops ==
  /\ listen = "serving" /\ reader = "done" /\ ~connOpen
  /\ listen' = "stopped"
  /\ UNCHANGED <<connOpen, reader, serverDone, sessionVars, shutdownVars>>

----------------------------------------------------------------------------
(* handleIncomingMessage and the sessionManager *)

\* Mutant: the map is not searched.
NotFound(n) == NoSession

Found(n) == sessions[n]

\* A connect: a session of the map, or a new one with both goroutines.
GetOrCreate(d) ==
  /\ step[d] = "connect" /\ LockFree
  /\ IF Found(of[d]) # NoSession
     THEN GoTo(d, "idle") /\ UNCHANGED <<sessions, number, worker>>
     ELSE LET o == CHOOSE x \in Objects : x \notin Created
          IN  /\ sessions' = [sessions EXCEPT ![of[d]] = o]
              /\ number' = [x \in Created \cup {o} |-> IF x = o THEN of[d] ELSE number[x]]
              /\ worker' = worker \cup {o}
              /\ step' = [step EXCEPT ![d] = "idle", ![o] = "run"]
  /\ UNCHANGED <<listenVars, serverDone, sessDone, of, target, shutdownVars>>

\* What HandleIncoming comes to for data, an ack or a close: nothing new, a call
\* of close (also for an ack of too much), a wait at signalAck, or one at
\* lockIncomingData or incomingChan.
Outcomes == {"idle", "remove", "signal", "deliver"}

\* Get, and without a session only an answer.  HandleIncoming touches nothing of
\* this module before its first wait, so its outcome is chosen here.
GetSession(d, next) ==
  /\ step[d] = "get" /\ LockFree
  /\ LET o == sessions[of[d]]
         waits == o # NoSession /\ next \in {"signal", "deliver"}
     IN  /\ GoTo(d, IF o = NoSession THEN "idle" ELSE next)
         /\ target' = [target EXCEPT ![d] = IF waits THEN o ELSE NoSession]
  /\ UNCHANGED <<listenVars, serverDone, sessions, number, sessDone, worker, of,
                 shutdownVars>>

\* The sender takes the ack within a line, and with the last byte of it goes
\* back to its outer select, where it takes none.
TakeAck(d) ==
  /\ step[d] = "signal" /\ step[target[d]] = "line"
  /\ \E s \in {"line", "run"} : step' = [step EXCEPT ![d] = "idle", ![target[d]] = s]
  /\ target' = [target EXCEPT ![d] = NoSession]
  /\ UNCHANGED <<listenVars, serverDone, sessions, number, sessDone, worker, of,
                 shutdownVars>>

\* lockIncomingData is free, incomingChan has room or the handler's goroutine
\* takes a line from it.
TakeData(d) ==
  /\ step[d] = "deliver" /\ target[d] \in worker
  /\ GoTo(d, "idle")
  /\ target' = [target EXCEPT ![d] = NoSession]
  /\ UNCHANGED <<listenVars, serverDone, sessions, number, sessDone, worker, of,
                 shutdownVars>>

\* Both waits end with the context of the session.
WaitEnds(d) ==
  /\ step[d] \in {"signal", "deliver"} /\ CtxDone(target[d])
  /\ GoTo(d, "idle")
  /\ target' = [target EXCEPT ![d] = NoSession]
  /\ UNCHANGED <<listenVars, serverDone, sessions, number, sessDone, worker, of,
                 shutdownVars>>

\* Where a goroutine is after its call of close, and which number it closes:
\* the sender gives up the line.
AfterClose(p) == IF p \in Objects THEN "run" ELSE "idle"
NumberOf(p) == IF p \in Objects THEN number[p] ELSE of[p]

\* Remove up to the unlock: it removes whatever the map has for the number.
RemoveSession(p) ==
  /\ step[p] = "remove" /\ LockFree
  /\ LET n == NumberOf(p)
     IN  /\ sessions' = [sessions EXCEPT ![n] = NoSession]
         /\ target' = [target EXCEPT ![p] = sessions[n]]
         /\ GoTo(p, IF sessions[n] = NoSession THEN AfterClose(p) ELSE "cancel")
  /\ UNCHANGED <<listenVars, serverDone, number, sessDone, worker, of, shutdownVars>>

\* Mutant: the removed session is not cancelled.
CancelNothing(o) == {}

\* sess.cancelCtx
CancelCtx(o) == {o}

RemoveCancels(p) ==
  /\ step[p] = "cancel"
  /\ sessDone' = sessDone \cup CancelCtx(target[p])
  /\ GoTo(p, "wait")
  /\ UNCHANGED <<listenVars, serverDone, sessions, number, worker, of, target, shutdownVars>>

\* sess.wg.Wait, and the answer.
RemoveReturns(p) ==
  /\ step[p] = "wait" /\ Ended(target[p])
  /\ GoTo(p, AfterClose(p))
  /\ target' = [target EXCEPT ![p] = NoSession]
  /\ UNCHANGED <<listenVars, serverDone, sessions, number, sessDone, worker, of,
                 shutdownVars>>

----------------------------------------------------------------------------
(* The goroutines of a session *)

WorkerEnds(o) ==
  /\ o \in worker /\ CtxDone(o)
  /\ worker' = worker \ {o}
  /\ UNCHANGED <<listenVars, serverDone, sessions, number, sessDone, step, of, target,
                 shutdownVars>>

SenderEnds(o) ==
  /\ o \in Created /\ step[o] = "run" /\ CtxDone(o)
  /\ GoTo(o, "done")
  /\ UNCHANGED <<listenVars, serverDone, sessions, number, sessDone, worker, of, target,
                 shutdownVars>>

\* A line from outgoingChan.  One that select chooses when the context is done is
\* given up before anything is sent.
SenderTakesLine(o) ==
  /\ o \in Created /\ step[o] = "run" /\ ~CtxDone(o)
  /\ GoTo(o, "line")
  /\ UNCHANGED <<listenVars, serverDone, sessions, number, sessDone, worker, of, target,
                 shutdownVars>>

\* The line is given up.
LineCancelled(o) ==
  /\ o \in Created /\ step[o] = "line" /\ CtxDone(o)
  /\ GoTo(o, "run")
  /\ UNCHANGED <<listenVars, serverDone, sessions, number, sessDone, worker, of, target,
                 shutdownVars>>

\* timerSession: close on the sender's own goroutine.  select may choose the
\* timer although the context is done.
SenderTimesOut(o) ==
  /\ o \in Created /\ step[o] = "line"
  /\ GoTo(o, "remove")
  /\ UNCHANGED <<listenVars, serverDone, sessions, number, sessDone, worker, of, target,
                 shutdownVars>>

----------------------------------------------------------------------------
(* serverUDP.Shutdown, with a context that is never done *)

CancelSet == listen \notin {"off", "started"}
ManagerSet == listen = "serving" \/ reader # "none"

\* Under s.lock: cancel, if there is one, then the session manager, if any.
Shutdown ==
  /\ shutdown = "no"
  /\ serverDone' = (serverDone \/ CancelSet)
  /\ shutdown' = (IF listen = "off" THEN "returned"
                  ELSE IF ManagerSet THEN "sessions" ELSE "waitStopped")
  /\ UNCHANGED <<listenVars, sessionVars, closing>>

\* sessionManager.Shutdown up to its wait, for which it keeps sessionsLock.
ShutdownSessions ==
  /\ shutdown = "sessions"
  /\ closing' = {sessions[n] : n \in Numbers} \ {NoSession}
  /\ sessDone' = sessDone \cup closing'
  /\ sessions' = [n \in Numbers |-> NoSession]
  /\ shutdown' = "waitSessions"
  /\ UNCHANGED <<listenVars, serverDone, number, worker, step, of, target>>

SessionsShut ==
  /\ shutdown = "waitSessions"
  /\ \A o \in closing : Ended(o)
  /\ shutdown' = "waitStopped" /\ closing' = {}
  /\ UNCHANGED <<listenVars, serverDone, sessionVars>>

ShutdownReturns ==
  /\ shutdown = "waitStopped" /\ listen = "stopped"
  /\ shutdown' = "returned"
  /\ UNCHANGED <<listenVars, serverDone, sessionVars, closing>>

----------------------------------------------------------------------------
ListenStep == SetCancel \/ Bind \/ BindFails \/ SetManager \/ ListenStops
ReaderStep == ReaderStops \/ ReaderDone
DatagramStep(d) == \/ GetOrCreate(d) \/ \E next \in Outcomes : GetSession(d, next)
                   \/ TakeAck(d) \/ WaitEnds(d)
SenderStep(o) == SenderEnds(o) \/ LineCancelled(o) \/ SenderTimesOut(o)
RemoveStep(p) == RemoveSession(p) \/ RemoveCancels(p) \/ RemoveReturns(p)
ShutdownStep == ShutdownSessions \/ SessionsShut \/ ShutdownReturns

ServerNext ==
  \/ ListenStarts \/ ListenStep \/ ReaderStep \/ ReadFailed \/ CloseServerConn
  \/ \E d \in Datagrams :
       \/ DatagramStep(d) \/ TakeData(d)
       \/ \E kind \in {"connect", "get"}, n \in Numbers : ReadDatagram(d, kind, n)
  \/ \E p \in Removers : RemoveStep(p)
  \/ \E o \in Objects : WorkerEnds(o) \/ SenderStep(o) \/ SenderTakesLine(o)
  \/ Shutdown \/ ShutdownStep

\* Go runs every goroutine that is not blocked, and timerSession ends a line that
\* is not acknowledged.  A message's data is taken while the sender waits for
\* the next line: outgoingChan then has room for the handler's goroutine to go
\* on.  Nothing is assumed of clients, nor of who calls Listen and Shutdown.
ServerFairness ==
  /\ WF_serverVars(ListenStep) /\ WF_serverVars(ReaderStep)
  /\ WF_serverVars(CloseServerConn) /\ WF_serverVars(ShutdownStep)
  /\ \A d \in Datagrams :
       WF_serverVars(\/ DatagramStep(d) \/ RemoveStep(d)
                     \/ TakeData(d) /\ step[target[d]] = "run")
  /\ \A o \in Objects :
       WF_serverVars(WorkerEnds(o)) /\ WF_serverVars(SenderStep(o) \/ RemoveStep(o))

ServerSpec == ServerInit /\ [][ServerNext]_serverVars /\ ServerFairness

----------------------------------------------------------------------------
(* Properties *)

\* A session whose goroutines may go on is the one that the map has for its
\* number, or a Remove is about to cancel it: no connect, no close by number
\* of an earlier session of it and no Shutdown leaves a session behind that
\* no message and no Shutdown reaches.
NoOrphanSession ==
  \A o \in Created :
    \/ CtxDone(o)
    \/ sessions[number[o]] = o
    \/ \E p \in Removers : step[p] = "cancel" /\ target[p] = o

\* The sender of a session that timed out waits for its own end.
WaitsForItself(o) == step[o] = "wait" /\ target[o] = o

\* sessionManager.Shutdown waits, with sessionsLock held, for a sender that
\* timed out and needs the lock.
LockedOut == shutdown = "waitSessions" /\ \E o \in closing : step[o] = "remove"

\* Shutdown came when isRunning was set and s.cancel was not.
CalledTooEarly == shutdown = "waitStopped" /\ ~serverDone

\* The handler of an ack waits at signalAck and the sender for the next line,
\* which may never come.
Unheard(d) ==
  step[d] = "signal" /\ step[target[d]] = "run" /\ ~CtxDone(target[d])

\* Shutdown returns, whatever datagrams wait for the goroutines of their
\* sessions and whatever removals go on, unless it is locked out or came too
\* early.  After a failed read Listen waits for the datagrams under way, before
\* it cancels anything, and ends unless one of them is an ack that no sender
\* takes.  (No premise is ever undone, so each says what must come of it.)
ServerEnds ==
  /\ []<>(shutdown # "no" => shutdown = "returned" \/ LockedOut \/ CalledTooEarly)
  /\ []<>(reader \in {"waiting", "done"} =>
             listen = "stopped" \/ LockedOut \/ \E d \in Datagrams : Unheard(d))

\* Every session that was closed, by a client, by a timeout, by the late close
\* of an earlier session or by Shutdown, ends with both goroutines, unless its
\* sender closed it or Shutdown is stuck.
SessionsEnd ==
  \A o \in Objects :
    []<>(o \in Created /\ (CtxDone(o) \/ sessions[number[o]] # o)
           => Ended(o) \/ WaitsForItself(o) \/ LockedOut)
=============================================================================
