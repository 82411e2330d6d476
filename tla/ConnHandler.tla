---------------------------- MODULE ConnHandler ----------------------------
(***************************************************************************)
(* The server of 9-job-centre/proto: Listen accepts connections, and the   *)
(* looper of a connection runs three goroutines and waits for them before  *)
(* it reports the client as disconnected.                                  *)
(*                                                                         *)
(*   reader   reads a request and sends it on the unbuffered reqChan       *)
(*   worker   receives it, calls the handler and writes the response       *)
(*   closer   closes the connection when the context is done               *)
(*                                                                         *)
(* The handler is the job centre; here a request returns at once or, a     *)
(* GetJob that waits, when a job comes or the context is done.             *)
(***************************************************************************)
EXTENDS Naturals, FiniteSets

CONSTANTS Conns,       \* the connections that peers may open
          MaxRequests  \* bound on the requests of each peer

ASSUME RequestsAssumption == MaxRequests \in [Conns -> Nat]

VARIABLES
  status,     \* server.status: "init", "running" or "stopped"
  baseDone,   \* baseCtx is cancelled
  listener,   \* where Listen is: "off", "accepting", "waiting" (wg.Wait), "returned"
  stopWatch,  \* the goroutine that closes the listener: "off", "waiting", "done"
  shutdown,   \* where Shutdown is: "no", "waiting", "returned"
  looper,     \* per connection: "none", "running" (wg.Wait), "leaving", "done"
  reader,     \* "none", "check", "read", "send", "done"
  worker,     \* "none", "select", "handle", "blocked", "respond", "done"
  closer,     \* "none", "waiting", "done"
  cancelled,  \* connections whose own context is cancelled
  open,       \* connections that the server has not closed
  peer,       \* peers that have not closed their side
  inbox,      \* requests of a peer that were sent and not read yet
  sent        \* requests that a peer has sent so far

serverVars == <<status, baseDone, listener, stopWatch, shutdown>>
peerVars == <<peer, inbox, sent>>
vars == <<serverVars, looper, reader, worker, closer, cancelled, open, peerVars>>

Init ==
  /\ status = "init" /\ baseDone = FALSE
  /\ listener = "off" /\ stopWatch = "off" /\ shutdown = "no"
  /\ looper = [c \in Conns |-> "none"]
  /\ reader = [c \in Conns |-> "none"]
  /\ worker = [c \in Conns |-> "none"]
  /\ closer = [c \in Conns |-> "none"]
  /\ cancelled = {} /\ open = {} /\ peer = {}
  /\ inbox = [c \in Conns |-> 0]
  /\ sent = [c \in Conns |-> 0]

\* ctx.Done: cancelled here, or with the server's base context.
Done(c) == c \in cancelled \/ baseDone

\* Mutant: the worker is not in the looper's wait group.
GoroutinesButWorker(c) == {reader[c], closer[c]}

\* The goroutines that the looper waits for.
Goroutines(c) == {reader[c], worker[c], closer[c]}

----------------------------------------------------------------------------
(* The server *)

Listen ==
  /\ status = "init"
  /\ status' = "running"
  /\ listener' = "accepting" /\ stopWatch' = "waiting"
  /\ UNCHANGED <<baseDone, shutdown, looper, reader, worker, closer, cancelled,
                 open, peerVars>>

\* The address is taken: Listen returns the error, and stoppedChan is closed.
ListenFails ==
  /\ status = "init"
  /\ status' = "running" /\ listener' = "returned"
  /\ UNCHANGED <<baseDone, stopWatch, shutdown, looper, reader, worker, closer,
                 cancelled, open, peerVars>>

\* AcceptTCP returns a connection; its looper reports the client as connected
\* and starts the goroutines.
Accept(c) ==
  /\ listener = "accepting" /\ stopWatch = "waiting"
  /\ looper[c] = "none"
  /\ looper' = [looper EXCEPT ![c] = "running"]
  /\ reader' = [reader EXCEPT ![c] = "check"]
  /\ worker' = [worker EXCEPT ![c] = "select"]
  /\ closer' = [closer EXCEPT ![c] = "waiting"]
  /\ open' = open \cup {c}
  /\ peer' = peer \cup {c}
  /\ UNCHANGED <<serverVars, cancelled, inbox, sent>>

\* The goroutine that closes the listener once the base context is done.
CloseListener ==
  /\ stopWatch = "waiting" /\ baseDone
  /\ stopWatch' = "done"
  /\ UNCHANGED <<status, baseDone, listener, shutdown, looper, reader, worker,
                 closer, cancelled, open, peerVars>>

\* AcceptTCP fails on the closed listener: Listen leaves its loop.
AcceptFails ==
  /\ listener = "accepting" /\ stopWatch = "done"
  /\ listener' = "waiting"
  /\ UNCHANGED <<status, baseDone, stopWatch, shutdown, looper, reader, worker,
                 closer, cancelled, open, peerVars>>

\* AcceptTCP fails for another reason (out of file descriptors): Listen leaves
\* its loop too, and waits for the end of the connections and of baseCtx.
AcceptError ==
  /\ listener = "accepting" /\ stopWatch = "waiting"
  /\ listener' = "waiting"
  /\ UNCHANGED <<status, baseDone, stopWatch, shutdown, looper, reader, worker,
                 closer, cancelled, open, peerVars>>

LoopersDone == \A c \in Conns : looper[c] \in {"none", "done"}

\* wg.Wait is over, stoppedChan is closed.
ListenReturns ==
  /\ listener = "waiting" /\ stopWatch = "done"
  /\ LoopersDone
  /\ listener' = "returned"
  /\ UNCHANGED <<status, baseDone, stopWatch, shutdown, looper, reader, worker,
                 closer, cancelled, open, peerVars>>

Shutdown ==
  /\ status = "running"
  /\ status' = "stopped"
  /\ baseDone' = TRUE
  /\ shutdown' = "waiting"
  /\ UNCHANGED <<listener, stopWatch, looper, reader, worker, closer, cancelled,
                 open, peerVars>>

\* main calls Shutdown with a context that never ends.
ShutdownReturns ==
  /\ shutdown = "waiting" /\ listener = "returned"
  /\ shutdown' = "returned"
  /\ UNCHANGED <<status, baseDone, listener, stopWatch, looper, reader, worker,
                 closer, cancelled, open, peerVars>>

----------------------------------------------------------------------------
(* The reader *)

ReaderExit(c) ==
  /\ reader' = [reader EXCEPT ![c] = "done"]
  /\ cancelled' = cancelled \cup {c}

\* nextRequestBuffer looks at the context before each read.
ReaderCheck(c) ==
  /\ reader[c] = "check"
  /\ IF Done(c) THEN ReaderExit(c)
     ELSE reader' = [reader EXCEPT ![c] = "read"] /\ UNCHANGED cancelled
  /\ UNCHANGED <<serverVars, looper, worker, closer, open, peerVars>>

HasRequest(c) == inbox[c] > 0

\* A whole request is there.  After a close it may still come out of prevBuf.
ReaderRead(c) ==
  /\ reader[c] = "read"
  /\ HasRequest(c)
  /\ inbox' = [inbox EXCEPT ![c] = @ - 1]
  /\ reader' = [reader EXCEPT ![c] = "send"]
  /\ UNCHANGED <<serverVars, looper, worker, closer, cancelled, open, peer, sent>>

\* Mutant: the end of the stream is taken for an empty read.
StreamNeverEnds(c) == FALSE

StreamEnded(c) == c \notin peer /\ inbox[c] = 0

\* Read returns an error: the peer is gone or the connection was closed.
ReaderFails(c) ==
  /\ reader[c] = "read"
  /\ StreamEnded(c) \/ c \notin open
  /\ ReaderExit(c)
  /\ UNCHANGED <<serverVars, looper, worker, closer, open, peerVars>>

\* reqChan is unbuffered: the send and the worker's receive are one step.  The
\* send watches no context.
Handoff(c) ==
  /\ reader[c] = "send" /\ worker[c] = "select"
  /\ reader' = [reader EXCEPT ![c] = "check"]
  /\ worker' = [worker EXCEPT ![c] = "handle"]
  /\ UNCHANGED <<serverVars, looper, closer, cancelled, open, peerVars>>

----------------------------------------------------------------------------
(* The worker *)

WorkerExit(c) ==
  /\ worker' = [worker EXCEPT ![c] = "done"]
  /\ cancelled' = cancelled \cup {c}

\* The context is done; with a request at hand select picks either.
WorkerDone(c) ==
  /\ worker[c] = "select" /\ Done(c)
  /\ WorkerExit(c)
  /\ UNCHANGED <<serverVars, looper, reader, closer, open, peerVars>>

\* The handler returns at once, or is a GetJob that has to wait.
WorkerHandle(c) ==
  /\ worker[c] = "handle"
  /\ \E next \in {"respond", "blocked"} : worker' = [worker EXCEPT ![c] = next]
  /\ UNCHANGED <<serverVars, looper, reader, closer, cancelled, open, peerVars>>

\* A job comes for the waiting GetJob.
JobComes(c) ==
  /\ worker[c] = "blocked"
  /\ worker' = [worker EXCEPT ![c] = "respond"]
  /\ UNCHANGED <<serverVars, looper, reader, closer, cancelled, open, peerVars>>

\* The waiting GetJob fails because the context is done.
GetJobCancelled(c) ==
  /\ worker[c] = "blocked" /\ Done(c)
  /\ worker' = [worker EXCEPT ![c] = "respond"]
  /\ UNCHANGED <<serverVars, looper, reader, closer, cancelled, open, peerVars>>

WriteSucceeds(c) ==
  /\ worker[c] = "respond" /\ c \in open
  /\ worker' = [worker EXCEPT ![c] = "select"]
  /\ UNCHANGED <<serverVars, looper, reader, closer, cancelled, open, peerVars>>

WriteFails(c) ==
  /\ worker[c] = "respond" /\ (c \notin open \/ c \notin peer)
  /\ WorkerExit(c)
  /\ UNCHANGED <<serverVars, looper, reader, closer, open, peerVars>>

----------------------------------------------------------------------------
(* The closer and the looper *)

\* Mutant: the connection is not closed.
StillOpen(c) == open

Closed(c) == open \ {c}

\* Close wakes a Read or a Write that is blocked on the connection.
CloseConn(c) ==
  /\ closer[c] = "waiting" /\ Done(c)
  /\ closer' = [closer EXCEPT ![c] = "done"]
  /\ open' = Closed(c)
  /\ UNCHANGED <<serverVars, looper, reader, worker, cancelled, peerVars>>

\* wg.Wait is over.
LooperWaited(c) ==
  /\ looper[c] = "running"
  /\ Goroutines(c) = {"done"}
  /\ looper' = [looper EXCEPT ![c] = "leaving"]
  /\ UNCHANGED <<serverVars, reader, worker, closer, cancelled, open, peerVars>>

\* OnClientDisconnected gives the client's jobs back; then cancel.
OnClientDisconnected(c) ==
  /\ looper[c] = "leaving"
  /\ looper' = [looper EXCEPT ![c] = "done"]
  /\ cancelled' = cancelled \cup {c}
  /\ UNCHANGED <<serverVars, reader, worker, closer, open, peerVars>>

----------------------------------------------------------------------------
(* The peers *)

PeerSends(c) ==
  /\ c \in peer /\ sent[c] < MaxRequests[c]
  /\ sent' = [sent EXCEPT ![c] = @ + 1]
  /\ inbox' = [inbox EXCEPT ![c] = @ + 1]
  /\ UNCHANGED <<serverVars, looper, reader, worker, closer, cancelled, open, peer>>

PeerCloses(c) ==
  /\ c \in peer
  /\ peer' = peer \ {c}
  /\ UNCHANGED <<serverVars, looper, reader, worker, closer, cancelled, open,
                 inbox, sent>>

----------------------------------------------------------------------------
Server == CloseListener \/ AcceptFails \/ ListenReturns \/ ShutdownReturns
Reader(c) == ReaderCheck(c) \/ ReaderRead(c) \/ ReaderFails(c)
Worker(c) == Handoff(c) \/ WorkerDone(c) \/ WorkerHandle(c) \/ GetJobCancelled(c)
             \/ WriteFails(c)
Ending(c) == CloseConn(c) \/ LooperWaited(c) \/ OnClientDisconnected(c)
Peer(c) == PeerSends(c) \/ PeerCloses(c)

Next ==
  \/ Listen \/ ListenFails \/ Shutdown \/ AcceptError \/ Server
  \/ \E c \in Conns : \/ Accept(c) \/ Reader(c) \/ Worker(c) \/ Ending(c)
                      \/ Peer(c) \/ JobComes(c) \/ WriteSucceeds(c)

Spec == Init /\ [][Next]_vars

\* Go runs every goroutine that is not blocked.  Nothing is assumed of peers (a
\* write needs the peer to read), of new jobs, of Listen and of Shutdown.
Fairness ==
  /\ WF_vars(Server)
  /\ \A c \in Conns : WF_vars(Reader(c)) /\ WF_vars(Worker(c)) /\ WF_vars(Ending(c))

FairSpec == Spec /\ Fairness

----------------------------------------------------------------------------
(* Properties *)

\* Every goroutine is at one of its places, and a peer's requests are counted.
TypeOK ==
  /\ status \in {"init", "running", "stopped"} /\ baseDone \in BOOLEAN
  /\ listener \in {"off", "accepting", "waiting", "returned"}
  /\ stopWatch \in {"off", "waiting", "done"}
  /\ shutdown \in {"no", "waiting", "returned"}
  /\ looper \in [Conns -> {"none", "running", "leaving", "done"}]
  /\ reader \in [Conns -> {"none", "check", "read", "send", "done"}]
  /\ worker \in [Conns -> {"none", "select", "handle", "blocked", "respond", "done"}]
  /\ closer \in [Conns -> {"none", "waiting", "done"}]
  /\ cancelled \in SUBSET Conns /\ open \in SUBSET Conns /\ peer \in SUBSET Conns
  /\ inbox \in [Conns -> Nat] /\ sent \in [Conns -> Nat]
  /\ \A c \in Conns : inbox[c] <= sent[c] /\ sent[c] <= MaxRequests[c]

\* A client is reported as disconnected after its last request is over: no
\* handler call of a client runs during or after its OnClientDisconnected.
NoCallAfterDisconnect ==
  \A c \in Conns : looper[c] \in {"leaving", "done"} =>
    worker[c] \notin {"handle", "blocked"}

\* Once a connection has ended, all of it ends, or its reader is left with a
\* request that nobody will receive.
EndsUnlessReaderStuck ==
  \A c \in Conns :
    looper[c] = "running" /\ Done(c) ~>
      looper[c] = "done" \/ (reader[c] = "send" /\ worker[c] = "done")

\* A peer that leaves is noticed: the connection's context ends, unless the
\* worker waits for a job while the reader holds a request for it.
LeavingIsNoticed ==
  \A c \in Conns :
    looper[c] = "running" /\ c \notin peer ~>
      Done(c) \/ (reader[c] = "send" /\ worker[c] = "blocked")

\* "abort job": the jobs of a client whose connection has ended are given back.
DisconnectHappens ==
  \A c \in Conns : looper[c] = "running" /\ Done(c) ~> looper[c] = "done"
=============================================================================
