------------------------- MODULE Connections_proofs -------------------------
(***************************************************************************)
(* Proofs about the goroutines of a connection: ConnHandler, for any       *)
(* connections with any numbers of requests, and Heartbeat, for any        *)
(* messages and any number of IDs.                                         *)
(***************************************************************************)
EXTENDS ConnHandler, Heartbeat, FiniteSetTheorems, TLAPS

----------------------------------------------------------------------------
(* The proto server *)

\* A looper reports the client as disconnected when its worker has returned,
\* and a worker that has returned is not started again.
WorkerGone == \A c \in Conns : looper[c] \in {"leaving", "done"} => worker[c] = "done"

\* The inductive invariant of the proto server.
ProtoInv == TypeOK /\ WorkerGone

\* No goroutine of a connection has started.
LEMMA ProtoInit == Init => ProtoInv
<1> SUFFICES ASSUME Init PROVE ProtoInv
  OBVIOUS
<1>1. \A c \in Conns : inbox[c] <= sent[c] /\ sent[c] <= MaxRequests[c]
  BY RequestsAssumption DEF Init
<1> QED
  BY <1>1 DEF Init, ProtoInv, TypeOK, WorkerGone

\* Steps of the server leave the connections alone.
LEMMA ServerKeeps ==
  ASSUME ProtoInv, Listen \/ ListenFails \/ Shutdown \/ AcceptError \/ Server
  PROVE  ProtoInv'
BY DEF ProtoInv, TypeOK, WorkerGone, Listen, ListenFails, Shutdown, AcceptError, Server,
   CloseListener, AcceptFails, ListenReturns, ShutdownReturns, peerVars

\* A new connection, the reader and the handoff of a request to the worker.
LEMMA ReaderKeeps ==
  ASSUME ProtoInv, NEW c \in Conns, Accept(c) \/ Reader(c) \/ Handoff(c)
  PROVE  ProtoInv'
<1>1. CASE Accept(c)
  BY <1>1 DEF ProtoInv, TypeOK, WorkerGone, Accept, serverVars
<1>2. CASE ReaderCheck(c) \/ ReaderFails(c)
  BY <1>2 DEF ProtoInv, TypeOK, WorkerGone, ReaderCheck, ReaderFails, ReaderExit,
     serverVars, peerVars
<1>3. CASE ReaderRead(c)
  BY <1>3 DEF ProtoInv, TypeOK, WorkerGone, ReaderRead, HasRequest, serverVars
<1>4. CASE Handoff(c)
  BY <1>4 DEF ProtoInv, TypeOK, WorkerGone, Handoff, serverVars, peerVars
<1> QED
  BY <1>1, <1>2, <1>3, <1>4 DEF Reader

\* A worker that is anywhere but "done" has a looper that still waits for it.
LEMMA WorkerKeeps ==
  ASSUME ProtoInv, NEW c \in Conns,
         Worker(c) \/ JobComes(c) \/ WriteSucceeds(c), ~Handoff(c)
  PROVE  ProtoInv'
BY DEF ProtoInv, TypeOK, WorkerGone, Worker, WorkerDone, WorkerHandle, GetJobCancelled,
   WriteFails, WorkerExit, JobComes, WriteSucceeds, serverVars, peerVars

\* The closer, the looper, which waits for all three goroutines, and the peer.
LEMMA EndingKeeps ==
  ASSUME ProtoInv, NEW c \in Conns, Ending(c) \/ Peer(c)
  PROVE  ProtoInv'
<1>1. CASE CloseConn(c)
  BY <1>1 DEF ProtoInv, TypeOK, WorkerGone, CloseConn, Closed, serverVars, peerVars
<1>2. CASE LooperWaited(c)
  <2>1. worker[c] = "done"
    BY <1>2 DEF LooperWaited, Goroutines
  <2> QED
    BY <1>2, <2>1 DEF ProtoInv, TypeOK, WorkerGone, LooperWaited, serverVars, peerVars
<1>3. CASE OnClientDisconnected(c)
  BY <1>3 DEF ProtoInv, TypeOK, WorkerGone, OnClientDisconnected, serverVars, peerVars
<1>4. CASE PeerSends(c)
  <2>1. inbox' \in [Conns -> Nat] /\ sent' \in [Conns -> Nat]
    BY <1>4 DEF ProtoInv, TypeOK, PeerSends
  <2>2. ASSUME NEW x \in Conns PROVE inbox'[x] <= sent'[x] /\ sent'[x] <= MaxRequests[x]
    <3>1. /\ inbox'[x] = IF x = c THEN inbox[x] + 1 ELSE inbox[x]
          /\ sent'[x] = IF x = c THEN sent[x] + 1 ELSE sent[x]
      BY <1>4 DEF ProtoInv, TypeOK, PeerSends
    <3>2. /\ inbox[x] \in Nat /\ sent[x] \in Nat /\ MaxRequests[x] \in Nat
          /\ inbox[x] <= sent[x] /\ sent[x] <= MaxRequests[x]
          /\ x = c => sent[x] < MaxRequests[x]
      BY <1>4, RequestsAssumption DEF ProtoInv, TypeOK, PeerSends
    <3> QED
      BY <3>1, <3>2
  <2> QED
    BY <1>4, <2>1, <2>2 DEF ProtoInv, TypeOK, WorkerGone, PeerSends, serverVars
<1>5. CASE PeerCloses(c)
  BY <1>5 DEF ProtoInv, TypeOK, WorkerGone, PeerCloses, serverVars
<1> QED
  BY <1>1, <1>2, <1>3, <1>4, <1>5 DEF Ending, Peer

\* The types and WorkerGone hold in every state of the proto server.
THEOREM ProtoInvariant == Spec => []ProtoInv
<1>1. ProtoInv /\ [Next]_vars => ProtoInv'
  <2> SUFFICES ASSUME ProtoInv, [Next]_vars PROVE ProtoInv'
    OBVIOUS
  <2>1. CASE UNCHANGED vars
    BY <2>1 DEF ProtoInv, TypeOK, WorkerGone, vars, serverVars, peerVars
  <2>2. CASE Next
    BY <2>2, ServerKeeps, ReaderKeeps, WorkerKeeps, EndingKeeps DEF Next, Worker
  <2> QED
    BY <2>1, <2>2
<1> QED
  BY ProtoInit, <1>1, PTL DEF Spec

\* No handler call of a client runs during or after its OnClientDisconnected:
\* what it gives back of the client's jobs is all the client has.
THEOREM DisconnectIsLast == Spec => []NoCallAfterDisconnect
<1>1. ProtoInv => NoCallAfterDisconnect
  BY DEF ProtoInv, WorkerGone, NoCallAfterDisconnect
<1> QED
  BY ProtoInvariant, <1>1, PTL

----------------------------------------------------------------------------
(* The heartbeats *)

HeartbeatTyped ==
  /\ heartBeatID \in 0..(HeartBeatIDs - 1)
  /\ beat = [w \in Wants |-> beat[w]]
  /\ hbID \in [Wants -> 0..(HeartBeatIDs - 1)]
  /\ taken \subseteq Wants /\ IsFiniteSet(taken)

\* A goroutine takes an ID once.
TakesOnce == \A w \in taken : beat[w] \notin {"none", "started"}

\* Until the IDs have wrapped, heartBeatID counts the goroutines that took one;
\* 0 comes last.
CountsTaken ==
  LET n == Cardinality(taken)
  IN  n <= HeartBeatIDs =>
        /\ heartBeatID = IF n = HeartBeatIDs THEN 0 ELSE n
        /\ \A w \in taken : hbID[w] \in 1..n \/ (hbID[w] = 0 /\ n = HeartBeatIDs)
        /\ \A v, w \in taken : hbID[v] = hbID[w] => v = w

\* The inductive invariant of the heartbeats.
HeartbeatInv == HeartbeatTyped /\ TakesOnce /\ CountsTaken

\* No heartbeat was asked for.
LEMMA HeartbeatInitial == HeartbeatInit => HeartbeatInv
<1> SUFFICES ASSUME HeartbeatInit PROVE HeartbeatInv
  OBVIOUS
<1>1. IsFiniteSet(taken) /\ Cardinality(taken) = 0
  BY FS_EmptySet DEF HeartbeatInit
<1> QED
  BY <1>1, IDsAssumption DEF HeartbeatInit, HeartbeatInv, HeartbeatTyped, TakesOnce,
     CountsTaken

\* The next goroutine takes an ID that no other has, as long as there is one.
LEMMA TakeKeeps ==
  ASSUME HeartbeatInv, NEW w \in Wants, TakeHeartBeatID(w)
  PROVE  HeartbeatInv'
<1> DEFINE n == Cardinality(taken)
<1> USE DEF HeartbeatInv
<1>1. w \notin taken
  BY DEF TakesOnce, TakeHeartBeatID
<1>2. /\ n \in Nat /\ Cardinality(taken') = n + 1
      /\ taken' = taken \cup {w} /\ IsFiniteSet(taken')
  BY <1>1, FS_CardinalityType, FS_AddElement DEF HeartbeatTyped, TakeHeartBeatID
<1> DEFINE m == Cardinality(taken')
<1>3. /\ NextHeartBeatID \in 0..(HeartBeatIDs - 1)
      /\ heartBeatID + 1 < HeartBeatIDs => NextHeartBeatID = heartBeatID + 1
      /\ heartBeatID + 1 = HeartBeatIDs => NextHeartBeatID = 0
  BY IDsAssumption DEF NextHeartBeatID, HeartbeatTyped
<1>4. /\ heartBeatID' = NextHeartBeatID
      /\ hbID' = [hbID EXCEPT ![w] = NextHeartBeatID]
  BY DEF TakeHeartBeatID
<1>5. HeartbeatTyped' /\ TakesOnce'
  BY <1>2, <1>3, <1>4 DEF HeartbeatTyped, TakesOnce, TakeHeartBeatID, BeatGoesTo
<1>6. ASSUME m <= HeartBeatIDs
      PROVE  /\ heartBeatID' = IF m = HeartBeatIDs THEN 0 ELSE m
             /\ \A v \in taken' : hbID'[v] \in 1..m \/ (hbID'[v] = 0 /\ m = HeartBeatIDs)
             /\ \A v, x \in taken' : hbID'[v] = hbID'[x] => v = x
  <2>1. /\ heartBeatID = n
        /\ \A v \in taken : hbID[v] \in 1..n
        /\ \A v, x \in taken : hbID[v] = hbID[x] => v = x
    BY <1>2, <1>6, IDsAssumption DEF CountsTaken
  <2>2. NextHeartBeatID = IF m = HeartBeatIDs THEN 0 ELSE m
    BY <1>2, <1>3, <1>6, <2>1, IDsAssumption
  <2>3. /\ \A v \in taken : hbID'[v] = hbID[v]
        /\ hbID'[w] = NextHeartBeatID
    BY <1>1, <1>4 DEF HeartbeatTyped
  <2>4. \A v \in taken : hbID'[v] \in 1..n /\ hbID'[v] \in 1..m /\ hbID'[v] # hbID'[w]
    BY <1>2, <2>1, <2>2, <2>3
  <2>5. hbID'[w] \in 1..m \/ (hbID'[w] = 0 /\ m = HeartBeatIDs)
    BY <1>2, <2>2, <2>3
  <2>6. \A v, x \in taken' : hbID'[v] = hbID'[x] => v = x
    BY <1>2, <2>1, <2>3, <2>4
  <2> QED
    BY <1>2, <1>4, <2>2, <2>4, <2>5, <2>6
<1>7. CountsTaken'
  BY <1>6 DEF CountsTaken
<1> QED
  BY <1>5, <1>7

\* Every other step of the session leaves the IDs alone.
LEMMA OtherBeatsKeep ==
  ASSUME HeartbeatInv, UNCHANGED <<heartBeatID, hbID, taken>>,
         beat' = [w \in Wants |-> beat'[w]],
         \A w \in taken : beat'[w] \notin {"none", "started"}
  PROVE  HeartbeatInv'
BY DEF HeartbeatInv, HeartbeatTyped, TakesOnce, CountsTaken

\* The IDs and the goroutines that hold them agree in every state.
THEOREM HeartbeatInvariant == HeartbeatSpec => []HeartbeatInv
<1>1. HeartbeatInv /\ [HeartbeatNext]_heartbeatVars => HeartbeatInv'
  <2> SUFFICES ASSUME HeartbeatInv, [HeartbeatNext]_heartbeatVars PROVE HeartbeatInv'
    OBVIOUS
  <2>1. CASE StartEnds \/ CloseSock \/ StartReturns \/ UNCHANGED heartbeatVars
    BY <2>1, OtherBeatsKeep DEF StartEnds, CloseSock, StartReturns, heartbeatVars, beatVars,
       HeartbeatInv, HeartbeatTyped, TakesOnce
  <2>2. ASSUME NEW w \in Wants, NEW i \in {0, 1}, WantHeartbeat(w, i) PROVE HeartbeatInv'
    BY <2>2, OtherBeatsKeep DEF WantHeartbeat, BeatGoesTo, HeartbeatInv, HeartbeatTyped,
       TakesOnce
  <2>3. ASSUME NEW w \in Wants,
               \/ CheckHeartBeatID(w) \/ LockConnWrite(w) \/ WriteHeartbeat(w)
               \/ WriteHeartbeatFails(w) \/ BeatSleeps(w)
        PROVE  HeartbeatInv'
    BY <2>3, OtherBeatsKeep DEF CheckHeartBeatID, LockConnWrite, WriteHeartbeat,
       WriteHeartbeatFails, BeatSleeps, BeatGoesTo, HeartbeatInv, HeartbeatTyped, TakesOnce
  <2> QED
    BY <2>1, <2>2, <2>3, TakeKeeps DEF HeartbeatNext, BeatStep
<1> QED
  BY HeartbeatInitial, <1>1, PTL DEF HeartbeatSpec

\* At most one goroutine keeps a heartbeat going, in whatever order those of
\* several WantHeartbeat messages take their IDs, until the IDs have wrapped.
THEOREM OneBeat == HeartbeatSpec => []OneHeartbeat
<1>1. HeartbeatInv => OneHeartbeat
  <2> SUFFICES ASSUME HeartbeatInv, Cardinality(taken) <= HeartBeatIDs
               PROVE  Cardinality(Beating) <= 1
    BY DEF OneHeartbeat
  <2>1. \A v, w \in Beating : v = w
    BY DEF Beating, IsCurrent, HeartbeatInv, CountsTaken
  <2>2. Beating = {} \/ \E w : Beating = {w}
    BY <2>1
  <2>3. Cardinality(Beating) = 0 \/ Cardinality(Beating) = 1
    BY <2>2, FS_EmptySet, FS_Singleton, Zenon
  <2> QED
    BY <2>3
<1> QED
  BY HeartbeatInvariant, <1>1, PTL
=============================================================================
