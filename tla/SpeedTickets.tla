---------------------------- MODULE SpeedTickets ----------------------------
(***************************************************************************)
(* The speed daemon of 6-speed-daemon: ProcessPlate and SendTicket of the  *)
(* server, and the sessions that call them (cameras) or send the tickets   *)
(* out (dispatchers, with a listener goroutine for each road).             *)
(*                                                                         *)
(* The three locks of the server are in the guards.  DatabaseLogsLock: a   *)
(* session that scans holds the read lock, and an insertion needs that     *)
(* nobody does.  TicketSentLock is sentLock; it is held while a ticket is  *)
(* sent on a channel that may be full.  DispatcherChanLock covers single   *)
(* steps.  Speeds are rational numbers in place of float64.                *)
(***************************************************************************)
EXTENDS Integers, Sequences, FiniteSets, FiniteSetsExt

CONSTANTS
  Sessions,    \* the accepted connections
  Peers,       \* per session, what its peer may register as: cameras, records
               \* [road, mile, limit], and dispatchers, sets of roads; and
               \* the plate messages [plate, timestamp] that it may send
  ChanCap,     \* capacity of a dispatcher channel, 1024 in the code
  InfRounded,  \* uint16 of an infinite float64: 0 on amd64, 65535 on arm64
  MaxReports,  \* bound on the number of plate messages of a session
  None

Cameras == UNION {Peers[s].cameras : s \in Sessions}
RoadLists == UNION {Peers[s].dispatchers : s \in Sessions}
Messages == UNION {Peers[s].messages : s \in Sessions}
Timestamps == {m.timestamp : m \in Messages}
Plates == {m.plate : m \in Messages}
Roads == {c.road : c \in Cameras} \cup UNION RoadLists
Positions == [mile : {c.mile : c \in Cameras}, timestamp : Timestamps]

ASSUME NumbersAssumption ==
  /\ Cameras \subseteq [road : Nat, mile : Nat, limit : Nat]
  /\ Timestamps \subseteq Nat
  /\ ChanCap \in Nat \ {0} /\ MaxReports \in Nat
  /\ InfRounded \in {0, 65535}

VARIABLES
  conn,            \* per session: "open", "ended" (its context is done), "gone"
  role,            \* sessType: "unknown", "camera", "dispatcher"
  camera,          \* what a camera has registered
  pc,              \* "read", "inserted", "scan", "ticket" (at TicketSentLock), "send"
  cur,             \* plate and position of the plate message in work
  at,              \* index of the scan in the log
  DatabaseLogs,    \* plate, road -> positions
  TicketSent,      \* plate -> days
  sentLock,        \* holder of TicketSentLock, a set with at most one member
  DispatcherChan,  \* road -> tickets
  listener,        \* session, road -> "off", "wait", "write", "done"
  held,            \* session, road -> the ticket that the listener writes
  isCancel,        \* dispatchers one of whose listeners has ended
  stopping,        \* the server's context is done
  reports,         \* per session, the number of plate messages so far
  issued,          \* history: the tickets in the order of their issue
  delivered, lost  \* history: the tickets that were written, and that were not

sessVars == <<conn, role, camera>>
scanVars == <<pc, cur, at>>
ticketVars == <<TicketSent, sentLock>>
outVars == <<listener, held, isCancel>>
history == <<delivered, lost>>
vars == <<sessVars, scanVars, DatabaseLogs, ticketVars, DispatcherChan, outVars,
          stopping, reports, issued, history>>

Init ==
  /\ conn = [s \in Sessions |-> "open"]
  /\ role = [s \in Sessions |-> "unknown"]
  /\ camera = [s \in Sessions |-> None]
  /\ pc = [s \in Sessions |-> "read"]
  /\ cur = [s \in Sessions |-> None]
  /\ at = [s \in Sessions |-> 0]
  /\ DatabaseLogs = [p \in Plates |-> [r \in Roads |-> <<>>]]
  /\ TicketSent = [p \in Plates |-> {}]
  /\ sentLock = {}
  /\ DispatcherChan = [r \in Roads |-> <<>>]
  /\ listener = [s \in Sessions |-> [r \in Roads |-> "off"]]
  /\ held = [s \in Sessions |-> [r \in Roads |-> None]]
  /\ isCancel = {}
  /\ stopping = FALSE
  /\ reports = [s \in Sessions |-> 0]
  /\ issued = <<>> /\ delivered = {} /\ lost = {}

----------------------------------------------------------------------------
(* Speeds *)

\* Mutant: the difference is taken in uint16.
AbsWrapped(n) == n % 65536

Abs(n) == IF n < 0 THEN -n ELSE n

\* uint16 of a speed in miles per hour: the whole part, modulo its width.
SpeedRounded(dm, dt) == IF dt = 0 THEN InfRounded ELSE ((dm * 3600) \div dt) % 65536

\* speedPrecision < 0.5
PrecisionBelowHalf(dm, dt) == 2 * dm * 3600 < (2 * SpeedRounded(dm, dt) + 1) * dt

\* The speed between two positions, at the times t1 <= t2, needs a ticket.
OverLimit(pos1, pos2, limit) ==
  LET dm == Abs(pos2.mile - pos1.mile)
      dt == pos2.timestamp - pos1.timestamp
  IN  ~(\/ SpeedRounded(dm, dt) < limit
        \/ SpeedRounded(dm, dt) = limit /\ PrecisionBelowHalf(dm, dt))

\* The ticket for a plate that was seen at two positions.
TicketFor(plate, road, a, b) ==
  IF a.timestamp > b.timestamp
  THEN [plate |-> plate, road |-> road, pos1 |-> b, pos2 |-> a]
  ELSE [plate |-> plate, road |-> road, pos1 |-> a, pos2 |-> b]

Days(t) == (t.pos1.timestamp \div 86400)..(t.pos2.timestamp \div 86400)

----------------------------------------------------------------------------
(* Sessions *)

\* Start has read a message and calls HandleRequest.  A request that cannot be
\* served is answered with an error and changes nothing.
Request(s) == conn[s] = "open" /\ pc[s] = "read"

\* GetCameraInfo finds a camera.
IsCamera(s) == role[s] = "camera"

\* IAmCamera.  A session that has a type is answered with an error.
RegisterCamera(s, c) ==
  /\ Request(s) /\ role[s] = "unknown"
  /\ role' = [role EXCEPT ![s] = "camera"]
  /\ camera' = [camera EXCEPT ![s] = c]
  /\ UNCHANGED <<conn, scanVars, DatabaseLogs, ticketVars, DispatcherChan, outVars,
                 stopping, reports, issued, history>>

\* IAmDispatcher starts a listener for each road.
RegisterDispatcher(s, roads) ==
  /\ Request(s) /\ role[s] = "unknown"
  /\ role' = [role EXCEPT ![s] = "dispatcher"]
  /\ listener' = [listener EXCEPT ![s] = [r \in Roads |-> IF r \in roads THEN "wait" ELSE "off"]]
  /\ UNCHANGED <<conn, camera, scanVars, DatabaseLogs, ticketVars, DispatcherChan,
                 held, isCancel, stopping, reports, issued, history>>

\* The read of the next message fails: Start cancels the session's context.
ReadFails(s) ==
  /\ conn[s] = "open" /\ pc[s] = "read"
  /\ conn' = [conn EXCEPT ![s] = "ended"]
  /\ UNCHANGED <<role, camera, scanVars, DatabaseLogs, ticketVars, DispatcherChan,
                 outVars, stopping, reports, issued, history>>

\* A signal stops the server, whose context is the parent of every session's.
Stop ==
  /\ ~stopping /\ stopping' = TRUE
  /\ conn' = [s \in Sessions |-> IF conn[s] = "open" THEN "ended" ELSE conn[s]]
  /\ UNCHANGED <<role, camera, scanVars, DatabaseLogs, ticketVars, DispatcherChan,
                 outVars, reports, issued, history>>

\* Start returns after its wait group.
SessionGone(s) ==
  /\ conn[s] = "ended" /\ pc[s] = "read"
  /\ \A r \in Roads : listener[s][r] \in {"off", "done"}
  /\ conn' = [conn EXCEPT ![s] = "gone"]
  /\ UNCHANGED <<role, camera, scanVars, DatabaseLogs, ticketVars, DispatcherChan,
                 outVars, stopping, reports, issued, history>>

----------------------------------------------------------------------------
(* ProcessPlate and SendTicket *)

Before(a, b) == a.timestamp < b.timestamp /\ a.mile < b.mile

\* The stable sort of a log that was sorted before its last element came: that
\* element moves towards the front past the elements that it is before.  (The
\* order is partial, so this is not a sort by time.)
Sorted(log, p) ==
  LET k == Max({0} \cup {i \in 1..Len(log) : ~Before(p, log[i])})
  IN  SubSeq(log, 1, k) \o <<p>> \o SubSeq(log, k + 1, Len(log))

\* The sessions that hold the read lock of the logs.
Readers == {s \in Sessions : pc[s] \in {"scan", "ticket", "send"}}

\* A plate message: the position is inserted under the write lock.
Insert(s, p, time) ==
  /\ Request(s) /\ IsCamera(s)
  /\ reports[s] < MaxReports /\ Readers = {}
  /\ LET pos == [mile |-> camera[s].mile, timestamp |-> time]
     IN  /\ DatabaseLogs' = [DatabaseLogs EXCEPT ![p][camera[s].road] = Sorted(@, pos)]
         /\ cur' = [cur EXCEPT ![s] = [plate |-> p, pos |-> pos]]
  /\ at' = [at EXCEPT ![s] = 0]
  /\ pc' = [pc EXCEPT ![s] = "inserted"]
  /\ reports' = [reports EXCEPT ![s] = @ + 1]
  /\ UNCHANGED <<sessVars, ticketVars, DispatcherChan, outVars, stopping, issued, history>>

\* The log that the session scans, and the ticket for its k-th position.
Log(s) == DatabaseLogs[cur[s].plate][camera[s].road]
Candidate(s, k) == TicketFor(cur[s].plate, camera[s].road, cur[s].pos, Log(s)[k])

\* Mutant: the scan looks at the positions before the new one only.
EarlierNeedsTicket(s, k) ==
  /\ Log(s)[k].timestamp < cur[s].pos.timestamp
  /\ OverLimit(Candidate(s, k).pos1, Candidate(s, k).pos2, camera[s].limit)

NeedsTicket(s, k) ==
  /\ Log(s)[k] # cur[s].pos
  /\ OverLimit(Candidate(s, k).pos1, Candidate(s, k).pos2, camera[s].limit)

\* The scan under the read lock goes on to the next position that needs a
\* ticket; at the end of the log the message is done.
Scan(s) ==
  /\ pc[s] \in {"inserted", "scan"}
  /\ LET found == {k \in at[s] + 1..Len(Log(s)) : NeedsTicket(s, k)}
     IN  IF found = {}
         THEN /\ pc' = [pc EXCEPT ![s] = "read"]
              /\ cur' = [cur EXCEPT ![s] = None]
              /\ at' = [at EXCEPT ![s] = 0]
         ELSE /\ pc' = [pc EXCEPT ![s] = "ticket"]
              /\ at' = [at EXCEPT ![s] = Min(found)]
              /\ UNCHANGED cur
  /\ UNCHANGED <<sessVars, DatabaseLogs, ticketVars, DispatcherChan, outVars,
                 stopping, reports, issued, history>>

\* Mutant: the lock is kept when there is nothing to send.
LockKept(s) == {s}

LockDropped(s) == {}

\* Mutant: a day that has a ticket already does not count.
NeverTicketed(t) == FALSE

HasTicketFor(t) == Days(t) \cap TicketSent[t.plate] # {}

\* SendTicket up to the channel: if one of the days has a ticket there is
\* nothing to send, else all of them are marked.
MarkDays(s) ==
  /\ pc[s] = "ticket" /\ sentLock = {}
  /\ LET t == Candidate(s, at[s])
     IN  IF HasTicketFor(t)
         THEN /\ pc' = [pc EXCEPT ![s] = "scan"]
              /\ sentLock' = LockDropped(s)
              /\ UNCHANGED <<TicketSent, issued>>
         ELSE /\ TicketSent' = [TicketSent EXCEPT ![t.plate] = @ \cup Days(t)]
              /\ issued' = Append(issued, t)
              /\ pc' = [pc EXCEPT ![s] = "send"]
              /\ sentLock' = {s}
  /\ UNCHANGED <<sessVars, cur, at, DatabaseLogs, DispatcherChan, outVars,
                 stopping, reports, history>>

HasRoom(c) == Len(c) < ChanCap

\* Mutant: a ticket for a full channel is dropped.
EnqueueOrDrop(r, t) ==
  DispatcherChan' = IF HasRoom(DispatcherChan[r])
                    THEN [DispatcherChan EXCEPT ![r] = Append(@, t)]
                    ELSE DispatcherChan

\* The send on the channel of a road waits for room.
Enqueue(r, t) ==
  /\ HasRoom(DispatcherChan[r])
  /\ DispatcherChan' = [DispatcherChan EXCEPT ![r] = Append(@, t)]

\* The ticket is sent with TicketSentLock and the read lock held; the send
\* watches no context.
Send(s) ==
  /\ pc[s] = "send"
  /\ Enqueue(camera[s].road, Candidate(s, at[s]))
  /\ sentLock' = {}
  /\ pc' = [pc EXCEPT ![s] = "scan"]
  /\ UNCHANGED <<sessVars, cur, at, DatabaseLogs, TicketSent, outVars, stopping,
                 reports, issued, history>>

----------------------------------------------------------------------------
(* Listeners of dispatchers *)

ListenerTake(s, r) ==
  /\ listener[s][r] = "wait" /\ DispatcherChan[r] # <<>>
  /\ held' = [held EXCEPT ![s][r] = Head(DispatcherChan[r])]
  /\ DispatcherChan' = [DispatcherChan EXCEPT ![r] = Tail(@)]
  /\ listener' = [listener EXCEPT ![s][r] = "write"]
  /\ UNCHANGED <<sessVars, scanVars, DatabaseLogs, ticketVars, isCancel, stopping,
                 reports, issued, history>>

\* The ticket is written; a peer that does not read keeps the write waiting.
ListenerWrites(s, r) ==
  /\ listener[s][r] = "write"
  /\ delivered' = delivered \cup {held[s][r]}
  /\ held' = [held EXCEPT ![s][r] = None]
  /\ listener' = [listener EXCEPT ![s][r] = "wait"]
  /\ UNCHANGED <<sessVars, scanVars, DatabaseLogs, ticketVars, DispatcherChan,
                 isCancel, stopping, reports, issued, lost>>

\* The write fails, because the peer has gone or the connection was closed: the
\* ticket is lost, and the other listeners of the session are told to end.
ListenerFails(s, r) ==
  /\ listener[s][r] = "write"
  /\ lost' = lost \cup {held[s][r]}
  /\ held' = [held EXCEPT ![s][r] = None]
  /\ listener' = [listener EXCEPT ![s][r] = "done"]
  /\ isCancel' = isCancel \cup {s}
  /\ UNCHANGED <<sessVars, scanVars, DatabaseLogs, ticketVars, DispatcherChan,
                 stopping, reports, issued, delivered>>

\* isCancel is closed or the context is done.
ListenerEnds(s, r) ==
  /\ listener[s][r] = "wait" /\ (s \in isCancel \/ conn[s] = "ended")
  /\ listener' = [listener EXCEPT ![s][r] = "done"]
  /\ isCancel' = isCancel \cup {s}
  /\ UNCHANGED <<sessVars, scanVars, DatabaseLogs, ticketVars, DispatcherChan, held,
                 stopping, reports, issued, history>>

----------------------------------------------------------------------------
Ticketing(s) == Scan(s) \/ MarkDays(s) \/ Send(s)
Listening(s, r) == ListenerTake(s, r) \/ ListenerEnds(s, r)
                   \/ (conn[s] = "ended" /\ ListenerFails(s, r))

Next ==
  \/ Stop
  \/ \E s \in Sessions :
       \/ ReadFails(s) \/ SessionGone(s) \/ Ticketing(s)
       \/ \E c \in Peers[s].cameras : RegisterCamera(s, c)
       \/ \E roads \in Peers[s].dispatchers : RegisterDispatcher(s, roads)
       \/ \E m \in Peers[s].messages : Insert(s, m.plate, m.timestamp)
       \/ \E r \in Roads : \/ ListenerTake(s, r) \/ ListenerWrites(s, r)
                           \/ ListenerFails(s, r) \/ ListenerEnds(s, r)

Spec == Init /\ [][Next]_vars

\* Go runs every goroutine that is not blocked.  Nothing is assumed of peers,
\* neither that they send messages nor that they read what is written; a closed
\* connection makes a write fail.
Fairness ==
  \A s \in Sessions :
    /\ WF_vars(Ticketing(s)) /\ WF_vars(SessionGone(s))
    /\ \A r \in Roads : WF_vars(Listening(s, r))

FairSpec == Spec /\ Fairness

----------------------------------------------------------------------------
(* Properties *)

Tickets == [plate : Plates, road : Roads, pos1 : Positions, pos2 : Positions]

ASSUME NoneAssumption == None \notin Tickets

\* Logs, marks and channels hold what their Go types say; no channel holds more
\* than its capacity.
TypeOK ==
  /\ conn \in [Sessions -> {"open", "ended", "gone"}]
  /\ role \in [Sessions -> {"unknown", "camera", "dispatcher"}]
  /\ camera \in [Sessions -> Cameras \cup {None}]
  /\ pc \in [Sessions -> {"read", "inserted", "scan", "ticket", "send"}]
  /\ cur \in [Sessions -> [plate : Plates, pos : Positions] \cup {None}]
  /\ at \in [Sessions -> Nat]
  /\ DatabaseLogs \in [Plates -> [Roads -> Seq(Positions)]]
  /\ TicketSent \in [Plates -> SUBSET Nat]
  /\ sentLock \in SUBSET Sessions
  /\ DispatcherChan \in [Roads -> Seq(Tickets)]
  /\ \A r \in Roads : Len(DispatcherChan[r]) <= ChanCap
  /\ listener \in [Sessions -> [Roads -> {"off", "wait", "write", "done"}]]
  /\ held \in [Sessions -> [Roads -> Tickets \cup {None}]]
  /\ isCancel \in SUBSET Sessions
  /\ stopping \in BOOLEAN /\ reports \in [Sessions -> 0..MaxReports]
  /\ issued \in Seq(Tickets) /\ delivered \subseteq Tickets /\ lost \subseteq Tickets

\* No plate gets two tickets that share a day, whichever cameras, on whichever
\* roads, find them at the same time.
OneTicketPerDay ==
  \A i, j \in DOMAIN issued :
    i # j /\ issued[i].plate = issued[j].plate => Days(issued[i]) \cap Days(issued[j]) = {}

Miles(a, b) == IF a.mile > b.mile THEN a.mile - b.mile ELSE b.mile - a.mile

\* A car that was really too fast between two positions, for every camera of
\* the road: half a mile per hour above the limit, at a speed that uint16 holds.
TooFast(road, a, b) ==
  LET dt == b.timestamp - a.timestamp
  IN  /\ dt > 0 /\ Miles(a, b) * 3600 < 65536 * dt
      /\ \A c \in Cameras : c.road = road => 2 * Miles(a, b) * 3600 >= (2 * c.limit + 1) * dt

\* Once the plate messages for a plate are done, each pair of positions that is
\* too fast has a ticket on one of its days: two insertions at the same time do
\* not miss each other.
NoTicketMissed ==
  \A p \in Plates :
    (\A s \in Sessions : pc[s] # "read" => cur[s].plate # p) =>
      \A r \in Roads : \A i, j \in DOMAIN DatabaseLogs[p][r] :
        LET a == DatabaseLogs[p][r][i]
            b == DatabaseLogs[p][r][j]
        IN  TooFast(r, a, b) => Days(TicketFor(p, r, a, b)) \cap TicketSent[p] # {}

\* No driver is fined who was not too fast: an issued ticket names two logged
\* positions and a speed above the limit of some camera of the road.
TicketsAreTrue ==
  \A i \in DOMAIN issued :
    LET t == issued[i]
        log == DatabaseLogs[t.plate][t.road]
        dt == t.pos2.timestamp - t.pos1.timestamp
    IN  /\ {t.pos1, t.pos2} \subseteq {log[k] : k \in DOMAIN log}
        /\ \E c \in Cameras : /\ c.road = t.road
                               /\ 2 * Miles(t.pos1, t.pos2) * 3600 >= (2 * c.limit + 1) * dt

InChan(r) == {DispatcherChan[r][k] : k \in DOMAIN DispatcherChan[r]}
Sending == {Candidate(s, at[s]) : s \in {s \in Sessions : pc[s] = "send"}}
Holding == {held[s][r] : s \in Sessions, r \in Roads} \ {None}

\* A ticket that was issued is about to be sent, in the channel of its road, at
\* a listener, delivered, or lost by a write that failed; in one of them only.
TicketsConserved ==
  LET places == <<Sending, UNION {InChan(r) : r \in Roads}, Holding, delivered, lost>>
  IN  /\ {issued[i] : i \in DOMAIN issued} = UNION {places[k] : k \in 1..5}
      /\ \A j, k \in 1..5 : j # k => places[j] \cap places[k] = {}
      /\ \A r \in Roads : \A t \in InChan(r) : t.road = r

\* A channel is full and a session waits for room in it.
ChannelBlocks ==
  \E s \in Sessions : pc[s] = "send" /\ ~HasRoom(DispatcherChan[camera[s].road])

\* When the server is told to stop, the work on plate messages is finished and
\* all sessions end, unless a full channel keeps a camera, and with it the
\* locks, waiting.
StopsUnlessBlocked ==
  stopping ~> (\A s \in Sessions : conn[s] = "gone") \/ ChannelBlocks
=============================================================================
