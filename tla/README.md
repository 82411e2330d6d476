# A TLA+ verification of protohackers

The repository holds ten small network servers written in Go, one per directory.
They have no documentation besides their comments, tests and error texts, and
share no code; what they do share is their shape: a listener, a few goroutines
per connection, maps behind mutexes, and channels between goroutines.  This
project models the concurrency of nine of them and the codecs and algorithms
beneath, and says for every other part why it is left out.

Contents: [inventory](#inventory), [plan](#plan), [modules](#modules-and-how-they-correspond-to-the-code),
[runs](#runs), [bounds](#bounds), [fairness](#fairness), [proofs](#proofs),
[what the models show of the code](#what-the-models-show-of-the-code),
[what is not modelled](#what-is-not-modelled).

## Inventory

### 9-job-centre

*State.*  `queueHandler` (main.go): a job counter, for each connected client the
set of its jobs (`clientJob`), for each job in progress its client
(`inProgress`), under one mutex.  `JobQueues` (job_queue.go): a heap per queue,
`jobLocators` from job IDs to heap entries, and the notifiers (channels) of
waiting `Pop`s, under a second mutex.  `proto/server.go`: per connection a
reader, a worker and a closer, a request channel without buffer, a context.

*Operations.*  PutJob, GetJob (waiting or not), DeleteJob, AbortJob,
OnClientConnected, OnClientDisconnected; Push, Pop, Remove of the queues; Listen
and Shutdown.

*Interaction.*  The worker of each connection calls the handler, the handler the
queues.  GetJob pops under the queues' lock and registers under the handler's
lock; OnClientDisconnected pushes under both.  OnClientDisconnected is called
when the three goroutines of the connection have ended.

*Hard.*  A job between two critical sections; a wakeup between search and sleep;
a disconnection while a request runs; index fields that every heap swap must
update; goroutines that wait for each other when a connection ends.

*Correct when* no job is lost, doubled or brought back, the maps agree, a waiting
GetJob is woken, a client that is gone holds nothing, and connections end.

### 7-line-reversal (LRCP, a stream protocol over UDP)

*State.*  A session per session number: bytes received, bytes acknowledged by
the peer, the limit of what may be acknowledged, an unfinished line, a channel
of lines in and one of lines out, an unbuffered channel for acks, three mutexes.
The session manager: the map of sessions under a lock.

*Operations.*  connect, data, ack, close messages (`HandleIncoming`); the line
splitter; the sender with its retransmission and session timers; `Remove`,
`Shutdown`; the codec with its escapes.

*Interaction.*  Every datagram runs in a goroutine of its own; the application
and the sender are goroutines of the session.

*Hard.*  Loss, duplication, reordering and overlap of messages; two datagrams of
one session at the same time; timeouts that race with late acks; a sender that
closes its own session.

*Correct when* every byte is delivered once and in order, acks cover accepted
bytes only, a line is sent until it is acknowledged, and a closed session ends.

### 6-speed-daemon

*State.*  Logged positions per plate and road, days with a ticket per plate, a
channel of tickets per road, each under its own lock; per session a type, what
the camera or dispatcher has said of itself, a heartbeat ID.

*Operations.*  plate, IAmCamera, IAmDispatcher, WantHeartbeat messages.

*Interaction.*  Cameras insert and scan logs and send tickets; a listener
goroutine per dispatcher and road takes them.

*Hard.*  Cameras that find tickets at the same time; a full channel under two
locks; a dispatcher that breaks with a ticket in hand; arithmetic at the edge.

*Correct when* a plate gets at most one ticket per day, every speeding pair leads
to one, no innocent driver gets one, and no ticket disappears unnoticed.

### 3-budget-chat

*State.*  The map of users under a lock, one channel of events, a looper.
*Operations.*  register, lines, leave.  *Interaction.*  Sessions send events, the
looper writes them to all users.  *Hard.*  Both locks are held over waits; joins,
lists and leaves overlap; names are reused.  *Correct when* names are unique,
the events of a user are in order, and everybody's picture of the room converges.

### 8-insecure-sockets-layer, 5-mob-in-the-middle, 2-means-to-an-end, 1-prime-time, 0-smoke-test

*State.*  An accept loop, a handler per connection, a context and a wait group;
the echo server and the proxy have two and four copying goroutines per
connection with unbuffered pipes between them; the insecure sockets layer a
cipher and two stream positions per connection.  *Operations.*  accept, copy or
answer an item, stop on a signal.  *Hard.*  Goroutines that wait for each other
on pipes and sockets when one end goes away or stops reading; half-closed
connections; ciphers whose positions go on across reads of any size.  *Correct
when* the stream keeps its order, an echo is complete, a signalled server exits
and no goroutine is left behind.

### The rest

4-unusual-database-program is a map behind one UDP loop; the reversing handler
of 7-line-reversal is a pure function of a line; the buffer pools are `sync.Pool`s
by size.  None of them is modelled.

## Plan

Order of work: the parts with most interaction first.

1. *Done:* JobCentre (with proofs), JobHeap against PriorityQueue, ConnHandler,
   LrcpReceive, LrcpSend, SpeedTickets, BudgetChat.
2. *Done:* LrcpServer (the session map, numbers that are used again, Shutdown
   under `sessionsLock`), Heartbeat, StreamServers; RequestFraming and the
   codecs LrcpMessage, SpeedMessage, IslCipher and BogusCoin against reference
   definitions.
3. *Done, proofs:* every safety invariant that a run checks of JobCentre,
   ConnHandler, Heartbeat, LrcpReceive, LrcpSend, LrcpServer, SpeedTickets,
   BudgetChat and StreamServers is a theorem; see [proofs](#proofs).
4. *Done, proofs:* the loops of the sequential parts are taken one turn at a
   time, so that their properties are invariants of steps and can be proved: the
   refinement of PriorityQueue by JobHeap, `FramesExact` of RequestFraming,
   `CoinsReplaced` of BogusCoin, `LrcpFits` of LrcpBurst; and that the queues of
   JobCentre behave as the PriorityQueue that the heap implements.
5. *Open, composition:* ConnHandler with JobCentre in one state space.  Today
   they meet in an assumption and a guarantee: JobCentre's `AtRest` guard of
   OnClientDisconnected (no request of the client runs) is what
   `NoCallAfterDisconnect` shows of ConnHandler.

## Modules and how they correspond to the code

All modules keep the names of the source.  `PROJECT.json` maps every definition
to its lines.  Mutants (definitions whose comment starts with "Mutant:") are
plausible bugs: each property is violated when the definition after the mutant
is replaced by it.

**JobCentre** (9-job-centre/main.go, job_queue.go).  One action per critical
section: `PutJob`/`PutPush`, `GetJob`/`PopAgain`/`GetRegister`, `DeleteJob`,
`AbortJob`, `OnClientConnected`, `DisconnectLock`/`DisconnectPush`/`DisconnectDone`.
`pc[c]` is the place of the worker of client `c`, `hand[c]` the job that is in no
map between two critical sections.  A heap is the set of its jobs (`queued`);
that the array heap behaves like one is JobHeap's matter.  The lists of queue
names are sets, payloads are left out, the channel of a notifier is membership
in `notifiers` until Push closes it.  `Pop` keeps `validQueues` (`valid`)
over its rounds as the code does.  Where `DeleteJob` takes the two locks nested,
the action is atomic: no other action changes the inner state with only the
other lock in a way that could be told apart.  Of the two locks only the
handler's is a variable (`hlock`), and `RequestsAnswered` is about waiting for
it.  `JobQueues.lock` is a leaf: its methods call nothing that locks, and Pop
unlocks before it waits.  So no order of the two can deadlock; this is an argument
about the code and not something that a run checks.

**JobHeap** and **PriorityQueue** (job_queue.go 150-187).  `jobQueue` with its
Less, Swap, Push and Pop under container/heap (external), index fields
included.  A call is several steps: `Push`, `Pop` or `Remove` starts it (`op`),
each turn of `up` and `down` is a step that swaps or leaves its loop (`loop`, `at`),
`Cut` takes the last item off the array.  JobQueues.lock is held all the while.
`last` is what the last Pop or Remove was asked for and returned.
`IsPriorityQueue` is the refinement: the contents of the array as a set are a
PriorityQueue, to which the loops are stuttering.

**RequestFraming** (proto/server.go).  `nextRequestBuffer` and `requestBuffer`.
The reader fills blocks of `BufSize` bytes by reads that may end anywhere, looks for
a newline, keeps what is behind it (`prevBuf`), and hands the blocks of a request
on.  The worker reads a request in chunks of any of `ReadSizes`, each turn of the
loop of `Read` being a step, rewinds it (`Seek`) and gives it back (`Close`).
`FramesExact` says by positions in the stream that every request is the bytes
between two newlines and that every read returns the bytes at its position.

**ConnHandler** (proto/server.go).  Listen, its listener-closing goroutine,
Shutdown, and per connection looper, reader, worker, closer.  `Listen` may fail
to open its port (`ListenFails`).  A request is one
read; a handler call returns at once or waits (`blocked`) as GetJob does.  The
send on `reqChan` and its receive are one step (`Handoff`).

**LrcpReceive** (lrcp/session.go, connect and data messages).  The client's
stream is the bytes 1..StreamLen, some of which are newlines; a message is a
position and a length.  Steps: the critical section under `session.lock`
(`HandleData`, `HandleConnect`), the lock for the data (`LockData`), the test of
the context (`NextPiece`), the rest of a turn of the loop (`Piece`, or `Abandon`
when the context ends), the unlock, the ack.  `AckStale` reads
`lenTotalIncoming` outside of the lock as the code does; that is a data race in
Go, on a word that only grows, and the model reads the value of the moment.

**LrcpSend** (lrcp/session.go, sender, ack and close messages).  `curPos`,
`initLen`, `shouldBeSent`, `lenTotalOutgoing` as in the code; a negative `curPos`
is the slice bound that panics (`SenderPanic`).  A line is its length, a burst is
the step to "wait".  The two timers may fire at any time.  The session starts
with `Create`.  Remove is two steps, since it unlocks `sessionsLock` before it
cancels: `SenderClose` or `Remove` takes the session out of the map,
`SenderCancels` or `RemoveCancels` ends its context.  `ServerStops` is the context
of the server that ends; the Shutdown of the manager is LrcpServer's.

**LrcpServer** (lrcp/server.go, sessionManager in lrcp/session.go).  `Listen` step
by step, the closer and the reader, Shutdown of server and manager, GetOrCreate,
Get, Remove; per session object its handler goroutine and its sender.  A sender
waits for a line ("run") or for the acks of one ("line"), which ends by an ack, a
timeout or the context.  A datagram is a connect, a close, an ack or data; an ack may
wait for the sender ("signal") and data for the handler ("deliver"), and the
reader waits for both after a failed read.  Which way `HandleIncoming` takes
(`Outcomes`) is chosen when `Get` has found the session: nothing of this module
changes between the two, and the lengths that decide it are LrcpReceive's and
LrcpSend's.  `sessions` holds at most one object per number, while
several may be alive: Remove is by number, so a late close can hit a newer
session.  Only `sessionManager.Shutdown` keeps `sessionsLock` across a wait;
everywhere else the critical section is one action.

**LrcpBurst** (lrcp/session.go, lrcp/message.go, util/number.go).  One burst of
the sender: what is left of the line is put into a message, the message is cut
by tenths until `MarshalSize` says that it fits the MTU, and is packed byte by
byte with its escapes.  `MarshalSize` is the upper bound that the code computes;
`written` counts the bytes that the packing really writes.

**LrcpMessage** (lrcp/message.go).  A message is a sequence of tokens (bytes that
matter: slash, backslash, others).  Packing escapes, and unpacking follows
`nextSlash` and the loop that drops backslashes.  `Survives` describes which data
come back; a decimal number is one token per field.

**SpeedTickets** (6-speed-daemon/main.go, session.go).  `Insert` (write lock),
`Scan` (read lock), `MarkDays` and `Send` (TicketSentLock), the listeners of
dispatchers.  The stable sort is modelled by what it does to a log to which one
position was appended (`Sorted`; up to 20 positions Go's sort is this insertion).
Its order is partial, so logs are not sorted by time; the properties do not
depend on it.  Speeds are rational numbers where the code uses float64 (this can
matter at exactly half a mile per hour only), and `SpeedRounded` keeps the
uint16: whole part modulo 65536, and for two sightings at the same second the
value that the processor gives (`InfRounded`, a constant: 0 on amd64, 65535 on
arm64).

**Heartbeat** (6-speed-daemon/session.go).  A goroutine per WantHeartbeat, the ID
it takes under `heartBeatLock`, the test of the ID, `connWriteLock` and the write,
and the end of the session.  `HeartBeatIDs` is the number of values of the ID:
256 in the code, where it is a uint8.

**SpeedMessage** (6-speed-daemon/message.go).  Every message as a type and typed
fields, written in big-endian bytes and read back; a truncated message is an
error.  A byte has `ByteBase` values.

**BudgetChat** (3-budget-chat/main.go).  `Register`, `SendJoin`, `SendList` in
register, `ReadLine` and `Say` in the reader, `Leave` and `SendLeave`, and the
looper user by user.  `ok` are the connections that work; `view` is a history of
what a peer can conclude from the lines it got.

**IslCipher** (8-insecure-sockets-layer/isl/cipher.go).  The operations and their
chains, ReadCipherSpec with its test for ciphers that change nothing
(`dataValidation`), and readers and writers with a position that wraps.  A byte has
`ByteBits` bits.

**BogusCoin** (5-mob-in-the-middle/main.go).  `replaceBogusCoin`: one pass over
a line, a byte or a turn of the look-ahead loop per step.  The result `res` is a
list of pieces of the line, each copied or replaced.  `CoinsReplaced` says that
the pieces are the line so far, and that the replaced ones are exactly the words
that are addresses.

**StreamServers** (main.go of 0, 1, 2 and 5; isl/server.go and main.go of 8).  The
goroutines that move items are *pumps* with a source and a sink; a table gives
those of each program.  One connection stands for all, since connections share
only the context and the wait group.  `MaxItems` bounds what peers send; `deaf`
peers do not read, so that a write to them waits.

The MC modules of algorithms, connections, lrcp and streams put two or more
independent components into one run: a behaviour drives one component (the
variable `part`) while the others stay in their initial states.  No fair action
of a component is enabled in its initial state, so the sum has exactly the
behaviours of its parts, and a property of a component holds in the sum when it
holds of the component.

## Runs

| run | models | shows |
|---|---|---|
| job_centre | JobCentre | `NoJobTwice`, `JobsConserved`, `NoSleepOnWork`, the inductive invariant `IInv` (with `LocatorsAgree` and `HoldersAgree`: the maps of queues and handler agree), `HolderKeepsJob` (a job leaves its client by a delete or by its queue only); `WaiterServed` and `RequestsAnswered` (liveness) |
| job_centre_blocked_pop | JobCentre | counterexample, see below |
| algorithms | JobHeap, RequestFraming, BogusCoin, LrcpBurst, LrcpMessage, IslCipher, SpeedMessage | `IsPriorityQueue` (the array heap implements PriorityQueue); `FramesExact`, `CoinsReplaced`, `LrcpFits` (at each turn of their loops); `LrcpSurvivors`, `CipherInverts`, `SpeedRoundTrip` (each against its reference on all inputs of a small set) |
| lrcp_escape | LrcpMessage | counterexample |
| connections | ConnHandler, Heartbeat | `NoCallAfterDisconnect`, `OneHeartbeat`; `EndsUnlessReaderStuck`, `LeavingIsNoticed`, `OldBeatsEnd` (liveness) |
| conn_reader_stuck | ConnHandler | counterexample |
| lrcp | LrcpReceive, LrcpServer | `EveryByteOnce` (acks included), `MessagesStayWhole` (the bytes of one message stay together; lines are cut at newlines), `NoOrphanSession`; `AcceptedIsDelivered`, `ServerEnds`, `SessionsEnd` (liveness) |
| lrcp_receive_reorder | LrcpReceive | counterexample |
| streams | LrcpSend, StreamServers | `StreamAligned`, `InOrder`; `LineArrives`, `StopsUnlessPeerStays`, `GoroutinesEnd`, `EchoComplete` (liveness) |
| lrcp_send_stale_ack | LrcpSend | counterexample |
| speed_tickets | SpeedTickets | `OneTicketPerDay`, `NoTicketMissed`, `TicketsAreTrue`, `TicketsConserved`; `StopsUnlessBlocked` (liveness) |
| budget_chat | BudgetChat | `RoomIsMembers`, `JoinMessagesLeave`, `ViewsConverge`; `LeaversLeave` (liveness) |

Deadlock is not checked where a server may come to rest: when its peers are gone
or its bounded inputs are used up.  A module's `TypeOK`, where it has one,
documents its variables; those of JobCentre, ConnHandler, SpeedTickets and
BudgetChat are proved as part of the inductive invariants, and the other proofs
have types of their own (`ReceiveTyped`, `LengthsTyped`, `HeartbeatTyped` and so
on) for what they need.

Liveness properties have explicit exceptions.  Each is a wait that the code
really has, and the property says that there is no other one:

| property | exception |
|---|---|
| `EndsUnlessReaderStuck` | the reader sends on `reqChan` after the worker has left |
| `OldBeatsEnd` | a peer that stops reading; an ID that came round again |
| `ServerEnds` | `LockedOut`: Shutdown holds `sessionsLock` and waits for a sender that needs it; `CalledTooEarly`: Shutdown came between `isRunning` and `s.cancel`; `Unheard`, after a failed read only: an ack waits at `signalAck` while the sender waits for its next line, and Listen waits for the ack (`wgLocal.Wait`) before it cancels the context |
| `SessionsEnd` | `WaitsForItself`: a sender that timed out removes its own session and waits for itself; `LockedOut` |
| `StopsUnlessPeerStays` | the insecure sockets layer, whose handlers do not watch the context |
| `GoroutinesEnd` | the echo server's copier into a pipe that nobody reads any more |
| `EchoComplete` | a stopping server, a peer that does not read or is gone |
| `StopsUnlessBlocked` | a full ticket channel |
| `LeaversLeave` | a full event channel; a peer that does not read, under the lock |

## Bounds

| run | bounds | why they are enough |
|---|---|---|
| job_centre | 2 clients, 2 queues, priorities 0 and 1, 2 jobs | two clients race for a job, delete each other's, wait for one and for two queues; priority 0 is the edge of Pop's search. |
| algorithms | heap: 6 jobs, 3 priorities | three levels: a removal in the middle that must rise, one that must sink, and one of the last slot |
| | framing: all streams of 6 bytes, blocks of 2, reads of 1, 2, 3 and 5 | requests within a block, across two and three, a newline at each border, every chunking, reads that end within a block, at its end and behind the request |
| | bursts: lines up to 6 bytes, MTU 18, positions from 0 and 7 | a message has room for two to four bytes, so that lines need several; a position that gets its second digit within a line |
| | LRCP codec: data up to 6 tokens | all neighbourhoods of slash and backslash |
| | coins: lines up to 5 bytes, addresses of 2 to 3 | addresses at every place, too short, too long, next to each other |
| | cipher: specs up to 4 bytes, bytes of 3 bits | every operation with operands, chains of several, and positions that wrap |
| connections | proto: 2 connections, 2 and 0 requests | one request at the worker and one at the reader is the interesting case; the second connection is one for which Listen has to wait |
| | heartbeat: 3 messages, 2 IDs | replaced and stopped beats in every order, and an ID that wraps |
| lrcp | 2 datagrams at once, a stream of 4 bytes with two neighbouring newlines, channel of 1 | every overlap of two messages, an empty line, an unfinished line, a full channel |
| | server: one number, 2 sessions, 2 datagrams | the close of an old session meets the new one; Shutdown in between; an ack or data that waits for a goroutine of its session while the other datagram removes it |
| streams | session: 2 datagrams at once, 2 lines of 1 or 2 bytes | an ack of part of a line, and one that is left over from the line before; a session that is removed between the two lines |
| | servers: 3 items of a client, in the proxy 2 of the client and one of the upstream; the client may stop reading | an item in each of two pumps while another waits behind them; every pump may be the one that waits; a third item is what a reader that lost its read-ahead would go on with |
| speed_tickets | 2 cameras with 2 messages each, 1 dispatcher, 2 plates, channel of 1 | two tickets, so that the channel is full; a pair above and one below the limit, one that spans midnight, two sightings in the same second |
| budget_chat | 3 peers, 2 names, 1 line, channel of 2 | a name asked for twice and used again, joins and leaves that overlap, a full channel |

What the runs check of safety is proved for all values of the constants as well,
but for the three codecs (see below); the bounds matter for those, for liveness
and for the counterexamples.

Counters that are unbounded in the code (jobs, requests, lines, plate messages,
items, connects) are bounded by guards of the actions that increase them:
`MaxJobs`, `MaxRequests`, `MaxLines`, `MaxReports`, `StreamLen`, `MaxItems`, `Objects`,
`Wants`.  Capacities (1024 tickets, 100 events, 100 lines) and widths (bytes, the
heartbeat ID, the MTU) are constants of the modules and small in the runs.
Symmetry is used in algorithms only: no liveness is checked there.

## Fairness

Go runs a goroutine that is not blocked: weak fairness of the steps of each
goroutine.  `sync.Mutex` does not starve a waiter: strong fairness of `LockData`
in LrcpReceive and `LockConnWrite` in Heartbeat, where the others may come back
without end.  `select` chooses at random among the cases that are ready: strong
fairness of `SenderAcked`.  In LrcpSend one of infinitely many copies of a message
arrives: strong fairness of the delivery of a complete line and of its ack;
without it no retransmission protocol delivers.  Timers of heartbeats and of
retransmission fire.  In LrcpServer a line under way ends, by its ack or by the
timer of the session (weak fairness of `SenderStep`), and the data of a message
are taken while the sender waits for its next line, since `outgoingChan` then has
room for the goroutine that would take them to go on.  LrcpSend assumes nothing
of that timer.  Nothing is assumed anywhere of peers, new jobs and signals: a peer
may be silent, stop reading, or go away.

## Proofs

Eight modules prove safety for all values of the constants.  Nothing is assumed
except what the modules state of their constants: numbers are numbers,
capacities are at least 1 (1024, 100 and 100 in the code), a line that is sent
is not empty (it ends in a newline), model values such as `None` are none of the
things they stand beside, a space is no letter or digit (`AlnumAssumption`),
positions of LRCP have at most `MaxDigits` digits (`DigitsAssumption`,
`StartsAssumption`: 10 for an int32), and a datagram has room for one escaped
byte (`MTUAssumption`: 34 bytes of the 1000 of the code).  Sets of goroutines,
clients, plates and so on may be of any size; `FiniteAssumption` of LrcpServer
is the only one that asks for a finite set, since a program has created finitely
many goroutines.

| module | theorems | of the run's property |
|---|---|---|
| JobCentre_proofs | `InvariantHolds`, `TypeCorrect`, `NeverTwice`, `Conserved`, `NoLostWakeup`, `HolderKeeps`, `HeapsArePriorityQueues` | `IInv`, `NoJobTwice`, `JobsConserved`, `NoSleepOnWork`, `HolderKeepsJob` (an action property) |
| HeapFraming_proofs | `HeapInvariant`, `HeapImplements`; `FramingIsExact`, `ReadAdvances` | `IsPriorityQueue` (a refinement); `FramesExact` |
| Connections_proofs | `ProtoInvariant`, `DisconnectIsLast`; `HeartbeatInvariant`, `OneBeat` | `NoCallAfterDisconnect`; `OneHeartbeat` |
| LrcpReceive_proofs | `InvariantHolds`, `BytesOnce`; `WholeInvariant`, `WholeMessages` | `EveryByteOnce`; `MessagesStayWhole` |
| LrcpServer_proofs | `InvariantHolds`, `NoOrphans` | `NoOrphanSession` |
| Streams_proofs | `InvariantHolds`, `Aligned`; `StreamInvariant`, `ItemsInOrder`; `CoinsExact`; `BurstFitsMTU` | `StreamAligned`; `InOrder`; `CoinsReplaced`; `LrcpFits` |
| SpeedTickets_proofs | `WorkInvariant`; `TicketInvariant`, `OneADay`, `TicketsTrue`; `CoveredInvariant`, `NoneMissed`; `TransitInvariant`, `Conservation` | `OneTicketPerDay`, `TicketsAreTrue`; `NoTicketMissed`; `TicketsConserved` |
| BudgetChat_proofs | `RoomInvariant`, `RoomHolds`; `ChannelInvariant`, `EventsInTurn`; `ViewInvariant`, `ViewsAgree` | `RoomIsMembers`; `JoinMessagesLeave`; `ViewsConverge` |

All proofs have one shape.  None of the invariants above is inductive as it
stands; a conjunction of named parts is, and it implies the invariant.  A lemma
says that the initial states satisfy the conjunction, one lemma per action (or
per group of actions that touch the same state) that a step keeps it, and the
theorem puts them together.  Where a module has several theorems, the later
layers use the earlier ones as facts about reachable states.

### Job centre

The invariants are not inductive one by one.  `IInv` is their conjunction with
`StepsAgree`, which ties the places of the goroutines to the data: a hand is full
exactly between two critical sections; the owner of the handler's lock is in the
loop of OnClientDisconnected; a client has a set of jobs exactly while it is
connected; and an ID in use was handed out.  Each is needed:
that PutPush does not queue a job twice needs that what is in a hand is in no map
(`NoJobTwice`), that a new ID is fresh needs that IDs in use are at most `jobID`,
that DisconnectPush gives back the client's own jobs needs `HoldersAgree` with
its exception for the holder of the lock, and that Remove takes the job it means
needs `LocatorsAgree`.  `NextCases` splits a step into the actions, there is one
lemma per action (`PutJobStep` ... `DisconnectPushStep`), lemmas on what Push
and a removal do to heap, locators and notifiers (`PushQueues`, `TakeQueues`),
and `TypeStep` for the types.

`HeapsArePriorityQueues` is the other side of JobHeap: JobCentre keeps a heap as
a set, and each of its steps does to the set of a queue what PriorityQueue allows
(a job is pushed only while it is in no heap, a Pop takes one of the highest
priority of its queue, everything else that leaves was deleted).  Together with
`HeapImplements` this says that the set may be replaced by the array.

### Heap

`HeapInv` holds at every turn of the loops.  `LoopAgrees` ties the loop to the
call: where it may be, and that a call that takes a job has it behind the
others. `IndexAgrees` and `LocatorsAgree` say that index fields and locators are
those of the array, which every `Swap` has to keep.  `HeapOrder` is the heap
order with one exception: in `up` the item of the loop may be less than its
parent, in `down` its children may be less than it, and in both its parent and
its children are in order without it (`Bridged`), so that a swap mends the place
it leaves.  At the place that `Remove` fills, either may be out of order, and
`down` before `up` mends both: an item that did not sink has no child less than
it, and an item that sank need not rise. `RightTaken` says that the job behind
the others is the one to take.  That the first item of a heap has the highest
priority (`FirstIsHighest`) is an induction over positions; it is done as a
minimal counterexample, over the well-founded order of the natural numbers.

### Framing

`FramingInv` speaks of positions in the stream and not of splitting it.
`LinesFramed`: every request holds the bytes of its line, in blocks of which all
but the last are full (`IsLine`).  `RestFollows`: the blocks under way hold the
bytes behind the last line, without a newline, and what is carried over and what
is unread follow them.  `ReadsLine`: what the worker got is the beginning of its
line. The lemmas are about `Store` (bytes that go to the last block and to a new
one keep their places) and about `pos \div BufSize` and `pos % BufSize` (the
byte of a block that a turn of `Read` copies).  `ReadAdvances` says that each
turn of that loop copies something, also at the end of a block, so that it does
not spin.

### Connections

ConnHandler needs one fact besides types, `WorkerGone`: a looper reports a
disconnection only when its worker has returned, and a worker that has returned
is not started again.

Heartbeat counts.  `CountsTaken` says that as long as the IDs have not wrapped,
`heartBeatID` is the number of goroutines that took one (and 0 when the last one
was taken), so that a new ID differs from all before it; `TakesOnce` says that
none of them took two.  The proof is about cardinalities; it shows why the
property stops at `HeartBeatIDs` goroutines.

### LRCP, receiving

For `EveryByteOnce` a byte is delivered, or at exactly one handler
(`NoneTwice`), or, once the session is cancelled, dropped (`NoneLost`);
`WithinAccepted` and `AcksAccepted` bound positions by `lenTotalIncoming`, on
which the handlers agree because they advance it under `session.lock`.

`MessagesStayWhole` rests on `lockIncomingData`.  `OneDelivers` says that one
handler holds it; `CutsAccepted` that messages are accepted one behind the
other, so that every message begins where another ended; `Adjoining` that the log
of delivered bytes moves from one message to another only at such ends, and that
the handler with the lock goes on where it stopped; `LinesCut` that the newlines in
the log cut it into the lines handed to the application and the unfinished
`incomingBuf`.  The last one is an existence statement (there is a sequence of
the places of the newlines), and a step that cuts a line appends to the witness.
The same invariant shows what the code does *not* promise: the order of whole
messages, which lrcp_receive_reorder refutes.

### LRCP, session manager

`NoOrphanSession` needs that a session in the map is there under its own number
(`MapAgrees`), that a session that was not created has no goroutine
(`FreshAreIdle`), and that there is an object for each connect under way
(`ConnectsHaveObjects`, a matter of the bound on objects and not of the code).
That a datagram which waits for a sender has found a session is part of the types
(`ServerTyped`).

### Streams

`StreamAligned` of the LRCP sender holds because between two lines all that was
sent is acknowledged (`IdleIsAcked`), because a line starts where the one before
it ended and the sender's position is covered by acks (`LineIsAligned`), and
because an ack beyond what was sent is refused under the lock (`AcksWithinSent`).
The first two hold only of a session in the map whose context is alive: a sender
that finds its context done, or itself no longer in the map, gives its line up
with bytes unacknowledged.  With a context that is done the next line is given up
before a burst of it is sent; out of the map it may be sent (see below), which is
why `StreamAligned` speaks of sessions in the map.
The position may be negative (`curPos` is an integer): the panic of
lrcp_send_stale_ack is within the invariant.

`InOrder` of the five stream servers follows from `ItemsInTurn`: in an echo or a
proxy, what has arrived and what the two pumps hold are together what was read,
in order (`RelayInTurn`); a request server has one request in hand, the last it
read (`AnswersInTurn`), and the prime server answers each (`AnswersAll`).
`NotStarted` carries this over the start of the connection.

`CoinsReplaced` of the proxy: `PiecesMeet` (the pieces are the line up to the
scan), `SeenAhead` (what the look-ahead saw is an address so far, from the start
of a word on), `CoinsAreAddresses`, and `AddressesAreCoins`: the scan never
stands within an address that it has not replaced.  The last one is what can go
wrong: a look-ahead that ends in the middle of a word is copied as a whole, and
the proof shows that no address begins or ends within it.

`LrcpFits` of a burst: a message under way has a byte and ends within the line
(`CutIsWithin`), was found to fit, and what is written of it is its header, the
bytes so far and their escapes (`PackIsWithin`); datagrams meet (`DatagramsFit`,
`NextIsBehind`).  Cutting never leaves an empty message, on which the sender
would loop without end: nine tenths of two bytes or more are a byte at least,
and one byte always fits (`OneByteFits`), for which the number of digits has to be
bounded (`DigitsBounded`).  The property needs the escapes to be counted
(`EscapesGrow`, `EscapesMonotone`).

### Speed daemon

Four layers.  `WorkInv` says that a session at work has logged its position,
asks for a ticket at a position that needs one, and sends under `TicketSentLock`.
`TicketInv` is the triple that makes tickets right: what was issued is marked
(`IssuedIsMarked`), so one day has one ticket, and each ticket stands for two
logged positions.  `TransitInv` splits `TicketsConserved` into its five places
(the sender, the channels, the listeners, the dispatchers, the lost) and adds
that no ticket is twice in one of them (`NoneDoubled`).

`Covered` is the interesting one: for each logged pair that is too fast there is
a ticketed day, or a session that has inserted one of the two positions and has
still to come to the other (`Awaits`).  It needs that an insertion and the sort
after it move positions but lose none and do not change the past of a running
scan: a scan holds the read lock, so logs do not change under it, and a scan
that has not begun will see the whole log.  Lemmas on `Sorted` give what remains
in the log, and lemmas on numbers that the ticket has the speed of the pair,
order of positions and width of the uint16 included.  `NoTicketMissed` is
`Covered` at rest.

### Budget chat

Three layers.  The room: the phases of a session, who holds the lock, and that
the map of users is the set of members (`RoomInv`).  The channel: the last event
about a name tells whether it is present (`LastTold`), and of those still in the
channel and at the looper likewise (`LastMoveTold`, `CurrentTold`), from which
join, messages and leave come in turn.  The views: a peer knows of a name what is
true of it, unless an event that tells it is still under way (`ViewsFollow`).  Thus
`ViewsConverge`: when nothing is under way, everybody's picture is the map.

### Model-checked only

Out of the prover's reach: the liveness properties, which need fairness and
ENABLED.  Checked by TLC on all small inputs, since they are about what
recursive definitions and folds compute for every input, and about bitwise
operations: `LrcpSurvivors`, `CipherInverts` and `SpeedRoundTrip`.  And the
counterexample runs, which show one behaviour each.

## What the models show of the code

Five runs are expected to find a violation; each states what a comment or an
error text of the code says:

* A waiting `Pop` looks only at the queues that existed when it was called: a job
  put into a new queue wakes it, and it goes back to sleep
  (job_centre_blocked_pop).  `Pop` also looks for a priority strictly above 0, so
  a job of priority 0 is never handed out: the property fails the same way when
  0 is among the priorities.
* Data that begin with a slash or a backslash, have one behind a backslash, or
  end in a backslash do not come back from packing and unpacking (lrcp_escape);
  `LrcpSurvivors` shows that all others do.
* The reader's send on `reqChan` watches no context; if the worker has left, the
  connection never ends, its jobs are never given back ("abort job") and Shutdown
  hangs (conn_reader_stuck).
* Bytes that are accepted in order may be delivered out of order, since
  `lockIncomingData` ("serialize incoming data") is taken after `session.lock` is
  released (lrcp_receive_reorder).
* Of two acks the older may reach the sender last, although known acks should do
  nothing ("already acked, do nothing"); if the next line has begun, the sender
  slices with a negative bound and the program panics (lrcp_send_stale_ack).

The exceptions in the liveness properties, in the table above, tell of more.
After a failed read Listen may wait for ever for an ack that no sender takes.
Remove deletes a session from the map and cancels its context after the unlock
(session.go:174-177); a sender that times out in between finds nothing to close,
goes back to its select with a live context, and may send the next line from a
position within the line that it gave up.
`RoomIsMembers` shows that a user whose first message fails stays in the room, and
`TicketsConserved` that a ticket whose write fails is lost; `OneHeartbeat` holds
until the uint8 ID has wrapped.  It and `OldBeatsEnd` speak of the goroutine that
took its ID last: goroutines take IDs in any order, so a client that asks for
beats and then for none may find the second request served first and the beats
going on.  Between `Pop` and the registration of its job in
GetJob, DeleteJob answers no-job for that job.

## What is not modelled

* 4-unusual-database-program: one loop that reads a datagram and writes or answers
  from a map; nothing interleaves.
* The reversing handler, the prime test, the means of prices and the choice among
  toys: pure functions of one request, which unit tests reach.
* JSON requests and responses, and the texts of lines and errors.
* Buffer pools: a buffer that is used after it was put back would be a bug that
  these models do not see.
* `MaxLineLength`: a line beyond the capacity of `incomingBuf` panics; the models
  have lines of a few bytes and no such capacity.
* Wrap-around of the uint32 job ID and of int32 stream positions: it needs 2^32
  steps; the bounds of the models lie below.
* TCP and UDP themselves: a connection works or not, a datagram arrives in any
  order and number.
