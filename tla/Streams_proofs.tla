--------------------------- MODULE Streams_proofs ---------------------------
(***************************************************************************)
(* Proofs about the models of streams that go out.  LrcpSend:              *)
(* StreamAligned holds for any number of handlers, any lines and any       *)
(* number of them.  StreamServers: InOrder holds for any number of items   *)
(* in each direction.  BogusCoin: what the proxy does to a message is      *)
(* CoinsReplaced, for messages of any length.  LrcpBurst: LrcpFits, for    *)
(* lines of any length.                                                    *)
(***************************************************************************)
EXTENDS LrcpSend, StreamServers, BogusCoin, LrcpBurst, SequenceTheorems, FiniteSetTheorems,
        WellFoundedInduction, NaturalsInduction, TLAPS

----------------------------------------------------------------------------
(* The sending half of an LRCP session *)

\* Lengths are natural numbers; curPos is negative after a late ack.
LengthsTyped ==
  /\ lenTotalOutgoing \in Nat /\ shouldBeSent \in Nat
  /\ initLen \in Nat /\ bufLen \in Nat /\ before \in Nat /\ curPos \in Int
  /\ hpc \in [Handlers ->
                {"idle", "found", "signal", "close", "cancel", "closing", "dead"}]
  /\ ackLen \in [Handlers -> Nat]

\* No ack beyond what was sent gets past the lock, and no handler signals more
\* than the session has recorded.
AcksWithinSent ==
  /\ lenTotalOutgoing <= shouldBeSent
  /\ \A h \in Handlers : hpc[h] = "signal" => ackLen[h] <= lenTotalOutgoing

\* Between two lines all that was sent is acknowledged, unless the line before
\* was given up: then the context is done or the session has left the map.
IdleIsAcked ==
  sender = "off" \/ (inMap /\ ~ctxDone /\ sender = "idle") =>
    lenTotalOutgoing = before + bufLen /\ shouldBeSent = lenTotalOutgoing

\* Within a line, it starts behind the lines before it, and the sender's
\* position is covered by acks.  A line that is taken when the context is done
\* is given up before a burst of it is sent.
LineIsAligned ==
  inMap /\ (sender = "wait" \/ (sender = "loop" /\ ~ctxDone)) =>
    /\ initLen = before /\ shouldBeSent = initLen + bufLen
    /\ curPos <= lenTotalOutgoing - initLen

\* The inductive invariant.
IInv == LengthsTyped /\ AcksWithinSent /\ IdleIsAcked /\ LineIsAligned

\* No line is under way.
LEMMA InitIInv == Init => IInv
BY DEF Init, IInv, LengthsTyped, AcksWithinSent, IdleIsAcked,
   LineIsAligned

\* A step of the sender goroutine, the end of its session included.
LEMMA SenderKeeps ==
  ASSUME IInv,
         \/ Create \/ SenderExit \/ SenderLoop \/ SenderPanic \/ SenderCancelled
         \/ Retransmit \/ SessionTimeout \/ SenderClose \/ SenderCancels \/ ServerStops
  PROVE  IInv'
<1> USE DEF IInv, LengthsTyped, AcksWithinSent, IdleIsAcked,
            LineIsAligned, sessVars, sendVars, endVars
<1>1. CASE Create
  BY <1>1 DEF Create
<1>2. CASE SenderExit
  BY <1>2 DEF SenderExit
<1>3. CASE SenderLoop
  BY <1>3 DEF SenderLoop, AllAcked
<1>4. CASE SenderPanic
  BY <1>4 DEF SenderPanic
<1>5. CASE SenderCancelled \/ Retransmit \/ SessionTimeout
  BY <1>5 DEF SenderCancelled, Retransmit, SessionTimeout
<1>6. CASE SenderClose \/ SenderCancels \/ ServerStops
  BY <1>6 DEF SenderClose, SenderCancels, ServerStops
<1> QED
  BY <1>1, <1>2, <1>3, <1>4, <1>5, <1>6

\* A line is taken where the one before it ended.
LEMMA TakeStep ==
  ASSUME IInv, NEW len \in LineLens, SenderTake(len)
  PROVE  IInv'
<1>1. len \in Nat
  BY LinesAssumption
<1> QED
  BY <1>1 DEF SenderTake, IInv, LengthsTyped, AcksWithinSent,
     IdleIsAcked, LineIsAligned, sessVars, sendVars, endVars

\* The sender takes an ack from a handler.
LEMMA AckedStep ==
  ASSUME IInv, NEW h \in Handlers, SenderAcked(h)
  PROVE  IInv'
BY DEF SenderAcked, AckedPos, IInv, LengthsTyped, AcksWithinSent,
   IdleIsAcked, LineIsAligned, sessVars, sendVars, endVars

\* The critical section of an ack.
LEMMA AckStep ==
  ASSUME IInv, NEW h \in Handlers, NEW n \in Nat, HandleAck(h, n)
  PROVE  IInv'
<1> USE DEF IInv, LengthsTyped, AcksWithinSent, IdleIsAcked,
            LineIsAligned, sessVars, sendVars, endVars
<1>1. CASE Known(n) \/ TooMuch(n)
  BY <1>1 DEF HandleAck
<1>2. CASE ~Known(n) /\ ~TooMuch(n)
  <2>1. lenTotalOutgoing < n /\ n <= shouldBeSent
    BY <1>2 DEF Known, TooMuch
  <2> QED
    BY <1>2, <2>1 DEF HandleAck
<1> QED
  BY <1>1, <1>2

\* The other steps of a handler.
LEMMA HandlerKeeps ==
  ASSUME IInv, NEW h \in Handlers,
         \/ DropSignal(h) \/ Remove(h) \/ RemoveCancels(h) \/ Removed(h)
         \/ Get(h) \/ HandleClose(h)
  PROVE  IInv'
BY DEF DropSignal, Remove, RemoveCancels, Removed, Get, HandleClose, IInv, LengthsTyped,
   AcksWithinSent, IdleIsAcked, LineIsAligned, sessVars, sendVars,
   endVars

\* The inductive invariant of the sending half holds in every state.
THEOREM InvariantHolds == Spec => []IInv
<1>1. IInv /\ [Next]_vars => IInv'
  <2> SUFFICES ASSUME IInv, [Next]_vars PROVE IInv'
    OBVIOUS
  <2>1. ASSUME NEW n, PeerReceives(n) PROVE IInv'
    BY <2>1 DEF PeerReceives, IInv, LengthsTyped, AcksWithinSent,
       IdleIsAcked, LineIsAligned, sessVars, sendVars, endVars
  <2>2. ASSUME NEW h \in Handlers, NEW n \in 0..peerGot \cup {shouldBeSent + 1},
               HandleAck(h, n)
        PROVE  IInv'
    <3>1. n \in Nat
      BY DEF IInv, LengthsTyped
    <3> QED
      BY <2>2, <3>1, AckStep
  <2>3. CASE UNCHANGED vars
    BY <2>3 DEF vars, IInv, LengthsTyped, AcksWithinSent,
       IdleIsAcked, LineIsAligned, sessVars, sendVars, endVars
  <2> QED
    BY <2>1, <2>2, <2>3, SenderKeeps, TakeStep, AckedStep, HandlerKeeps
       DEF Next, Sender, Handler
<1> QED
  BY InitIInv, <1>1, PTL DEF Spec

\* A session that is in the map sends every line at the position where the one
\* before it ended, which the peer has acknowledged to its last byte, whatever
\* acks, timeouts, closes and the end of the server meet.
THEOREM Aligned == Spec => []StreamAligned
<1>1. IInv => StreamAligned
  BY DEF IInv, LineIsAligned, StreamAligned
<1> QED
  BY InvariantHolds, <1>1, PTL

----------------------------------------------------------------------------
(* The servers that copy or answer a TCP stream *)

\* Counters of items, and the goroutines of the running program.
StreamTyped ==
  /\ program \in Programs \cup {"none"}
  /\ sentBy \in [Ends -> Nat] /\ readFrom \in [Ends -> Nat]
  /\ pump \in [Pumps -> {"none", "read", "write", "writeLast", "done"}]
  /\ item \in [Pumps -> Nat]
  /\ got \in [Ends -> Seq(Nat)]
  /\ \A p \in Pumps : pump[p] = "writeLast" => p = "serve"

\* Before the goroutines of the connection start nothing was read or written.
NotStarted ==
  /\ program = "none" => acceptor = "off" /\ handler = "none"
  /\ handler = "dialing" => program = "mob"
  /\ handler \in {"none", "dialing"} =>
       \A e \in Ends : readFrom[e] = 0 /\ got[e] = <<>>
  /\ handler \in {"none", "dialing"} => \A p \in Pumps : pump[p] = "none"
  /\ \A p \in Pumps : pump[p] # "none" => p \in PumpsOf(program)

\* No more is read than was sent.
ReadWasSent == \A e \in Ends : readFrom[e] <= sentBy[e]

Counting(e) == \A k \in 1..Len(got[e]) : got[e][k] = k

InHand(p) == IF pump[p] = "write" THEN 1 ELSE 0

\* Between a source and a sink there is at most one item at each pump, and none
\* is left out as long as both pumps run.
RelayInTurn(p, q) ==
  LET e == Source[p]
      d == Sink[q]
      passed == Len(got[d]) + InHand(q)
  IN  /\ Counting(d) /\ passed <= readFrom[e]
      /\ pump[p] = "write" => item[p] = readFrom[e]
      /\ pump[q] = "write" => item[q] = Len(got[d]) + 1
      /\ pump[p] # "done" /\ pump[q] # "done" => passed + InHand(p) = readFrom[e]

\* The request server has at most one request in hand, the last that it read.
AnswersInTurn ==
  /\ \A j, k \in 1..Len(got["client"]) : j < k => got["client"][j] < got["client"][k]
  /\ \A k \in 1..Len(got["client"]) : got["client"][k] <= readFrom["client"]
  /\ pump["serve"] \in {"write", "writeLast"} =>
       /\ item["serve"] = readFrom["client"]
       /\ \A k \in 1..Len(got["client"]) : got["client"][k] < readFrom["client"]

\* The prime server answers each request.
AnswersAll ==
  /\ Counting("client") /\ Len(got["client"]) <= readFrom["client"]
  /\ pump["serve"] \in {"write", "writeLast"} => readFrom["client"] = Len(got["client"]) + 1
  /\ pump["serve"] = "read" => readFrom["client"] = Len(got["client"])

ItemsInTurn ==
  /\ program = "smoke" => RelayInTurn("in", "out")
  /\ program = "mob" => RelayInTurn("cr", "sw") /\ RelayInTurn("sr", "cw")
  /\ program \in {"prime", "means", "isl"} => AnswersInTurn
  /\ program = "prime" => AnswersAll
  /\ program # "mob" => got["upstream"] = <<>>

\* The inductive invariant.
StreamInv == StreamTyped /\ NotStarted /\ ReadWasSent /\ ItemsInTurn

\* The pumps and where they read and write.
LEMMA Wiring ==
  /\ Pumps = {"in", "out", "serve", "cr", "sw", "sr", "cw"}
  /\ Source["in"] = "client" /\ Source["out"] = "pipe" /\ Source["serve"] = "client"
  /\ Source["cr"] = "client" /\ Source["sw"] = "cts"
  /\ Source["sr"] = "upstream" /\ Source["cw"] = "stc"
  /\ Sink["in"] = "pipe" /\ Sink["out"] = "client" /\ Sink["serve"] = "client"
  /\ Sink["cr"] = "cts" /\ Sink["sw"] = "upstream"
  /\ Sink["sr"] = "stc" /\ Sink["cw"] = "client"
  /\ PumpsOf("smoke") = {"in", "out"} /\ PumpsOf("mob") = {"cr", "sw", "sr", "cw"}
  /\ \A g \in {"prime", "means", "isl", "none"} : PumpsOf(g) = {"serve"}
BY DEF Pumps, Source, Sink, PumpsOf

\* What one step may do to the pumps of a relay: nothing, read, pass an item on
\* through the pipe, write, or end one of them.
RelayMoves(p, q) ==
  LET e == Source[p]
      d == Sink[q]
  IN  \/ /\ pump'[p] = pump[p] /\ pump'[q] = pump[q] /\ item'[p] = item[p] /\ item'[q] = item[q]
         /\ readFrom'[e] = readFrom[e] /\ got'[d] = got[d]
      \/ /\ pump[p] = "read" /\ pump'[p] = "write"
         /\ readFrom'[e] = readFrom[e] + 1 /\ item'[p] = readFrom[e] + 1
         /\ pump'[q] = pump[q] /\ item'[q] = item[q] /\ got'[d] = got[d]
      \/ /\ pump[p] = "write" /\ pump[q] = "read" /\ pump'[p] = "read" /\ pump'[q] = "write"
         /\ item'[q] = item[p] /\ readFrom'[e] = readFrom[e] /\ got'[d] = got[d]
      \/ /\ pump[q] = "write" /\ pump'[q] = "read" /\ got'[d] = Append(got[d], item[q])
         /\ pump'[p] = pump[p] /\ item'[p] = item[p] /\ readFrom'[e] = readFrom[e]
      \/ /\ \/ pump'[p] = "done" /\ pump'[q] = pump[q] /\ item'[q] = item[q]
            \/ pump'[q] = "done" /\ pump'[p] = pump[p] /\ item'[p] = item[p]
         /\ readFrom'[e] = readFrom[e] /\ got'[d] = got[d]

\* Each of them keeps the items in turn.
LEMMA RelayKeeps ==
  ASSUME StreamTyped, NEW p \in Pumps, NEW q \in Pumps, NEW e \in Ends, NEW d \in Ends,
         p # q, e = Source[p], d = Sink[q], RelayInTurn(p, q), RelayMoves(p, q)
  PROVE  RelayInTurn(p, q)'
<1>1. /\ got[d] \in Seq(Nat) /\ Len(got[d]) \in Nat /\ readFrom[e] \in Nat
      /\ item[p] \in Nat /\ item[q] \in Nat
  BY DEF StreamTyped
<1> DEFINE n == Len(got[d])
<1>2. /\ \A k \in 1..n : got[d][k] = k
      /\ n + InHand(q) <= readFrom[e]
      /\ pump[p] = "write" => item[p] = readFrom[e]
      /\ pump[q] = "write" => item[q] = n + 1
      /\ pump[p] # "done" /\ pump[q] # "done" => n + InHand(q) + InHand(p) = readFrom[e]
  BY DEF RelayInTurn, Counting
<1>3. CASE pump[q] = "write" /\ pump'[q] = "read" /\ got'[d] = Append(got[d], item[q])
           /\ pump'[p] = pump[p] /\ item'[p] = item[p] /\ readFrom'[e] = readFrom[e]
  <2>1. /\ Len(got'[d]) = n + 1 /\ got'[d][n + 1] = item[q]
        /\ \A k \in 1..n : got'[d][k] = got[d][k]
    BY <1>1, <1>3
  <2>2. \A k \in 1..(n + 1) : k \in 1..n \/ k = n + 1
    BY <1>1
  <2>3. \A k \in 1..Len(got'[d]) : got'[d][k] = k
    BY <1>2, <1>3, <2>1, <2>2
  <2> HIDE DEF n
  <2>4. n + 1 <= readFrom[e]
    BY <1>2, <1>3 DEF InHand
  <2>5. pump[p] # "done" => n + 1 + InHand(p) = readFrom[e]
    BY <1>2, <1>3 DEF InHand
  <2>6. InHand(q)' = 0 /\ InHand(p)' = InHand(p)
    BY <1>3 DEF InHand
  <2>7. n \in Nat /\ Len(got'[d]) + InHand(q)' = n + 1
    BY <1>1, <2>1, <2>6 DEF n
  <2> QED
    BY <1>2, <1>3, <2>3, <2>4, <2>5, <2>6, <2>7 DEF RelayInTurn, Counting
<1>4. CASE got'[d] = got[d]
  <2>1. Counting(d)'
    BY <1>2, <1>4 DEF Counting
  <2>2. Len(got'[d]) = n
    BY <1>4
  <2>3. InHand(p) \in {0, 1} /\ InHand(q) \in {0, 1}
    BY DEF InHand
  <2> HIDE DEF n
  <2>4. n \in Nat
    BY <1>1 DEF n
  <2>5. /\ n + InHand(q)' <= readFrom'[e]
        /\ pump'[p] = "write" => item'[p] = readFrom'[e]
        /\ pump'[q] = "write" => item'[q] = n + 1
        /\ pump'[p] # "done" /\ pump'[q] # "done" => n + InHand(q)' + InHand(p)' = readFrom'[e]
    <3>1. CASE /\ pump'[p] = pump[p] /\ pump'[q] = pump[q]
               /\ item'[p] = item[p] /\ item'[q] = item[q] /\ readFrom'[e] = readFrom[e]
      BY <1>2, <3>1 DEF InHand
    <3>2. CASE /\ pump[p] = "read" /\ pump'[p] = "write"
               /\ readFrom'[e] = readFrom[e] + 1 /\ item'[p] = readFrom[e] + 1
               /\ pump'[q] = pump[q] /\ item'[q] = item[q]
      BY <1>1, <1>2, <2>4, <3>2 DEF InHand
    <3>3. CASE /\ pump[p] = "write" /\ pump[q] = "read" /\ pump'[p] = "read" /\ pump'[q] = "write"
               /\ item'[q] = item[p] /\ readFrom'[e] = readFrom[e]
      BY <1>1, <1>2, <2>4, <3>3 DEF InHand
    <3>4. CASE /\ \/ pump'[p] = "done" /\ pump'[q] = pump[q] /\ item'[q] = item[q]
                  \/ pump'[q] = "done" /\ pump'[p] = pump[p] /\ item'[p] = item[p]
               /\ readFrom'[e] = readFrom[e]
      BY <1>1, <1>2, <2>4, <3>4 DEF InHand
    <3>5. got'[d] # Append(got[d], item[q])
      <4>1. Len(Append(got[d], item[q])) = Len(got[d]) + 1
        BY <1>1
      <4> QED
        BY <1>1, <1>4, <4>1
    <3> QED
      BY <3>1, <3>2, <3>3, <3>4, <3>5 DEF RelayMoves
  <2> QED
    BY <2>1, <2>2, <2>5 DEF RelayInTurn
<1> QED
  BY <1>3, <1>4 DEF RelayMoves

\* Nothing was read and nothing is in hand.
Untouched ==
  /\ \A e \in Ends : readFrom[e] = 0 /\ got[e] = <<>>
  /\ \A p \in Pumps : pump[p] \in {"none", "read"}

\* Then the items are in turn whatever the program.
LEMMA UntouchedInTurn == Untouched => ItemsInTurn
<1> SUFFICES ASSUME Untouched PROVE ItemsInTurn
  OBVIOUS
<1>1. \A e \in Ends : Len(got[e]) = 0 /\ readFrom[e] = 0 /\ got[e] = <<>>
  BY DEF Untouched
<1>2. "client" \in Ends /\ "upstream" \in Ends
  BY DEF Ends
<1>3. \A p \in Pumps : pump[p] # "write" /\ pump[p] # "writeLast" /\ InHand(p) = 0
  BY DEF Untouched, InHand
<1>4. \A e \in Ends : Counting(e)
  BY <1>1 DEF Counting
<1>5. RelayInTurn("in", "out") /\ RelayInTurn("cr", "sw") /\ RelayInTurn("sr", "cw")
  BY <1>1, <1>2, <1>3, <1>4, Wiring DEF RelayInTurn
<1>6. AnswersInTurn
  BY <1>1, <1>2, <1>3, Wiring DEF AnswersInTurn
<1>7. AnswersAll
  BY <1>1, <1>2, <1>3, <1>4, Wiring DEF AnswersAll
<1> QED
  BY <1>1, <1>2, <1>5, <1>6, <1>7 DEF ItemsInTurn

\* No goroutine runs before a program starts.
LEMMA StreamInitInv == StreamInit => StreamInv
<1> SUFFICES ASSUME StreamInit PROVE StreamInv
  OBVIOUS
<1>1. StreamTyped
  BY DEF StreamInit, StreamTyped
<1>2. NotStarted
  BY DEF StreamInit, NotStarted
<1>3. ReadWasSent
  BY DEF StreamInit, ReadWasSent
<1>4. Untouched
  BY DEF StreamInit, Untouched
<1> QED
  BY <1>1, <1>2, <1>3, <1>4, UntouchedInTurn DEF StreamInv

\* A step of the accept loop, main, a closer or a peer: no item moves.
QuietStep ==
  /\ UNCHANGED <<program, readFrom, pump, item, got>>
  /\ sentBy' \in [Ends -> Nat] /\ \A e \in Ends : sentBy[e] <= sentBy'[e]
  /\ acceptor' = acceptor \/ acceptor # "off"
  /\ handler' = handler \/ (handler # "none" /\ handler' = "done")

\* Such a step keeps the invariant.
LEMMA QuietKeeps == StreamInv /\ QuietStep => StreamInv'
<1> SUFFICES ASSUME StreamInv, QuietStep PROVE StreamInv'
  OBVIOUS
<1>1. StreamTyped'
  BY DEF StreamInv, QuietStep, StreamTyped
<1>2. NotStarted'
  BY DEF StreamInv, QuietStep, NotStarted, PumpsOf
<1>3. ReadWasSent'
  BY DEF StreamInv, QuietStep, ReadWasSent, StreamTyped
<1>4. ItemsInTurn'
  <2>1. \A p, q \in Pumps : RelayInTurn(p, q) => RelayInTurn(p, q)'
    <3> SUFFICES ASSUME NEW p \in Pumps, NEW q \in Pumps, RelayInTurn(p, q)
                 PROVE  RelayInTurn(p, q)'
      OBVIOUS
    <3>1. readFrom' = readFrom /\ pump' = pump /\ item' = item /\ got' = got
      BY DEF QuietStep
    <3> QED
      BY <3>1 DEF RelayInTurn, Counting, InHand
  <2>2. (AnswersInTurn => AnswersInTurn') /\ (AnswersAll => AnswersAll')
    BY DEF QuietStep, AnswersInTurn, AnswersAll, Counting
  <2>3. ItemsInTurn /\ program' = program /\ got' = got
    BY DEF StreamInv, QuietStep
  <2>4. {"in", "out", "cr", "sw", "sr", "cw"} \subseteq Pumps
    BY Wiring
  <2>5. /\ RelayInTurn("in", "out") => RelayInTurn("in", "out")'
        /\ RelayInTurn("cr", "sw") => RelayInTurn("cr", "sw")'
        /\ RelayInTurn("sr", "cw") => RelayInTurn("sr", "cw")'
    BY <2>1, <2>4
  <2> QED
    BY <2>2, <2>3, <2>5 DEF ItemsInTurn
<1> QED
  BY <1>1, <1>2, <1>3, <1>4 DEF StreamInv

\* The steps without an item.
LEMMA QuietSteps ==
  ASSUME StreamInv,
         \/ AcceptConnFails \/ Signal \/ MainStep \/ DialFails \/ HandlerReturns \/ CloseSocks
         \/ \E e \in Ends : RemoteSends(e) \/ RemoteStopsReading(e)
                            \/ \E how \in {"half", "gone"} : RemoteCloses(e, how)
  PROVE  QuietStep
<1>1. sentBy \in [Ends -> Nat] /\ \A e \in Ends : sentBy[e] <= sentBy[e]
  BY DEF StreamInv, StreamTyped
<1>2. CASE AcceptConnFails
  BY <1>1, <1>2 DEF AcceptConnFails, QuietStep, connVars, remoteVars, pumpVars
<1>3. CASE Signal
  BY <1>1, <1>3 DEF Signal, QuietStep, connVars, remoteVars, pumpVars
<1>4. CASE MainStep
  BY <1>1, <1>4 DEF MainStep, AcceptorStops, MainExits, QuietStep, connVars, remoteVars, pumpVars
<1>5. CASE DialFails
  BY <1>1, <1>5 DEF DialFails, QuietStep, mainVars, remoteVars, pumpVars
<1>6. CASE HandlerReturns
  BY <1>1, <1>6 DEF HandlerReturns, QuietStep, mainVars, remoteVars, pumpVars
<1>7. CASE CloseSocks
  BY <1>1, <1>7 DEF CloseSocks, QuietStep, mainVars, remoteVars, pumpVars
<1>8. ASSUME NEW e \in Ends, RemoteSends(e) PROVE QuietStep
  BY <1>1, <1>8 DEF RemoteSends, QuietStep, mainVars, connVars, pumpVars
<1>9. ASSUME NEW e \in Ends, RemoteStopsReading(e) PROVE QuietStep
  BY <1>1, <1>9 DEF RemoteStopsReading, QuietStep, mainVars, connVars, pumpVars
<1>10. ASSUME NEW e \in Ends, NEW how \in {"half", "gone"}, RemoteCloses(e, how) PROVE QuietStep
  BY <1>1, <1>10 DEF RemoteCloses, QuietStep, mainVars, connVars, pumpVars
<1> QED
  BY <1>2, <1>3, <1>4, <1>5, <1>6, <1>7, <1>8, <1>9, <1>10

\* A program starts, and a connection is accepted or dialled: no item was read.
LEMMA StartKeeps ==
  ASSUME StreamInv, (\E g \in Programs : StartServer(g)) \/ AcceptConn \/ Dial
  PROVE  StreamInv'
<1>1. handler \in {"none", "dialing"}
  BY DEF StreamInv, NotStarted, StartServer, AcceptConn, Dial
<1>2. /\ \A e \in Ends : readFrom[e] = 0 /\ got[e] = <<>>
      /\ \A p \in Pumps : pump[p] = "none"
  BY <1>1 DEF StreamInv, NotStarted
<1>3. readFrom' = readFrom /\ got' = got /\ sentBy' = sentBy /\ item' = item
  BY DEF StartServer, AcceptConn, Dial, remoteVars, pumpVars
<1>4. /\ program' \in Programs \cup {"none"}
      /\ pump' \in [Pumps -> {"none", "read"}]
      /\ \A p \in Pumps : pump'[p] # "none" => p \in PumpsOf(program)'
  <2>1. CASE \E g \in Programs : StartServer(g)
    BY <1>2, <2>1 DEF StartServer, connVars, pumpVars, StreamInv, StreamTyped
  <2>2. CASE AcceptConn
    BY <1>2, <2>2 DEF AcceptConn, StartPumps, mainVars, StreamInv, StreamTyped, PumpsOf
  <2>3. CASE Dial
    BY <1>2, <2>3 DEF Dial, StartPumps, mainVars, StreamInv, StreamTyped, PumpsOf
  <2> QED
    BY <2>1, <2>2, <2>3
<1>5. StreamTyped'
  BY <1>3, <1>4 DEF StreamInv, StreamTyped
<1>6. NotStarted'
  <2>1. /\ program' = "none" => acceptor' = "off" /\ handler' = "none"
        /\ handler' = "dialing" => program' = "mob"
        /\ handler' \in {"none", "dialing"} => pump' = pump
    <3>1. CASE \E g \in Programs : StartServer(g)
      BY <3>1 DEF StartServer, connVars, pumpVars, StreamInv, NotStarted, Programs
    <3>2. CASE AcceptConn
      BY <3>2 DEF AcceptConn, StartPumps, mainVars, StreamInv, NotStarted
    <3>3. CASE Dial
      BY <3>3 DEF Dial, StartPumps, mainVars, StreamInv, NotStarted
    <3> QED
      BY <3>1, <3>2, <3>3
  <2> QED
    BY <1>2, <1>3, <1>4, <2>1 DEF NotStarted
<1>7. ReadWasSent'
  BY <1>3 DEF StreamInv, ReadWasSent
<1>8. Untouched'
  BY <1>2, <1>3, <1>4 DEF Untouched
<1>9. ItemsInTurn'
  BY <1>8, UntouchedInTurn, PTL
<1> QED
  BY <1>5, <1>6, <1>7, <1>9 DEF StreamInv

\* A pump that runs is one of the running program, whose connection has started.
LEMMA PumpRuns ==
  ASSUME StreamInv, NEW p \in Pumps, pump[p] # "none"
  PROVE  /\ program \in Programs /\ p \in PumpsOf(program)
         /\ handler \notin {"none", "dialing"}
         /\ program = "smoke" => p \in {"in", "out"}
         /\ program = "mob" => p \in {"cr", "sw", "sr", "cw"}
         /\ program \in {"prime", "means", "isl"} => p = "serve"
<1>1. handler \notin {"none", "dialing"} /\ p \in PumpsOf(program)
  BY DEF StreamInv, NotStarted
<1>2. program \in Programs
  BY <1>1 DEF StreamInv, StreamTyped, NotStarted
<1> QED
  BY <1>1, <1>2, Wiring DEF Programs

\* Steps of the pumps of the echo server and the proxy, relay by relay.
LEMMA RelaysKeep ==
  ASSUME StreamInv, program \in {"smoke", "mob"}, program' = program,
         program = "smoke" => RelayMoves("in", "out") /\ got'["upstream"] = got["upstream"],
         program = "mob" => RelayMoves("cr", "sw") /\ RelayMoves("sr", "cw")
  PROVE  ItemsInTurn'
<1>1. StreamTyped
  BY DEF StreamInv
<1>2. "client" \in Ends /\ "upstream" \in Ends
  BY DEF Ends
<1>3. CASE program = "smoke"
  <2>1. RelayInTurn("in", "out") /\ got["upstream"] = <<>>
    BY <1>3 DEF StreamInv, ItemsInTurn
  <2>2. RelayInTurn("in", "out")'
    BY <1>1, <1>2, <1>3, <2>1, RelayKeeps, Wiring
  <2> QED
    BY <1>3, <2>1, <2>2 DEF ItemsInTurn
<1>4. CASE program = "mob"
  <2>1. RelayInTurn("cr", "sw") /\ RelayInTurn("sr", "cw")
    BY <1>4 DEF StreamInv, ItemsInTurn
  <2>2. RelayInTurn("cr", "sw")'
    BY <1>1, <1>2, <1>4, <2>1, RelayKeeps, Wiring
  <2>3. RelayInTurn("sr", "cw")'
    BY <1>1, <1>2, <1>4, <2>1, RelayKeeps, Wiring
  <2> QED
    BY <1>4, <2>2, <2>3 DEF ItemsInTurn
<1> QED
  BY <1>3, <1>4

\* A pump ends without writing: its item, if it has one, is dropped.
LEMMA EndKeeps ==
  ASSUME StreamInv, NEW p \in Pumps, pump[p] # "none", PumpEnds(p), got' = got
  PROVE  StreamInv'
<1>1. /\ program \in Programs /\ p \in PumpsOf(program)
      /\ handler \notin {"none", "dialing"}
      /\ program = "smoke" => p \in {"in", "out"}
      /\ program = "mob" => p \in {"cr", "sw", "sr", "cw"}
      /\ program \in {"prime", "means", "isl"} => p = "serve"
  BY PumpRuns
<1>2. StreamTyped
  BY DEF StreamInv
<1>3. /\ pump' = [pump EXCEPT ![p] = "done"] /\ item' = [item EXCEPT ![p] = 0]
      /\ readFrom' = readFrom /\ sentBy' = sentBy /\ program' = program /\ acceptor' = acceptor
      /\ handler' = handler \/ handler' = "done"
  BY DEF PumpEnds, mainVars, remoteVars
<1>4. StreamTyped'
  BY <1>2, <1>3 DEF StreamTyped
<1>5. /\ pump'[p] = "done" /\ \A q \in Pumps : q # p => pump'[q] = pump[q] /\ item'[q] = item[q]
  BY <1>2, <1>3 DEF StreamTyped
<1>6. NotStarted'
  <2>1. \A q \in Pumps : pump'[q] # "none" => q \in PumpsOf(program)'
    BY <1>1, <1>3, <1>5 DEF StreamInv, NotStarted, PumpsOf
  <2> QED
    BY <1>1, <1>3, <2>1 DEF NotStarted, Programs
<1>7. ReadWasSent'
  BY <1>3 DEF StreamInv, ReadWasSent
<1>8. CASE program \in {"smoke", "mob"}
  <2>1. program = "smoke" => RelayMoves("in", "out")
    BY <1>1, <1>3, <1>5, Wiring DEF RelayMoves
  <2>2. program = "mob" => RelayMoves("cr", "sw")
    BY <1>1, <1>3, <1>5, Wiring DEF RelayMoves
  <2>3. program = "mob" => RelayMoves("sr", "cw")
    BY <1>1, <1>3, <1>5, Wiring DEF RelayMoves
  <2>4. ItemsInTurn'
    BY <1>3, <1>8, <2>1, <2>2, <2>3, RelaysKeep
  <2> QED
    BY <1>4, <1>6, <1>7, <2>4 DEF StreamInv
<1>9. CASE program \in {"prime", "means", "isl"}
  <2>1. p = "serve" /\ pump'["serve"] = "done"
    BY <1>1, <1>5, <1>9
  <2>2. AnswersInTurn => AnswersInTurn'
    BY <1>3, <2>1 DEF AnswersInTurn
  <2>3. AnswersAll => AnswersAll'
    BY <1>3, <2>1 DEF AnswersAll, Counting
  <2>4. ItemsInTurn'
    BY <1>3, <1>9, <2>2, <2>3 DEF StreamInv, ItemsInTurn
  <2> QED
    BY <1>4, <1>6, <1>7, <2>4 DEF StreamInv
<1> QED
  BY <1>1, <1>8, <1>9 DEF Programs

\* An item is passed on through a pipe.
LEMMA PassKeeps ==
  ASSUME StreamInv, NEW p \in Pumps, NEW q \in Pumps, PipePasses(p, q)
  PROVE  StreamInv'
<1>1. pump[p] = "write" /\ pump[q] = "read" /\ Sink[p] = Source[q] /\ Sink[p] \notin Ends
  BY DEF PipePasses
<1>2. /\ program \in Programs
      /\ program = "smoke" => p \in {"in", "out"}
      /\ program = "mob" => p \in {"cr", "sw", "sr", "cw"}
      /\ program \in {"prime", "means", "isl"} => p = "serve"
  BY <1>1, PumpRuns
<1>3. p # "serve" /\ p # q
  BY <1>1, Wiring DEF Ends
<1>4. StreamTyped
  BY DEF StreamInv
<1>5. /\ pump' = [pump EXCEPT ![p] = "read", ![q] = "write"]
      /\ item' = [item EXCEPT ![p] = 0, ![q] = item[p]]
      /\ readFrom' = readFrom /\ sentBy' = sentBy /\ got' = got
      /\ program' = program /\ acceptor' = acceptor /\ handler' = handler
  BY DEF PipePasses, mainVars, connVars, remoteVars
<1>6. /\ pump'[p] = "read" /\ pump'[q] = "write" /\ item'[q] = item[p]
      /\ \A r \in Pumps : r # p /\ r # q => pump'[r] = pump[r] /\ item'[r] = item[r]
  BY <1>3, <1>4, <1>5 DEF StreamTyped
<1>7. StreamTyped'
  BY <1>4, <1>5 DEF StreamTyped
<1>8. NotStarted'
  BY <1>1, <1>5, <1>6 DEF StreamInv, NotStarted, PumpsOf
<1>9. ReadWasSent'
  BY <1>5 DEF StreamInv, ReadWasSent
<1>10. program \in {"smoke", "mob"}
  BY <1>2, <1>3 DEF Programs
<1>11. program = "smoke" => p = "in" /\ q = "out"
  BY <1>1, <1>2, Wiring DEF Ends
<1>12. program = "mob" => (p = "cr" /\ q = "sw") \/ (p = "sr" /\ q = "cw")
  BY <1>1, <1>2, Wiring DEF Ends
<1>13. program = "smoke" => RelayMoves("in", "out")
  BY <1>1, <1>5, <1>6, <1>11, Wiring DEF RelayMoves
<1>14. program = "mob" => RelayMoves("cr", "sw")
  BY <1>1, <1>5, <1>6, <1>12, Wiring DEF RelayMoves
<1>15. program = "mob" => RelayMoves("sr", "cw")
  BY <1>1, <1>5, <1>6, <1>12, Wiring DEF RelayMoves
<1>16. ItemsInTurn'
  BY <1>5, <1>10, <1>13, <1>14, <1>15, RelaysKeep
<1> QED
  BY <1>7, <1>8, <1>9, <1>16 DEF StreamInv

\* A pump reads an item of a peer, the next that the peer has sent.
LEMMA ReadKeeps ==
  ASSUME StreamInv, NEW p \in Pumps, PumpReads(p)
  PROVE  StreamInv'
<1> DEFINE e == Source[p]
           n == readFrom[e] + 1
<1>1. pump[p] = "read" /\ e \in Ends /\ n <= sentBy[e]
  BY DEF PumpReads, ReadUpTo
<1>2. /\ program \in Programs
      /\ program = "smoke" => p \in {"in", "out"}
      /\ program = "mob" => p \in {"cr", "sw", "sr", "cw"}
      /\ program \in {"prime", "means", "isl"} => p = "serve"
      /\ handler \notin {"none", "dialing"}
  BY <1>1, PumpRuns
<1>3. StreamTyped /\ readFrom[e] \in Nat /\ n \in Nat
  BY <1>1 DEF StreamInv, StreamTyped
<1>4. /\ readFrom' = [readFrom EXCEPT ![e] = n]
      /\ sentBy' = sentBy /\ got' = got
      /\ program' = program /\ acceptor' = acceptor /\ handler' = handler
  BY DEF PumpReads, ReadUpTo, mainVars, connVars, remoteVars
<1>5. PICK s \in {"read", "write", "writeLast"}, i \in {0, n} :
        /\ pump' = [pump EXCEPT ![p] = s] /\ item' = [item EXCEPT ![p] = i]
        /\ s # "read" => i = n
        /\ p # "serve" => s = "write"
        /\ program = "prime" => s # "read"
  <2>1. PICK o \in Outcomes(p, n) \ {"fail"} :
          /\ pump' = [pump EXCEPT ![p] = CASE o = "reply"  -> "write"
                                           [] o = "last"   -> "writeLast"
                                           [] o = "silent" -> "read"]
          /\ item' = [item EXCEPT ![p] = IF o = "silent" THEN 0 ELSE n]
    BY DEF PumpReads, ReadUpTo
  <2>2. o \in {"reply", "last", "silent"}
    BY <1>2 DEF Outcomes, Programs
  <2>3. (p # "serve" => o = "reply") /\ (program = "prime" => o # "silent")
    BY <1>2 DEF Outcomes, Programs
  <2>4. CASE o = "reply"
    BY <2>1, <2>4
  <2>5. CASE o = "last"
    BY <2>1, <2>3, <2>5
  <2>6. CASE o = "silent"
    BY <2>1, <2>3, <2>6
  <2> QED
    BY <2>2, <2>4, <2>5, <2>6
<1>6. /\ pump'[p] = s /\ item'[p] = i
      /\ \A q \in Pumps : q # p => pump'[q] = pump[q] /\ item'[q] = item[q]
  BY <1>3, <1>5 DEF StreamTyped
<1>7. readFrom'[e] = n /\ \A d \in Ends : d # e => readFrom'[d] = readFrom[d]
  BY <1>1, <1>3, <1>4 DEF StreamTyped
<1>8. StreamTyped'
  BY <1>1, <1>2, <1>3, <1>4, <1>5 DEF StreamTyped
<1>9. NotStarted'
  <2>1. \A q \in Pumps : pump'[q] # "none" => q \in PumpsOf(program)'
    BY <1>1, <1>4, <1>6 DEF StreamInv, NotStarted, PumpsOf
  <2> QED
    BY <1>2, <1>4, <2>1 DEF NotStarted, Programs
<1>10. ReadWasSent'
  BY <1>1, <1>3, <1>4, <1>7 DEF StreamInv, ReadWasSent
<1>11. CASE program \in {"smoke", "mob"}
  <2>1. p # "serve" /\ s = "write" /\ i = n
    BY <1>2, <1>5, <1>11
  <2>2. program = "smoke" => p = "in"
    BY <1>1, <1>2, Wiring DEF Ends
  <2>3. program = "mob" => p \in {"cr", "sr"}
    BY <1>1, <1>2, Wiring DEF Ends
  <2>4. "client" \in Ends /\ "upstream" \in Ends /\ "client" # "upstream"
    BY DEF Ends
  <2>5. program = "smoke" => RelayMoves("in", "out")
    BY <1>1, <1>4, <1>6, <1>7, <2>1, <2>2, <2>4, Wiring DEF RelayMoves
  <2>6. program = "mob" => RelayMoves("cr", "sw")
    BY <1>1, <1>4, <1>6, <1>7, <2>1, <2>3, <2>4, Wiring DEF RelayMoves
  <2>7. program = "mob" => RelayMoves("sr", "cw")
    BY <1>1, <1>4, <1>6, <1>7, <2>1, <2>3, <2>4, Wiring DEF RelayMoves
  <2>8. ItemsInTurn'
    BY <1>4, <1>11, <2>5, <2>6, <2>7, RelaysKeep
  <2> QED
    BY <1>8, <1>9, <1>10, <2>8 DEF StreamInv
<1>12. CASE program \in {"prime", "means", "isl"}
  <2>1. p = "serve" /\ e = "client" /\ pump["serve"] = "read"
    BY <1>1, <1>2, <1>12, Wiring
  <2>2. AnswersInTurn
    BY <1>12 DEF StreamInv, ItemsInTurn
  <2>3. \A k \in 1..Len(got["client"]) : got["client"][k] \in Nat
    <3>1. got["client"] \in Seq(Nat)
      BY <1>3 DEF StreamTyped, Ends
    <3> QED
      BY <3>1
  <2>4. readFrom["client"] \in Nat /\ readFrom'["client"] = readFrom["client"] + 1
    BY <1>3, <1>7, <2>1
  <2>5. \A k \in 1..Len(got["client"]) : got["client"][k] < readFrom'["client"]
    <3> SUFFICES ASSUME NEW k \in 1..Len(got["client"])
                 PROVE  got["client"][k] < readFrom'["client"]
      OBVIOUS
    <3>1. got["client"][k] <= readFrom["client"] /\ got["client"][k] \in Nat
      BY <2>2, <2>3, Zenon DEF AnswersInTurn
    <3> QED
      BY <2>4, <3>1
  <2>6. pump'["serve"] = s /\ item'["serve"] = i /\ (s # "read" => i = readFrom'["client"])
    BY <1>5, <1>6, <1>7, <2>1
  <2>7. AnswersInTurn'
    BY <1>4, <2>2, <2>3, <2>4, <2>5, <2>6 DEF AnswersInTurn
  <2>8. program = "prime" => AnswersAll'
    <3> SUFFICES ASSUME program = "prime" PROVE AnswersAll'
      OBVIOUS
    <3>1. AnswersAll
      BY DEF StreamInv, ItemsInTurn
    <3>2. Len(got["client"]) \in Nat
      BY <1>3 DEF StreamTyped, Ends
    <3>3. readFrom["client"] = Len(got["client"]) /\ Counting("client")
      BY <2>1, <3>1 DEF AnswersAll
    <3>4. pump'["serve"] # "read"
      BY <1>5, <2>6
    <3>5. Counting("client")'
      BY <1>4, <3>3 DEF Counting
    <3>6. Len(got'["client"]) = Len(got["client"])
      BY <1>4
    <3> HIDE DEF e, n
    <3> QED
      BY <2>4, <3>2, <3>3, <3>4, <3>5, <3>6 DEF AnswersAll
  <2>9. ItemsInTurn'
    BY <1>4, <1>12, <2>7, <2>8 DEF StreamInv, ItemsInTurn
  <2> QED
    BY <1>8, <1>9, <1>10, <2>9 DEF StreamInv
<1> QED
  BY <1>2, <1>11, <1>12 DEF Programs

\* A pump writes its item to a peer: it goes on, or ends after a last answer.
LEMMA WriteKeeps ==
  ASSUME StreamInv, NEW p \in Pumps, PumpWrites(p) \/ PumpWritesLast(p)
  PROVE  StreamInv'
<1> DEFINE e == Sink[p]
<1>1. /\ pump[p] \in {"write", "writeLast"} /\ e \in Ends
      /\ pump[p] = "writeLast" => p = "serve"
  BY DEF PumpWrites, PumpWritesLast, CanWrite, StreamInv, StreamTyped
<1>2. /\ program \in Programs
      /\ program = "smoke" => p \in {"in", "out"}
      /\ program = "mob" => p \in {"cr", "sw", "sr", "cw"}
      /\ program \in {"prime", "means", "isl"} => p = "serve"
      /\ handler \notin {"none", "dialing"}
  BY <1>1, PumpRuns
<1>3. StreamTyped /\ got[e] \in Seq(Nat) /\ item[p] \in Nat
  BY <1>1 DEF StreamInv, StreamTyped
<1>4. PICK s \in {"read", "done"} :
        /\ pump' = [pump EXCEPT ![p] = s]
        /\ pump[p] = "write" => s = "read"
        /\ pump[p] = "writeLast" => s = "done"
  BY <1>1 DEF PumpWrites, PumpWritesLast, PumpEnds
<1>5. /\ item' = [item EXCEPT ![p] = 0]
      /\ got' = [got EXCEPT ![e] = Append(got[e], item[p])]
      /\ readFrom' = readFrom /\ sentBy' = sentBy /\ program' = program /\ acceptor' = acceptor
      /\ handler' = handler \/ handler' = "done"
  BY DEF PumpWrites, PumpWritesLast, PumpEnds, mainVars, connVars, remoteVars
<1>6. /\ pump'[p] = s
      /\ \A q \in Pumps : q # p => pump'[q] = pump[q] /\ item'[q] = item[q]
  BY <1>3, <1>4, <1>5 DEF StreamTyped
<1>7. got'[e] = Append(got[e], item[p]) /\ \A d \in Ends : d # e => got'[d] = got[d]
  BY <1>1, <1>3, <1>5 DEF StreamTyped
<1>8. StreamTyped'
  <2>1. got' \in [Ends -> Seq(Nat)]
    BY <1>1, <1>3, <1>5 DEF StreamTyped
  <2>2. pump' \in [Pumps -> {"none", "read", "write", "writeLast", "done"}]
    BY <1>3, <1>4 DEF StreamTyped
  <2>3. item' \in [Pumps -> Nat]
    BY <1>3, <1>5 DEF StreamTyped
  <2>4. \A q \in Pumps : pump'[q] = "writeLast" => q = "serve"
    BY <1>3, <1>6 DEF StreamTyped
  <2> QED
    BY <1>3, <1>5, <2>1, <2>2, <2>3, <2>4 DEF StreamTyped
<1>9. NotStarted'
  <2>1. \A q \in Pumps : pump'[q] # "none" => q \in PumpsOf(program)'
    BY <1>1, <1>5, <1>6 DEF StreamInv, NotStarted, PumpsOf
  <2> QED
    BY <1>2, <1>5, <2>1 DEF NotStarted, Programs
<1>10. ReadWasSent'
  BY <1>5 DEF StreamInv, ReadWasSent
<1>11. CASE program \in {"smoke", "mob"}
  <2>1. p # "serve" /\ pump[p] = "write" /\ s = "read"
    BY <1>1, <1>2, <1>4, <1>11
  <2>2. program = "smoke" => p = "out"
    BY <1>1, <1>2, Wiring DEF Ends
  <2>3. program = "mob" => p \in {"sw", "cw"}
    BY <1>1, <1>2, Wiring DEF Ends
  <2>4. "client" \in Ends /\ "upstream" \in Ends /\ "client" # "upstream"
    BY DEF Ends
  <2>5. program = "smoke" => RelayMoves("in", "out") /\ got'["upstream"] = got["upstream"]
    BY <1>5, <1>6, <1>7, <2>1, <2>2, <2>4, Wiring DEF RelayMoves
  <2>6. program = "mob" => RelayMoves("cr", "sw")
    BY <1>5, <1>6, <1>7, <2>1, <2>3, <2>4, Wiring DEF RelayMoves
  <2>7. program = "mob" => RelayMoves("sr", "cw")
    BY <1>5, <1>6, <1>7, <2>1, <2>3, <2>4, Wiring DEF RelayMoves
  <2>8. ItemsInTurn'
    BY <1>5, <1>11, <2>5, <2>6, <2>7, RelaysKeep
  <2> QED
    BY <1>8, <1>9, <1>10, <2>8 DEF StreamInv
<1>12. CASE program \in {"prime", "means", "isl"}
  <2>1. p = "serve" /\ e = "client"
    BY <1>2, <1>12, Wiring
  <2>2. PICK g \in Seq(Nat), m \in Nat, i \in Nat :
          g = got["client"] /\ m = readFrom["client"] /\ i = item["serve"]
    BY <1>3, <2>1 DEF StreamTyped, Ends
  <2>3. /\ i = m /\ \A k \in 1..Len(g) : g[k] < m
        /\ \A j, k \in 1..Len(g) : j < k => g[j] < g[k]
    BY <1>1, <1>12, <2>1, <2>2 DEF StreamInv, ItemsInTurn, AnswersInTurn
  <2>4. /\ got'["client"] = Append(g, i) /\ readFrom'["client"] = m
        /\ pump'["serve"] \in {"read", "done"}
    BY <1>5, <1>6, <1>7, <2>1, <2>2
  <2>5. PICK h : h = Append(g, i)
    OBVIOUS
  <2>6. /\ Len(g) \in Nat /\ Len(h) = Len(g) + 1 /\ h[Len(g) + 1] = m
        /\ \A k \in 1..Len(g) : h[k] = g[k] /\ g[k] \in Nat
    BY <2>2, <2>3, <2>5
  <2>7. \A k \in 1..Len(h) : k \in 1..Len(g) \/ k = Len(g) + 1
    BY <2>6
  <2>8. \A k \in 1..Len(h) : h[k] <= m
    <3>1. \A k \in 1..Len(g) : h[k] = g[k] /\ g[k] \in Nat /\ g[k] < m
      BY <2>3, <2>6, Zenon
    <3> SUFFICES ASSUME NEW k \in 1..Len(h) PROVE h[k] <= m
      OBVIOUS
    <3>2. CASE k \in 1..Len(g)
      <4>1. h[k] \in Nat /\ h[k] < m
        BY <3>1, <3>2
      <4> QED
        BY <2>2, <4>1
    <3>3. CASE k = Len(g) + 1
      BY <2>2, <2>6, <3>3
    <3> QED
      BY <2>7, <3>2, <3>3, Zenon
  <2>9. \A j, k \in 1..Len(h) : j < k => h[j] < h[k]
    <3> SUFFICES ASSUME NEW j \in 1..Len(h), NEW k \in 1..Len(h), j < k PROVE h[j] < h[k]
      OBVIOUS
    <3>1. j \in 1..Len(g)
      BY <2>6
    <3>2. CASE k \in 1..Len(g)
      BY <2>3, <2>6, <3>1, <3>2
    <3>3. CASE k = Len(g) + 1
      BY <2>3, <2>6, <3>1, <3>3
    <3> QED
      BY <2>7, <3>2, <3>3
  <2>10. got'["client"] = h
    BY <2>4, <2>5
  <2>11. AnswersInTurn'
    BY <2>4, <2>8, <2>9, <2>10 DEF AnswersInTurn
  <2>12. program = "prime" => AnswersAll'
    <3> SUFFICES ASSUME program = "prime" PROVE AnswersAll'
      OBVIOUS
    <3>1. m = Len(g) + 1 /\ \A k \in 1..Len(g) : g[k] = k
      BY <1>1, <2>1, <2>2 DEF StreamInv, ItemsInTurn, AnswersAll, Counting
    <3>2. \A k \in 1..Len(h) : h[k] = k
      BY <2>6, <2>7, <3>1
    <3> QED
      BY <2>4, <2>6, <2>10, <3>1, <3>2 DEF AnswersAll, Counting
  <2>13. got'["upstream"] = <<>>
    BY <1>7, <1>12, <2>1 DEF StreamInv, ItemsInTurn, Ends
  <2>14. ItemsInTurn'
    BY <1>5, <1>12, <2>11, <2>12, <2>13 DEF ItemsInTurn
  <2> QED
    BY <1>8, <1>9, <1>10, <2>14 DEF StreamInv
<1> QED
  BY <1>2, <1>11, <1>12 DEF Programs

\* The invariant of the stream servers, for any number of items.
THEOREM StreamInvariant == StreamSpec => []StreamInv
<1>1. StreamInv /\ [StreamNext]_streamVars => StreamInv'
  <2> SUFFICES ASSUME StreamInv, [StreamNext]_streamVars PROVE StreamInv'
    OBVIOUS
  <2>1. CASE UNCHANGED streamVars
    <3>1. QuietStep
      BY <2>1 DEF streamVars, mainVars, connVars, remoteVars, pumpVars, QuietStep,
         StreamInv, StreamTyped
    <3> QED
      BY <3>1, QuietKeeps
  <2>2. ASSUME NEW p \in Pumps, PumpStep(p) \/ PumpChecks(p) PROVE StreamInv'
    <3>1. CASE PumpReads(p)
      BY <3>1, ReadKeeps
    <3>2. CASE PumpWrites(p) \/ PumpWritesLast(p)
      BY <3>2, WriteKeeps
    <3>3. CASE PumpRefuses(p) \/ PumpReadFails(p) \/ PumpWriteFails(p) \/ PumpChecks(p)
      <4>1. PumpEnds(p) /\ got' = got /\ pump[p] # "none"
        BY <3>3 DEF PumpRefuses, PumpReadFails, PumpWriteFails, PumpChecks
      <4> QED
        BY <4>1, EndKeeps
    <3>4. ASSUME NEW q \in Pumps, PipePasses(p, q) PROVE StreamInv'
      BY <3>4, PassKeeps
    <3> QED
      BY <2>2, <3>1, <3>2, <3>3, <3>4 DEF PumpStep
  <2>3. CASE (\E g \in Programs : StartServer(g)) \/ AcceptConn \/ Dial
    BY <2>3, StartKeeps
  <2>4. CASE \/ AcceptConnFails \/ Signal \/ MainStep \/ DialFails \/ HandlerReturns \/ CloseSocks
             \/ \E e \in Ends : RemoteSends(e) \/ RemoteStopsReading(e)
                                \/ \E how \in {"half", "gone"} : RemoteCloses(e, how)
    BY <2>4, QuietSteps, QuietKeeps
  <2> QED
    BY <2>1, <2>2, <2>3, <2>4 DEF StreamNext, HandlerStep
<1> QED
  BY StreamInitInv, <1>1, PTL DEF StreamSpec

\* A peer gets the items in the order in which they were sent, and of the echo
\* server, the proxy and the prime server a prefix of all that were sent.
THEOREM ItemsInOrder == StreamSpec => []InOrder
<1>1. StreamInv => InOrder
  <2> SUFFICES ASSUME StreamInv, NEW e \in Ends
               PROVE  IF program \in {"smoke", "mob", "prime"}
                      THEN /\ Len(got[e]) <= sentBy[Origin(e)]
                           /\ \A k \in DOMAIN got[e] : got[e][k] = k
                      ELSE \A j, k \in DOMAIN got[e] : j < k => got[e][j] < got[e][k]
    BY DEF InOrder
  <2>1. /\ \A d \in Ends : /\ got[d] \in Seq(Nat) /\ Len(got[d]) \in Nat
                           /\ DOMAIN got[d] = 1..Len(got[d])
                           /\ readFrom[d] \in Nat /\ sentBy[d] \in Nat
                           /\ readFrom[d] <= sentBy[d]
        /\ e \in {"client", "upstream"} /\ "client" \in Ends /\ "upstream" \in Ends
    BY DEF StreamInv, StreamTyped, ReadWasSent, Ends
  <2>2. InHand("out") \in {0, 1} /\ InHand("sw") \in {0, 1} /\ InHand("cw") \in {0, 1}
    BY DEF InHand
  <2>3. program # "mob" => got["upstream"] = <<>>
    BY DEF StreamInv, ItemsInTurn
  <2>4. CASE program = "smoke"
    <3>1. RelayInTurn("in", "out")
      BY <2>4 DEF StreamInv, ItemsInTurn
    <3>2. Counting("client") /\ Len(got["client"]) + InHand("out") <= readFrom["client"]
      BY <3>1, Wiring DEF RelayInTurn
    <3>3. Len(got["client"]) <= sentBy["client"]
      BY <2>1, <2>2, <3>2
    <3> QED
      BY <2>1, <2>3, <2>4, <3>2, <3>3 DEF Counting, Origin
  <2>5. CASE program = "mob"
    <3>1. RelayInTurn("cr", "sw") /\ RelayInTurn("sr", "cw")
      BY <2>5 DEF StreamInv, ItemsInTurn
    <3>2. /\ Counting("upstream") /\ Len(got["upstream"]) + InHand("sw") <= readFrom["client"]
          /\ Counting("client") /\ Len(got["client"]) + InHand("cw") <= readFrom["upstream"]
      BY <3>1, Wiring DEF RelayInTurn
    <3>3. /\ Len(got["upstream"]) <= sentBy["client"]
          /\ Len(got["client"]) <= sentBy["upstream"]
      BY <2>1, <2>2, <3>2
    <3> QED
      BY <2>1, <2>5, <3>2, <3>3 DEF Counting, Origin
  <2>6. CASE program = "prime"
    <3>1. Counting("client") /\ Len(got["client"]) <= readFrom["client"]
      BY <2>6 DEF StreamInv, ItemsInTurn, AnswersAll
    <3>2. Len(got["client"]) <= sentBy["client"]
      BY <2>1, <3>1
    <3> QED
      BY <2>1, <2>3, <2>6, <3>1, <3>2 DEF Counting, Origin
  <2>7. CASE program \in {"means", "isl"}
    <3>1. \A j, k \in 1..Len(got["client"]) : j < k => got["client"][j] < got["client"][k]
      BY <2>7 DEF StreamInv, ItemsInTurn, AnswersInTurn
    <3>2. DOMAIN got["upstream"] = {}
      BY <2>3, <2>7
    <3>3. \A j, k \in DOMAIN got[e] : j < k => got[e][j] < got[e][k]
      BY <2>1, <3>1, <3>2
    <3> QED
      BY <2>7, <3>3
  <2>8. CASE program = "none"
    <3>1. \A d \in Ends : got[d] = <<>>
      BY <2>8 DEF StreamInv, NotStarted
    <3> QED
      BY <2>1, <2>8, <3>1
  <2> QED
    BY <2>4, <2>5, <2>6, <2>7, <2>8 DEF StreamInv, StreamTyped, Programs
<1> QED
  BY StreamInvariant, <1>1, PTL

----------------------------------------------------------------------------
(* The scan for addresses *)

CoinTypeOK ==
  /\ message \in Seq(Characters) /\ res \in Seq(Piece)
  /\ scanned \in Nat /\ ahead \in Nat /\ isBC \in BOOLEAN
  /\ scanned + ahead <= Len(message)

\* The pieces follow one another up to where the scan is.
PiecesMeet ==
  /\ \A k \in 1..Len(res) : res[k].from = EndOf(k - 1)
  /\ EndOf(Len(res)) = scanned

\* What the inner loop knows of the bytes that it has seen.
SeenAhead ==
  ahead > 0 =>
    /\ StartsCoin(scanned)
    /\ \A k \in (scanned + 1)..(scanned + ahead - 1) : ByteAt(k) \in Alnum
    /\ ~isBC => /\ scanned + ahead < Len(message)
                /\ ByteAt(scanned + ahead) \notin Alnum \cup {Space}

CoinsAreAddresses == \A k \in 1..Len(res) : res[k].coin => IsAddress(res[k].from, EndOf(k))

\* The scan never stops within an address, and those behind it were replaced.
AddressDone(a, b) ==
  /\ a < scanned => b <= scanned
  /\ b <= scanned => \E k \in 1..Len(res) : res[k] = [from |-> a, len |-> b - a, coin |-> TRUE]
AddressesAreCoins ==
  \A a, b \in 0..Len(message) : a < b /\ IsAddress(a, b) => AddressDone(a, b)

CoinInv == CoinTypeOK /\ PiecesMeet /\ SeenAhead /\ CoinsAreAddresses /\ AddressesAreCoins

\* The invariant says all that CoinsReplaced does.
LEMMA InvCoinsReplaced == CoinInv => CoinsReplaced
<1> SUFFICES ASSUME CoinInv PROVE CoinsReplaced
  OBVIOUS
<1>1. DOMAIN res = 1..Len(res)
  BY DEF CoinInv, CoinTypeOK
<1> QED
  BY <1>1 DEF CoinInv, PiecesMeet, CoinsAreAddresses, AddressesAreCoins, AddressDone, CoinsReplaced

\* Before the call there is nothing to scan.
LEMMA CoinStart == CoinInit => CoinInv
<1> SUFFICES ASSUME CoinInit PROVE CoinInv
  OBVIOUS
<1>1. /\ message = <<>> /\ message \in Seq(Characters) /\ Len(message) = 0
      /\ res = <<>> /\ res \in Seq(Piece) /\ Len(res) = 0
      /\ scanned = 0 /\ ahead = 0 /\ isBC = TRUE
  BY DEF CoinInit
<1>2. CoinTypeOK /\ PiecesMeet /\ SeenAhead /\ CoinsAreAddresses
  BY <1>1 DEF CoinTypeOK, PiecesMeet, SeenAhead, CoinsAreAddresses, EndOf
<1>3. AddressesAreCoins
  BY <1>1 DEF AddressesAreCoins
<1> QED
  BY <1>2, <1>3 DEF CoinInv

\* While nothing is done with, a new message has nothing behind the scan.
LEMMA CallKeeps ==
  ASSUME CoinInv, NEW m \in ChatLines, replaceBogusCoin(m)
  PROVE  CoinInv'
<1>1. /\ message' \in Seq(Characters) /\ Len(message') \in Nat
      /\ scanned' = scanned /\ ahead' = ahead /\ isBC' = isBC /\ res' = res
  BY ChatLinesAssumption DEF replaceBogusCoin
<1>2. scanned = 0 /\ ahead = 0
  BY DEF CoinInv, CoinTypeOK, replaceBogusCoin
<1>3. Len(res) = 0
  <2>1. \A k \in 1..Len(res) : res[k].from \in Nat /\ res[k].len \in Nat \ {0}
    <3>1. \A k \in 1..Len(res) : res[k] \in Piece
      BY DEF CoinInv, CoinTypeOK
    <3> QED
      BY <3>1 DEF Piece
  <2>2. Len(res) \in Nat /\ EndOf(Len(res)) = 0
    BY <1>2 DEF CoinInv, CoinTypeOK, PiecesMeet
  <2>3. SUFFICES ASSUME Len(res) # 0 PROVE FALSE
    OBVIOUS
  <2>4. Len(res) \in 1..Len(res)
    BY <2>2, <2>3
  <2> QED
    BY <2>1, <2>2, <2>3, <2>4 DEF EndOf
<1>4. CoinTypeOK' /\ SeenAhead'
  BY <1>1, <1>2 DEF CoinInv, CoinTypeOK, SeenAhead
<1>5. PiecesMeet' /\ CoinsAreAddresses'
  BY <1>1, <1>2, <1>3 DEF PiecesMeet, CoinsAreAddresses, EndOf
<1>6. ASSUME NEW a \in 0..Len(message'), NEW b \in 0..Len(message'), a < b PROVE AddressDone(a, b)'
  BY <1>1, <1>2, <1>6 DEF AddressDone
<1> QED
  BY <1>4, <1>5, <1>6 DEF CoinInv, AddressesAreCoins

\* Another piece of the result.
LEMMA AppendedPiece ==
  ASSUME res \in Seq(Piece), NEW n, n = Len(res), NEW p \in Piece, res' = Append(res, p)
  PROVE  /\ res' \in Seq(Piece) /\ n \in Nat /\ Len(res') = n + 1
         /\ \A k \in 1..n : res'[k] = res[k]
         /\ res'[n + 1] = p
         /\ \A k \in 0..n : EndOf(k)' = EndOf(k)
         /\ EndOf(n + 1)' = p.from + p.len
<1>1. /\ res' \in Seq(Piece) /\ n \in Nat /\ Len(res') = n + 1
      /\ \A k \in 1..n : res'[k] = res[k]
      /\ res'[n + 1] = p
  BY AppendProperties
<1>2. ASSUME NEW k \in 0..n PROVE EndOf(k)' = EndOf(k)
  <2>1. k = 0 \/ k \in 1..n
    BY <1>1
  <2> QED
    BY <1>1, <2>1 DEF EndOf
<1>3. EndOf(n + 1)' = p.from + p.len
  <2>1. n + 1 # 0
    BY <1>1
  <2> QED
    BY <1>1, <2>1 DEF EndOf
<1> QED
  BY <1>1, <1>2, <1>3

\* A piece is added and done with: it is an address or copied, and no address
\* begins in it without being it.
LEMMA PieceKeeps ==
  ASSUME CoinInv, NEW p \in Piece, p.from = scanned, res' = Append(res, p),
         scanned' = scanned + p.len, message' = message,
         p.coin => IsAddress(scanned, scanned + p.len),
         \A a, b \in 0..Len(message) :
           a < b /\ IsAddress(a, b) /\ scanned <= a /\ a < scanned + p.len =>
             a = scanned /\ b = scanned + p.len /\ p.coin
  PROVE  res' \in Seq(Piece) /\ PiecesMeet' /\ CoinsAreAddresses' /\ AddressesAreCoins'
<1>1. PICK n : n = Len(res)
  OBVIOUS
<1>2. res \in Seq(Piece) /\ scanned \in Nat /\ Len(message) \in Nat
  BY DEF CoinInv, CoinTypeOK
<1>p. /\ p.from \in Nat /\ p.len \in Nat /\ p.len > 0
      /\ p = [from |-> p.from, len |-> p.len, coin |-> p.coin]
      /\ p.coin \in BOOLEAN
  BY DEF Piece
<1>3. /\ res' \in Seq(Piece) /\ n \in Nat /\ Len(res') = n + 1
      /\ \A k \in 1..n : res'[k] = res[k]
      /\ res'[n + 1] = p
      /\ \A k \in 0..n : EndOf(k)' = EndOf(k)
      /\ EndOf(n + 1)' = p.from + p.len
  BY <1>1, <1>2, AppendedPiece
<1>n. n \in Nat /\ \A k \in 1..(n + 1) : k \in 1..n \/ k = n + 1
  BY <1>3
<1>4. PiecesMeet'
  <2>1. EndOf(Len(res))' = EndOf(n + 1)'
    BY <1>3 DEF EndOf
  <2>2. EndOf(n) = scanned /\ \A k \in 1..n : res[k].from = EndOf(k - 1)
    BY <1>1 DEF CoinInv, PiecesMeet
  <2>3. ASSUME NEW k \in 1..(n + 1) PROVE res'[k].from = EndOf(k - 1)'
    <3>1. CASE k \in 1..n
      <4>1. k - 1 \in 0..n
        BY <1>n, <3>1
      <4> QED
        BY <1>3, <2>2, <3>1, <4>1
    <3>2. CASE k = n + 1
      <4>1. k - 1 = n /\ n \in 0..n
        BY <1>n, <3>2
      <4> QED
        BY <1>3, <2>2, <3>2, <4>1
    <3> QED
      BY <1>n, <3>1, <3>2
  <2> QED
    BY <1>3, <2>1, <2>3 DEF PiecesMeet
<1>5. CoinsAreAddresses'
  <2>1. \A a, b : IsAddress(a, b)' <=> IsAddress(a, b)
    BY DEF IsAddress, IsWord, ByteAt
  <2>2. ASSUME NEW k \in 1..(n + 1), res'[k].coin PROVE IsAddress(res[k].from, EndOf(k))'
    <3>1. PICK f, e : f = res'[k].from /\ e = EndOf(k)'
      OBVIOUS
    <3>2. IsAddress(res[k].from, EndOf(k))' <=> IsAddress(f, e)
      BY <2>1, <3>1 DEF IsAddress, IsWord, ByteAt, EndOf
    <3>3. CASE k \in 1..n
      <4>1. k \in 0..n
        BY <1>n, <3>3
      <4>2. f = res[k].from /\ e = EndOf(k) /\ res[k].coin
        BY <1>3, <2>2, <3>1, <3>3, <4>1
      <4> QED
        BY <1>1, <3>2, <3>3, <4>2 DEF CoinInv, CoinsAreAddresses
    <3>4. CASE k = n + 1
      BY <1>3, <2>2, <3>1, <3>2, <3>4
    <3> QED
      BY <1>n, <3>3, <3>4
  <2> QED
    BY <1>3, <2>2 DEF CoinsAreAddresses
<1>6. AddressesAreCoins'
  <2>1. SUFFICES ASSUME NEW a \in 0..Len(message), NEW b \in 0..Len(message), a < b, IsAddress(a, b)
                 PROVE  AddressDone(a, b)'
    BY DEF AddressesAreCoins, IsAddress, IsWord, ByteAt
  <2>2. /\ a \in Nat /\ b \in Nat /\ scanned \in Nat
        /\ scanned' = scanned + p.len /\ p.len \in Nat /\ p.len > 0
    BY <1>2, <1>p
  <2>3. AddressDone(a, b)
    BY <2>1 DEF CoinInv, AddressesAreCoins
  <2>4. CASE a < scanned
    <3>1. b <= scanned
      BY <2>3, <2>4 DEF AddressDone
    <3>2. PICK k \in 1..n : res[k] = [from |-> a, len |-> b - a, coin |-> TRUE]
      BY <1>1, <2>3, <3>1 DEF AddressDone
    <3>3. k \in 1..(n + 1) /\ res'[k] = res[k]
      BY <1>3, <1>n
    <3>4. b <= scanned'
      BY <2>2, <3>1
    <3> QED
      BY <1>3, <3>2, <3>3, <3>4 DEF AddressDone
  <2>5. CASE scanned <= a /\ a < scanned + p.len
    <3>1. a = scanned /\ b = scanned + p.len /\ p.coin
      BY <2>1, <2>5
    <3>2. b - a = p.len
      BY <2>2, <3>1
    <3>3. p = [from |-> a, len |-> b - a, coin |-> TRUE]
      BY <1>p, <3>1, <3>2
    <3>4. n + 1 \in 1..(n + 1)
      BY <1>n
    <3>5. b <= scanned'
      BY <2>2, <3>1
    <3> QED
      BY <1>3, <3>3, <3>4, <3>5 DEF AddressDone
  <2>6. CASE ~(a < scanned + p.len)
    BY <2>1, <2>2, <2>6 DEF AddressDone
  <2> QED
    BY <2>2, <2>4, <2>5, <2>6
<1> QED
  BY <1>3, <1>4, <1>5, <1>6

\* A byte that begins no address is copied.
LEMMA CopyKeeps == CoinInv /\ CopyByte => CoinInv'
<1> SUFFICES ASSUME CoinInv, CopyByte PROVE CoinInv'
  OBVIOUS
<1>1. PICK p : p = [from |-> scanned, len |-> 1, coin |-> FALSE]
  OBVIOUS
<1>2. /\ ahead = 0 /\ scanned < Len(message) /\ ~StartsCoin(scanned)
      /\ res' = Append(res, p) /\ scanned' = scanned + 1
      /\ message' = message /\ ahead' = ahead /\ isBC' = isBC
  BY <1>1 DEF CopyByte, Scanning
<1>3. scanned \in Nat /\ Len(message) \in Nat /\ message \in Seq(Characters) /\ isBC \in BOOLEAN
  BY DEF CoinInv, CoinTypeOK
<1>4. p \in Piece /\ p.from = scanned /\ p.len = 1 /\ p.coin = FALSE
  BY <1>1, <1>3 DEF Piece
<1>5. ASSUME NEW a \in 0..Len(message), NEW b \in 0..Len(message),
             a < b, IsAddress(a, b), scanned <= a, a < scanned + 1
      PROVE  FALSE
  <2>1. a = scanned
    BY <1>3, <1>5
  <2>2. StartsCoin(a)
    BY <1>5 DEF IsAddress, IsWord, StartsCoin
  <2> QED
    BY <1>2, <2>1, <2>2
<1>6. res' \in Seq(Piece) /\ PiecesMeet' /\ CoinsAreAddresses' /\ AddressesAreCoins'
  BY <1>2, <1>4, <1>5, PieceKeeps
<1>7. CoinTypeOK' /\ SeenAhead'
  BY <1>2, <1>3, <1>6 DEF CoinTypeOK, SeenAhead
<1> QED
  BY <1>6, <1>7 DEF CoinInv

\* The inner loop sees one more byte.
LEMMA LookKeeps == CoinInv /\ (LookAhead \/ LookFurther) => CoinInv'
<1> SUFFICES ASSUME CoinInv, LookAhead \/ LookFurther PROVE CoinInv'
  OBVIOUS
<1>1. message' = message /\ scanned' = scanned /\ res' = res
  BY DEF LookAhead, LookFurther
<1>2. PiecesMeet' /\ CoinsAreAddresses' /\ AddressesAreCoins'
  <2>1. CoinInv
    OBVIOUS
  <2>2. PiecesMeet'
    BY <1>1, <2>1, Zenon DEF CoinInv, PiecesMeet, EndOf
  <2>3. CoinsAreAddresses'
    BY <1>1, <2>1, Zenon DEF CoinInv, CoinsAreAddresses, EndOf, IsAddress, IsWord, ByteAt
  <2>4. \A a, b : IsAddress(a, b)' = IsAddress(a, b)
    BY <1>1, Zenon DEF IsAddress, IsWord, ByteAt
  <2>5. \A a, b : AddressDone(a, b)' = AddressDone(a, b)
    BY <1>1, Zenon DEF AddressDone
  <2>6. AddressesAreCoins'
    BY <1>1, <2>1, <2>4, <2>5, Zenon DEF CoinInv, AddressesAreCoins
  <2> QED
    BY <2>2, <2>3, <2>6
<1>3. /\ scanned \in Nat /\ Len(message) \in Nat /\ ahead \in Nat /\ message \in Seq(Characters)
      /\ res \in Seq(Piece) /\ scanned + ahead <= Len(message) /\ isBC \in BOOLEAN
  BY DEF CoinInv, CoinTypeOK
<1>4. CASE LookAhead
  <2>1. ahead' = 1 /\ isBC' = TRUE /\ scanned < Len(message) /\ StartsCoin(scanned)
    BY <1>4 DEF LookAhead, Scanning
  <2>2. CoinTypeOK'
    BY <1>1, <1>3, <2>1 DEF CoinTypeOK
  <2>3. StartsCoin(scanned)'
    BY <1>1, <2>1 DEF StartsCoin, ByteAt
  <2>4. SeenAhead'
    BY <1>1, <1>3, <2>1, <2>3 DEF SeenAhead
  <2> QED
    BY <1>2, <2>2, <2>4 DEF CoinInv
<1>5. CASE LookFurther
  <2>1. /\ ahead > 0 /\ isBC /\ scanned + ahead < Len(message) /\ ByteAt(scanned + ahead) # Space
        /\ \/ ByteAt(scanned + ahead) \in Alnum /\ ahead' = ahead + 1 /\ isBC' = isBC
           \/ ByteAt(scanned + ahead) \notin Alnum /\ ahead' = ahead /\ isBC' = FALSE
    <3>1. scanned + ahead < Len(message) /\ ByteAt(scanned + ahead) # Space
      BY <1>5 DEF LookFurther, WordEnds
    <3> QED
      BY <1>5, <3>1 DEF LookFurther
  <2>2. CoinTypeOK'
    <3>1. ahead' \in Nat /\ scanned + ahead' <= Len(message)
      <4>1. /\ scanned \in Nat /\ ahead \in Nat /\ Len(message) \in Nat
            /\ scanned + ahead < Len(message) /\ (ahead' = ahead + 1 \/ ahead' = ahead)
        BY <1>3, <2>1
      <4> QED
        BY <4>1
    <3>2. isBC' \in BOOLEAN
      BY <1>3, <2>1
    <3> QED
      BY <1>1, <1>3, <3>1, <3>2 DEF CoinTypeOK
  <2>3. StartsCoin(scanned)' /\ \A k : ByteAt(k)' = ByteAt(k)
    BY <1>1, <2>1 DEF CoinInv, SeenAhead, StartsCoin, ByteAt
  <2>4. ByteAt(scanned + ahead)' = message[(scanned + ahead') + 1]
    BY <1>1 DEF ByteAt
  <2>5. \A k \in (scanned + 1)..(scanned + ahead' - 1) : ByteAt(k) \in Alnum
    <3>1. \A k \in (scanned + 1)..(scanned + ahead - 1) : ByteAt(k) \in Alnum
      BY <2>1 DEF CoinInv, SeenAhead
    <3>2. ASSUME NEW k \in (scanned + 1)..(scanned + ahead' - 1), ByteAt(k) \notin Alnum PROVE FALSE
      <4>1. k \in (scanned + 1)..(scanned + ahead - 1) \/ (k = scanned + ahead /\ ahead' = ahead + 1)
        <5>1. scanned \in Nat /\ ahead \in Nat /\ (ahead' = ahead + 1 \/ ahead' = ahead)
          BY <1>3, <2>1
        <5> QED
          BY <5>1
      <4> QED
        BY <2>1, <3>1, <3>2, <4>1
    <3> QED
      BY <3>2
  <2>6. ~isBC' => /\ scanned + ahead' < Len(message)
                  /\ message[(scanned + ahead') + 1] \notin Alnum \cup {Space}
    BY <2>1 DEF ByteAt
  <2>7. SeenAhead'
    BY <1>1, <2>3, <2>4, <2>5, <2>6 DEF SeenAhead
  <2> QED
    BY <1>2, <2>2, <2>7 DEF CoinInv
<1> QED
  BY <1>4, <1>5

\* What the inner loop saw is an address exactly if the scan takes it for one.
LEMMA TakeKeeps == CoinInv /\ TakeAhead => CoinInv'
<1> SUFFICES ASSUME CoinInv, TakeAhead PROVE CoinInv'
  OBVIOUS
<1>1. PICK p : p = [from |-> scanned, len |-> ahead,
                    coin |-> isBC /\ ahead >= MinCoin /\ ahead <= MaxCoin]
  OBVIOUS
<1>2. /\ ahead > 0 /\ (isBC => WordEnds) /\ res' = Append(res, p)
      /\ scanned' = scanned + ahead /\ ahead' = 0 /\ message' = message /\ isBC' = isBC
  BY <1>1 DEF TakeAhead
<1>3. /\ scanned \in Nat /\ Len(message) \in Nat /\ ahead \in Nat /\ message \in Seq(Characters)
      /\ scanned + ahead <= Len(message) /\ isBC \in BOOLEAN
  BY DEF CoinInv, CoinTypeOK
<1>4. /\ p \in Piece /\ p.from = scanned /\ p.len = ahead
      /\ p.coin <=> isBC /\ ahead >= MinCoin /\ ahead <= MaxCoin
  <2>1. PICK c : c = (isBC /\ ahead >= MinCoin /\ ahead <= MaxCoin)
    OBVIOUS
  <2>2. c \in BOOLEAN
    BY <2>1
  <2>3. p = [from |-> scanned, len |-> ahead, coin |-> c]
    BY <1>1, <2>1
  <2>4. scanned \in Nat /\ ahead \in Nat \ {0}
    BY <1>2, <1>3
  <2>5. p \in Piece /\ p.from = scanned /\ p.len = ahead /\ p.coin = c
    BY <2>2, <2>3, <2>4 DEF Piece
  <2> QED
    BY <2>1, <2>5
<1>5. /\ ByteAt(scanned) = Seven /\ (scanned > 0 => ByteAt(scanned - 1) = Space)
      /\ \A k \in (scanned + 1)..(scanned + ahead - 1) : ByteAt(k) \in Alnum
      /\ ~isBC => /\ scanned + ahead < Len(message)
                  /\ ByteAt(scanned + ahead) \notin Alnum \cup {Space}
  BY <1>2 DEF CoinInv, SeenAhead, StartsCoin
<1>6. ASSUME NEW k \in scanned..(scanned + ahead - 1)
      PROVE  ByteAt(k) \in Alnum /\ ByteAt(k) # Space
  <2>1. k = scanned \/ k \in (scanned + 1)..(scanned + ahead - 1)
    BY <1>3
  <2> QED
    BY <1>5, <2>1, AlnumAssumption
<1>7. ASSUME p.coin PROVE IsAddress(scanned, scanned + ahead)
  <2>1. scanned = 0 \/ ByteAt(scanned - 1) = Space
    BY <1>3, <1>5
  <2>2. scanned + ahead = Len(message) \/ ByteAt(scanned + ahead) = Space
    BY <1>2, <1>3, <1>4, <1>7 DEF WordEnds
  <2>3. (scanned + ahead) - scanned = ahead
    BY <1>3
  <2>4. \A k \in scanned..((scanned + ahead) - 1) : ByteAt(k) \in Alnum /\ ByteAt(k) # Space
    <3>1. scanned + ahead - 1 = (scanned + ahead) - 1
      BY <1>3
    <3> QED
      BY <1>6, <3>1
  <2>5. IsWord(scanned, scanned + ahead)
    BY <2>1, <2>2, <2>4, Zenon DEF IsWord
  <2>6. ahead >= MinCoin /\ ahead <= MaxCoin
    BY <1>4, <1>7
  <2> QED
    BY <1>5, <2>3, <2>4, <2>5, <2>6, Zenon DEF IsAddress
<1>8. ASSUME NEW a \in 0..Len(message), NEW b \in 0..Len(message),
             a < b, IsAddress(a, b), scanned <= a, a < scanned + ahead
      PROVE  a = scanned /\ b = scanned + ahead /\ p.coin
  <2>1. /\ a = 0 \/ ByteAt(a - 1) = Space
        /\ b = Len(message) \/ ByteAt(b) = Space
        /\ b - a >= MinCoin /\ b - a <= MaxCoin
        /\ \A k \in a..(b - 1) : ByteAt(k) \in Alnum /\ ByteAt(k) # Space
    BY <1>8 DEF IsAddress, IsWord
  <2>2. a \in Nat /\ b \in Nat /\ a < b
    BY <1>8
  <2>3. a = scanned
    <3>1. SUFFICES ASSUME a # scanned PROVE FALSE
      OBVIOUS
    <3>2. a # 0 /\ a - 1 \in scanned..(scanned + ahead - 1)
      BY <1>3, <1>8, <2>2, <3>1
    <3> QED
      BY <1>6, <2>1, <3>2
  <2>4. ~(b < scanned + ahead)
    <3>1. SUFFICES ASSUME b < scanned + ahead PROVE FALSE
      OBVIOUS
    <3>2. b \in scanned..(scanned + ahead - 1) /\ b # Len(message)
      BY <1>3, <2>2, <2>3, <3>1
    <3> QED
      BY <1>6, <2>1, <3>2
  <2>5. ~(b > scanned + ahead)
    <3>1. SUFFICES ASSUME b > scanned + ahead PROVE FALSE
      OBVIOUS
    <3>2. scanned + ahead \in a..(b - 1) /\ scanned + ahead < Len(message)
      BY <1>3, <2>2, <2>3, <3>1
    <3>3. ByteAt(scanned + ahead) \in Alnum /\ ByteAt(scanned + ahead) # Space
      BY <2>1, <3>2
    <3> QED
      BY <1>2, <1>5, <3>2, <3>3 DEF WordEnds
  <2>6. b = scanned + ahead /\ b - a = ahead
    BY <1>3, <2>2, <2>3, <2>4, <2>5
  <2>7. isBC
    <3>1. SUFFICES ASSUME ~isBC PROVE FALSE
      OBVIOUS
    <3>2. b < Len(message) /\ ByteAt(b) # Space
      BY <1>5, <2>6, <3>1
    <3> QED
      BY <1>3, <2>1, <2>2, <3>2
  <2> QED
    BY <1>4, <2>1, <2>3, <2>6, <2>7
<1>9. res' \in Seq(Piece) /\ PiecesMeet' /\ CoinsAreAddresses' /\ AddressesAreCoins'
  BY <1>2, <1>4, <1>7, <1>8, PieceKeeps
<1>10. CoinTypeOK' /\ SeenAhead'
  BY <1>2, <1>3, <1>9 DEF CoinTypeOK, SeenAhead
<1> QED
  BY <1>9, <1>10 DEF CoinInv

\* Every turn of the two loops keeps the invariant.
LEMMA CoinStep == CoinInv /\ [CoinNext]_coinVars => CoinInv'
<1> SUFFICES ASSUME CoinInv, [CoinNext]_coinVars PROVE CoinInv'
  OBVIOUS
<1>1. CASE UNCHANGED coinVars
  <2>1. message' = message /\ scanned' = scanned /\ ahead' = ahead /\ isBC' = isBC /\ res' = res
    BY <1>1 DEF coinVars
  <2>2. CoinTypeOK' /\ PiecesMeet'
    BY <2>1 DEF CoinInv, CoinTypeOK, PiecesMeet, EndOf
  <2>3. SeenAhead'
    BY <2>1, Zenon DEF CoinInv, SeenAhead, StartsCoin, ByteAt
  <2>4. CoinsAreAddresses' /\ AddressesAreCoins'
    BY <2>1 DEF CoinInv, CoinsAreAddresses, AddressesAreCoins, AddressDone, EndOf, IsAddress,
       IsWord, ByteAt
  <2> QED
    BY <2>2, <2>3, <2>4 DEF CoinInv
<1>2. CASE CoinNext
  BY <1>2, CallKeeps, CopyKeeps, LookKeeps, TakeKeeps DEF CoinNext
<1> QED
  BY <1>1, <1>2

\* The scan for addresses replaces exactly the words that are addresses, for
\* messages of any length and any bounds on the length of an address: it never
\* takes a part of a word for one, never runs past one, and keeps every byte.
THEOREM CoinsExact == CoinSpec => []CoinsReplaced
<1>1. CoinInv /\ [CoinNext]_coinVars => CoinInv'
  BY CoinStep
<1> QED
  BY CoinStart, InvCoinsReplaced, <1>1, PTL DEF CoinSpec

----------------------------------------------------------------------------
(* The bursts of an LRCP session *)

\* The numbers of the burst are in their ranges: what is left of the line ends
\* at a position that is a number of the protocol.
BurstTypeOK ==
  /\ rest \in Seq(LineBytes) /\ sessionNumber \in 0..MaxPos /\ startPos \in 0..MaxPos
  /\ startPos + Len(rest) <= MaxPos /\ burstPos \in 0..Len(rest)
  /\ making \in {"next", "cut", "pack"}
  /\ dataLen \in Nat /\ packed \in Nat /\ written \in Nat
  /\ datagrams \in Seq(Datagram)

\* The message that is cut has a byte, and none beyond the line.
CutIsWithin == making = "cut" => dataLen \in 1..(Len(rest) - burstPos)

\* What Marshal writes before the data.
HeaderSize(from) == 6 + Digits(sessionNumber) + 1 + Digits(startPos + from) + 1

\* The message that is packed was found to fit, and what is written of it is
\* the header and the bytes up to the one to pack, with their escapes.
PackIsWithin ==
  IF making = "pack"
  THEN /\ dataLen \in 1..burstPos /\ packed \in 0..dataLen
       /\ MarshalSize(From, dataLen) <= MTU
       /\ written = HeaderSize(From) + (packed + Escapes(From, packed))
  ELSE written = 0

\* The datagrams of the burst meet, are not empty and fit.
DatagramsFit ==
  \A k \in DOMAIN datagrams : /\ datagrams[k].from = SentUpTo(k - 1)
                              /\ datagrams[k].len > 0
                              /\ datagrams[k].size <= MTU

\* The next message starts where the last datagram ended.
NextIsBehind == (IF making = "pack" THEN From ELSE burstPos) = SentUpTo(Len(datagrams))

\* The inductive invariant.
BurstInv == BurstTypeOK /\ CutIsWithin /\ PackIsWithin /\ DatagramsFit /\ NextIsBehind

\* A set of numbers that is not empty has a smallest one.
LEMMA LeastExists ==
  ASSUME NEW S, S \subseteq Nat, S # {}
  PROVE  \E n \in S : \A m \in S : n <= m
<1> DEFINE R == {p \in Nat \X Nat : p[1] < p[2]}
<1>1. IsWellFoundedOn(R, Nat)
  BY NatLessThanWellFounded, Zenon DEF OpToRel
<1>2. \A x, y \in Nat : <<y, x>> \in R <=> y < x
  OBVIOUS
<1> HIDE DEF R
<1>3. PICK n \in S : \A m \in S : ~(<<m, n>> \in R)
  BY <1>1, WFMin
<1>4. ASSUME NEW m \in S PROVE n <= m
  <2>1. m \in Nat /\ n \in Nat
    OBVIOUS
  <2>2. ~(m < n)
    BY <1>2, <1>3, <2>1, Zenon
  <2> QED
    BY <2>1, <2>2
<1> QED
  BY <1>4

\* A number of the protocol has between one and MaxDigits digits.
LEMMA DigitsBounded ==
  ASSUME NEW v \in 0..MaxPos
  PROVE  Digits(v) \in 1..MaxDigits
<1> DEFINE Below(d) == v < 10^d
           S == {d \in 1..MaxDigits : Below(d)}
<1>1. MaxDigits \in Nat \ {0} /\ Below(MaxDigits)
  BY DigitsAssumption
<1>2. Digits(v) = CHOOSE d \in 1..MaxDigits : Below(d) /\ \A e \in 1..(d - 1) : ~Below(e)
  BY DEF Digits
<1> HIDE DEF Below
<1>3. S \subseteq Nat /\ MaxDigits \in S
  BY <1>1
<1>4. PICK n \in S : \A m \in S : n <= m
  BY <1>3, LeastExists
<1>5. n \in 1..MaxDigits /\ Below(n)
  BY <1>4
<1>6. ASSUME NEW e \in 1..(n - 1) PROVE ~Below(e)
  <2>1. e \in 1..MaxDigits /\ ~(n <= e)
    BY <1>1, <1>5
  <2> QED
    BY <1>4, <2>1
<1>7. \E d \in 1..MaxDigits : Below(d) /\ \A e \in 1..(d - 1) : ~Below(e)
  BY <1>5, <1>6
<1> QED
  BY <1>2, <1>7, Zenon

\* The escapes of a piece of the line: none in the empty piece, and a byte adds
\* one when it is special.
LEMMA EscapesGrow ==
  ASSUME NEW f \in Nat, NEW n \in Nat
  PROVE  /\ Escapes(f, n) \in Nat
         /\ Escapes(f, 0) = 0
         /\ Escapes(f, n + 1) = Escapes(f, n) + (IF rest[f + n + 1] \in Specials THEN 1 ELSE 0)
<1> DEFINE E(m) == {k \in 1..m : rest[f + k] \in Specials}
<1>1. \A m \in Nat : IsFiniteSet(E(m))
  <2>1. ASSUME NEW m \in Nat PROVE IsFiniteSet(E(m))
    <3>1. IsFiniteSet(1..m)
      BY FS_Interval
    <3>2. E(m) \in SUBSET (1..m)
      OBVIOUS
    <3> HIDE DEF E
    <3> QED
      BY <3>1, <3>2, FS_Subset
  <2> QED
    BY <2>1
<1>2. \A m : Escapes(f, m) = Cardinality(E(m))
  BY Zenon DEF Escapes
<1>3. Escapes(f, n) \in Nat
  <2> HIDE DEF E
  <2> QED
    BY <1>1, <1>2, FS_CardinalityType
<1>4. Escapes(f, 0) = 0
  <2>1. E(0) = {}
    OBVIOUS
  <2> QED
    BY <1>2, <2>1, FS_EmptySet, Zenon
<1>5. f + n + 1 = f + (n + 1)
  OBVIOUS
<1>6. CASE rest[f + n + 1] \in Specials
  <2>1. E(n + 1) = E(n) \cup {n + 1} /\ n + 1 \notin E(n)
    BY <1>5, <1>6
  <2> HIDE DEF E
  <2>2. Cardinality(E(n + 1)) = Cardinality(E(n)) + 1
    BY <1>1, <2>1, FS_AddElement
  <2> QED
    BY <1>2, <1>3, <1>4, <1>6, <2>2
<1>7. CASE rest[f + n + 1] \notin Specials
  <2>1. E(n + 1) = E(n)
    BY <1>5, <1>7
  <2> HIDE DEF E
  <2> QED
    BY <1>2, <1>3, <1>4, <1>7, <2>1
<1> QED
  BY <1>6, <1>7

\* A shorter piece has no more escapes.
LEMMA EscapesMonotone ==
  ASSUME NEW f \in Nat, NEW m \in Nat, NEW n \in Nat, m <= n
  PROVE  Escapes(f, m) <= Escapes(f, n)
<1> DEFINE E(k) == {i \in 1..k : rest[f + i] \in Specials}
<1>1. \A k : Escapes(f, k) = Cardinality(E(k))
  BY Zenon DEF Escapes
<1>2. E(m) \in SUBSET E(n) /\ E(n) \in SUBSET (1..n)
  OBVIOUS
<1> HIDE DEF E
<1>3. IsFiniteSet(E(n))
  BY <1>2, FS_Interval, FS_Subset
<1>4. Cardinality(E(m)) <= Cardinality(E(n))
  BY <1>2, <1>3, FS_Subset
<1> QED
  BY <1>1, <1>4

\* The header of a message: its numbers have at most MaxDigits digits.
LEMMA HeaderBounded ==
  ASSUME BurstTypeOK, NEW f \in 0..Len(rest)
  PROVE  /\ Digits(sessionNumber) \in 1..MaxDigits /\ Digits(startPos + f) \in 1..MaxDigits
         /\ HeaderSize(f) \in Nat
         /\ \A n \in Nat : MarshalSize(f, n) = HeaderSize(f) + (n + Escapes(f, n)) + 4
<1>1. sessionNumber \in 0..MaxPos /\ startPos + f \in 0..MaxPos
  BY DigitsAssumption DEF BurstTypeOK
<1>2. Digits(sessionNumber) \in 1..MaxDigits /\ Digits(startPos + f) \in 1..MaxDigits
  BY <1>1, DigitsBounded
<1>3. f \in Nat
  BY DEF BurstTypeOK
<1>4. ASSUME NEW n \in Nat
      PROVE  MarshalSize(f, n) = HeaderSize(f) + (n + Escapes(f, n)) + 4
  <2>1. Escapes(f, n) \in Nat
    BY <1>3, EscapesGrow
  <2>2. Digits(sessionNumber) \in Nat /\ Digits(startPos + f) \in Nat
    BY <1>2
  <2>3. \A a, b, e \in Nat : 9 + a + 1 + b + 1 + (n + e) + 1 = (6 + a + 1 + b + 1) + (n + e) + 4
    OBVIOUS
  <2> QED
    BY <2>1, <2>2, <2>3, Zenon DEF MarshalSize, HeaderSize
<1>5. HeaderSize(f) \in Nat
  BY <1>2, DigitsAssumption DEF HeaderSize
<1> QED
  BY <1>2, <1>4, <1>5

\* A message of one byte fits, whatever the byte and the numbers.
LEMMA OneByteFits ==
  ASSUME BurstTypeOK, NEW f \in 0..Len(rest)
  PROVE  MarshalSize(f, 1) <= MTU
<1>1. f \in Nat
  BY DEF BurstTypeOK
<1>2. Escapes(f, 1) \in {0, 1}
  <2>1. /\ Escapes(f, 0) = 0
        /\ Escapes(f, 0 + 1) =
             Escapes(f, 0) + (IF rest[f + 0 + 1] \in Specials THEN 1 ELSE 0)
    BY <1>1, EscapesGrow, 0 \in Nat, Zenon
  <2> QED
    BY <2>1
<1>3. Digits(sessionNumber) \in 1..MaxDigits /\ Digits(startPos + f) \in 1..MaxDigits
  BY HeaderBounded
<1>4. MaxDigits \in Nat
  BY DigitsAssumption
<1>5. \A a, b \in 1..MaxDigits, e \in {0, 1} : 9 + a + 1 + b + 1 + (1 + e) + 1 <= MTU
  BY <1>4, MTUAssumption
<1> QED
  BY <1>2, <1>3, <1>5, Zenon DEF MarshalSize

\* The invariant gives the property.
LEMMA InvLrcpFits == BurstInv => LrcpFits
<1> SUFFICES ASSUME BurstInv PROVE LrcpFits
  OBVIOUS
<1>1. BurstTypeOK
  BY DEF BurstInv
<1>2. written <= MTU
  <2>1. CASE making = "pack"
    <3>1. /\ dataLen \in 1..burstPos /\ packed \in 0..dataLen
          /\ MarshalSize(From, dataLen) <= MTU
          /\ written = HeaderSize(From) + (packed + Escapes(From, packed))
      BY <2>1 DEF BurstInv, PackIsWithin
    <3>2. From \in 0..Len(rest) /\ From \in Nat /\ dataLen \in Nat /\ packed \in Nat
      BY <1>1, <3>1 DEF BurstTypeOK, From
    <3>3. Escapes(From, packed) <= Escapes(From, dataLen)
      BY <3>1, <3>2, EscapesMonotone
    <3>4. Escapes(From, packed) \in Nat /\ Escapes(From, dataLen) \in Nat
      BY <3>2, EscapesGrow
    <3>5. /\ HeaderSize(From) \in Nat
          /\ MarshalSize(From, dataLen) = HeaderSize(From) + (dataLen + Escapes(From, dataLen)) + 4
      BY <1>1, <3>2, HeaderBounded
    <3>6. packed <= dataLen
      BY <3>1, <3>2
    <3>7. \A h, p, e, n, x \in Nat :
            p <= n /\ e <= x /\ h + (n + x) + 4 <= MTU => h + (p + e) <= MTU
      BY MTUAssumption
    <3> QED
      BY <3>1, <3>2, <3>3, <3>4, <3>5, <3>6, <3>7, Zenon
  <2>2. CASE making # "pack"
    BY <2>2, MTUAssumption DEF BurstInv, PackIsWithin
  <2> QED
    BY <2>1, <2>2
<1>3. making # "next" => dataLen > 0
  BY DEF BurstInv, BurstTypeOK, CutIsWithin, PackIsWithin
<1> QED
  BY <1>2, <1>3 DEF BurstInv, DatagramsFit, NextIsBehind, LrcpFits

\* Nothing is left and nothing is sent.
LEMMA BurstStart == BurstInit => BurstInv
<1> SUFFICES ASSUME BurstInit PROVE BurstInv
  OBVIOUS
<1>1. BurstTypeOK
  BY DigitsAssumption DEF BurstInit, BurstTypeOK
<1>2. CutIsWithin /\ PackIsWithin /\ DatagramsFit /\ NextIsBehind
  BY DEF BurstInit, CutIsWithin, PackIsWithin, DatagramsFit, NextIsBehind, SentUpTo
<1> QED
  BY <1>1, <1>2 DEF BurstInv

\* A burst begins where nothing is left, so with no message under way.
LEMMA BurstKeeps ==
  ASSUME BurstInv, NEW s \in SessionNumbers, NEW n \in Starts, NEW d \in Rests, Burst(s, n, d)
  PROVE  BurstInv'
<1>1. BurstTypeOK
  BY DEF BurstInv
<1>2. burstPos = 0 /\ making = "next"
  <2>1. Len(rest) = 0 /\ burstPos = 0
    BY <1>1 DEF Burst, BurstTypeOK
  <2>2. making # "cut"
    BY <2>1 DEF BurstInv, CutIsWithin
  <2>3. making # "pack"
    BY <2>1 DEF BurstInv, PackIsWithin
  <2> QED
    BY <1>1, <2>1, <2>2, <2>3 DEF BurstTypeOK
<1>3. s \in 0..MaxPos /\ n \in 0..MaxPos /\ n + Len(d) <= MaxPos /\ d \in Seq(LineBytes)
  BY StartsAssumption, RestsAssumption
<1>4. BurstTypeOK'
  BY <1>1, <1>2, <1>3 DEF Burst, BurstTypeOK
<1>5. CutIsWithin' /\ PackIsWithin'
  BY <1>2 DEF BurstInv, Burst, CutIsWithin, PackIsWithin
<1>6. DatagramsFit' /\ NextIsBehind'
  BY <1>2 DEF BurstInv, Burst, DatagramsFit, NextIsBehind, SentUpTo
<1> QED
  BY <1>4, <1>5, <1>6 DEF BurstInv

\* A message starts with all that is left.
LEMMA NewMessageKeeps ==
  ASSUME BurstInv, NewMessage
  PROVE  BurstInv'
<1>1. BurstTypeOK' /\ CutIsWithin'
  BY DEF BurstInv, NewMessage, BurstTypeOK, CutIsWithin
<1>2. PackIsWithin'
  BY DEF BurstInv, NewMessage, PackIsWithin
<1>3. DatagramsFit' /\ NextIsBehind'
  BY DEF BurstInv, NewMessage, DatagramsFit, NextIsBehind, SentUpTo
<1> QED
  BY <1>1, <1>2, <1>3 DEF BurstInv

\* Slicing leaves a byte: a message of one byte fits, and of two bytes or more
\* nine tenths are one at least.
LEMMA SliceKeeps ==
  ASSUME BurstInv, Slice
  PROVE  BurstInv'
<1>1. BurstTypeOK /\ making = "cut" /\ dataLen \in 1..(Len(rest) - burstPos)
  BY DEF BurstInv, Slice, CutIsWithin
<1>2. burstPos \in 0..Len(rest) /\ Len(rest) \in Nat /\ dataLen \in Nat
  BY <1>1 DEF BurstTypeOK
<1>3. dataLen # 1
  <2>1. SUFFICES ASSUME dataLen = 1 PROVE FALSE
    OBVIOUS
  <2>2. MarshalSize(burstPos, 1) > MTU
    BY <2>1, Zenon DEF Slice
  <2>3. MarshalSize(burstPos, 1) <= MTU
    BY <1>1, <1>2, OneByteFits
  <2>4. MarshalSize(burstPos, 1) \in Nat
    <3>1. /\ HeaderSize(burstPos) \in Nat
          /\ MarshalSize(burstPos, 1) = HeaderSize(burstPos) + (1 + Escapes(burstPos, 1)) + 4
      BY <1>1, <1>2, HeaderBounded
    <3>2. Escapes(burstPos, 1) \in Nat
      BY <1>2, EscapesGrow
    <3> QED
      BY <3>1, <3>2
  <2> QED
    BY <2>2, <2>3, <2>4, MTUAssumption
<1>4. MTU \in Nat /\ MTU >= 1
  BY MTUAssumption, DigitsAssumption
<1>5. dataLen' \in 1..(Len(rest) - burstPos)
  <2>1. dataLen' = IF MTU < (dataLen * 9) \div 10 THEN MTU ELSE (dataLen * 9) \div 10
    BY DEF Slice
  <2>2. (dataLen * 9) \div 10 \in 1..dataLen
    BY <1>1, <1>2, <1>3
  <2> QED
    BY <1>1, <1>2, <1>4, <2>1, <2>2
<1>6. BurstTypeOK' /\ CutIsWithin'
  BY <1>1, <1>2, <1>5 DEF Slice, BurstTypeOK, CutIsWithin
<1>7. PackIsWithin'
  BY <1>1 DEF BurstInv, Slice, PackIsWithin
<1>8. DatagramsFit' /\ NextIsBehind'
  BY DEF BurstInv, Slice, DatagramsFit, NextIsBehind, SentUpTo
<1> QED
  BY <1>6, <1>7, <1>8 DEF BurstInv

\* The message that is packed is the one that was cut.
LEMMA DispatchKeeps ==
  ASSUME BurstInv, Dispatch
  PROVE  BurstInv'
<1>1. BurstTypeOK /\ making = "cut" /\ dataLen \in 1..(Len(rest) - burstPos)
  BY DEF BurstInv, Dispatch, CutIsWithin
<1>2. burstPos \in 0..Len(rest) /\ Len(rest) \in Nat /\ dataLen \in Nat /\ burstPos \in Nat
  BY <1>1 DEF BurstTypeOK
<1>3. From' = burstPos
  BY <1>2 DEF Dispatch, From
<1>4. Digits(sessionNumber) \in Nat /\ Digits(startPos + burstPos) \in Nat
      /\ HeaderSize(burstPos) \in Nat
  BY <1>1, <1>2, HeaderBounded
<1>5. written' = HeaderSize(burstPos)
  BY DEF Dispatch, HeaderSize
<1>6. BurstTypeOK'
  BY <1>1, <1>2, <1>4, <1>5 DEF Dispatch, BurstTypeOK
<1>7. CutIsWithin'
  BY DEF Dispatch, CutIsWithin
<1>8. PackIsWithin'
  <2>1. /\ making' = "pack" /\ dataLen' = dataLen /\ packed' = 0
        /\ burstPos' = burstPos + dataLen
        /\ rest' = rest /\ sessionNumber' = sessionNumber /\ startPos' = startPos
    BY DEF Dispatch
  <2>2. MarshalSize(From, dataLen)' = MarshalSize(burstPos, dataLen)
    BY <1>3, <2>1, Zenon DEF MarshalSize, Escapes
  <2>3. HeaderSize(From)' = HeaderSize(burstPos)
    BY <1>3, <2>1, Zenon DEF HeaderSize
  <2>4. Escapes(From, packed)' = Escapes(burstPos, 0)
    BY <1>3, <2>1, Zenon DEF Escapes
  <2>5. Escapes(burstPos, 0) = 0
    BY <1>2, EscapesGrow
  <2>6. written' = HeaderSize(From)' + (packed' + Escapes(From, packed)')
    BY <1>4, <1>5, <2>1, <2>3, <2>4, <2>5
  <2>7. MarshalSize(From, dataLen)' <= MTU
    BY <2>2 DEF Dispatch
  <2>8. dataLen' \in 1..burstPos' /\ packed' \in 0..dataLen'
    BY <1>1, <1>2, <2>1
  <2> QED
    BY <2>1, <2>6, <2>7, <2>8, Zenon DEF PackIsWithin
<1>9. DatagramsFit'
  BY DEF BurstInv, Dispatch, DatagramsFit, SentUpTo
<1>10. NextIsBehind'
  BY <1>1, <1>3 DEF BurstInv, Dispatch, NextIsBehind, SentUpTo
<1> QED
  BY <1>6, <1>7, <1>8, <1>9, <1>10 DEF BurstInv

\* A byte is packed with its escape.
LEMMA PackByteKeeps ==
  ASSUME BurstInv, PackByte
  PROVE  BurstInv'
<1>1. /\ BurstTypeOK /\ making = "pack" /\ packed < dataLen
      /\ dataLen \in 1..burstPos /\ packed \in 0..dataLen
      /\ MarshalSize(From, dataLen) <= MTU
      /\ written = HeaderSize(From) + (packed + Escapes(From, packed))
  BY DEF BurstInv, PackByte, PackIsWithin
<1>2. burstPos \in 0..Len(rest) /\ Len(rest) \in Nat /\ dataLen \in Nat /\ packed \in Nat
      /\ written \in Nat
  BY <1>1 DEF BurstTypeOK
<1>3. From \in Nat /\ From \in 0..Len(rest)
  BY <1>1, <1>2 DEF From
<1>4. /\ rest' = rest /\ sessionNumber' = sessionNumber /\ startPos' = startPos
      /\ burstPos' = burstPos /\ making' = making /\ dataLen' = dataLen
      /\ datagrams' = datagrams /\ packed' = packed + 1
      /\ written' = written + (IF rest[From + packed + 1] \in Specials THEN 2 ELSE 1)
  BY DEF PackByte
<1>5. From' = From
  BY <1>4 DEF From
<1>6. BurstTypeOK'
  <2>1. written' \in Nat /\ packed' \in Nat
    BY <1>2, <1>4
  <2> QED
    BY <1>1, <1>4, <2>1, Zenon DEF BurstTypeOK
<1>7. CutIsWithin'
  BY <1>1, <1>4 DEF CutIsWithin
<1>8. PackIsWithin'
  <2>1. MarshalSize(From, dataLen)' = MarshalSize(From, dataLen)
    BY <1>4, <1>5, Zenon DEF MarshalSize, Escapes
  <2>2. HeaderSize(From)' = HeaderSize(From)
    BY <1>4, <1>5, Zenon DEF HeaderSize
  <2>3. Escapes(From, packed)' = Escapes(From, packed + 1)
    BY <1>4, <1>5, Zenon DEF Escapes
  <2>4. /\ Escapes(From, packed) \in Nat
        /\ Escapes(From, packed + 1) =
             Escapes(From, packed) + (IF rest[From + packed + 1] \in Specials THEN 1 ELSE 0)
    BY <1>2, <1>3, EscapesGrow
  <2>5. HeaderSize(From) \in Nat
    BY <1>1, <1>3, HeaderBounded
  <2>6. /\ \A h, p, e \in Nat : (h + (p + e)) + 2 = h + ((p + 1) + (e + 1))
        /\ \A h, p, e \in Nat : (h + (p + e)) + 1 = h + ((p + 1) + (e + 0))
    OBVIOUS
  <2>7. HeaderSize(From) \in Nat /\ packed \in Nat /\ Escapes(From, packed) \in Nat
    BY <1>2, <2>4, <2>5, Zenon
  <2>8. written' = HeaderSize(From) + ((packed + 1) + Escapes(From, packed + 1))
    <3>1. CASE rest[From + packed + 1] \in Specials
      <4>1. written' = written + 2 /\ Escapes(From, packed + 1) = Escapes(From, packed) + 1
        BY <1>4, <2>4, <3>1, Zenon
      <4>2. written + 2 = (HeaderSize(From) + (packed + Escapes(From, packed))) + 2
        BY <1>1, Zenon
      <4>3. (HeaderSize(From) + (packed + Escapes(From, packed))) + 2 =
              HeaderSize(From) + ((packed + 1) + (Escapes(From, packed) + 1))
        BY <2>6, <2>7, Zenon
      <4> QED
        BY <4>1, <4>2, <4>3, Zenon
    <3>2. CASE rest[From + packed + 1] \notin Specials
      <4>1. written' = written + 1 /\ Escapes(From, packed + 1) = Escapes(From, packed) + 0
        BY <1>4, <2>4, <3>2, Zenon
      <4>2. written + 1 = (HeaderSize(From) + (packed + Escapes(From, packed))) + 1
        BY <1>1, Zenon
      <4>3. (HeaderSize(From) + (packed + Escapes(From, packed))) + 1 =
              HeaderSize(From) + ((packed + 1) + (Escapes(From, packed) + 0))
        BY <2>6, <2>7, Zenon
      <4> QED
        BY <4>1, <4>2, <4>3, Zenon
    <3> QED
      BY <3>1, <3>2
  <2>9. packed + 1 \in 0..dataLen
    BY <1>1, <1>2
  <2> QED
    BY <1>1, <1>4, <1>5, <2>1, <2>2, <2>3, <2>8, <2>9, Zenon DEF PackIsWithin
<1>9. DatagramsFit'
  BY <1>4, Zenon DEF BurstInv, DatagramsFit, SentUpTo
<1>10. NextIsBehind'
  BY <1>4, <1>5, Zenon DEF BurstInv, NextIsBehind, SentUpTo
<1> QED
  BY <1>6, <1>7, <1>8, <1>9, <1>10 DEF BurstInv

\* The datagram that goes out starts where the one before ended, and is one
\* byte longer than what was written of it.
LEMMA PackEndsKeeps ==
  ASSUME BurstInv, PackEnds
  PROVE  BurstInv'
<1>1. /\ BurstTypeOK /\ making = "pack" /\ packed = dataLen
      /\ dataLen \in 1..burstPos
      /\ MarshalSize(From, dataLen) <= MTU
      /\ written = HeaderSize(From) + (dataLen + Escapes(From, dataLen))
  BY DEF BurstInv, PackEnds, PackIsWithin
<1>2. burstPos \in 0..Len(rest) /\ Len(rest) \in Nat /\ dataLen \in Nat
      /\ written \in Nat /\ datagrams \in Seq(Datagram) /\ Len(datagrams) \in Nat
  BY <1>1 DEF BurstTypeOK
<1>3. From \in Nat /\ From \in 0..Len(rest) /\ From + dataLen = burstPos
  BY <1>1, <1>2 DEF From
<1>4. written + 1 <= MTU
  <2>1. /\ HeaderSize(From) \in Nat
        /\ MarshalSize(From, dataLen) = HeaderSize(From) + (dataLen + Escapes(From, dataLen)) + 4
    BY <1>1, <1>2, <1>3, HeaderBounded
  <2>2. Escapes(From, dataLen) \in Nat
    BY <1>2, <1>3, EscapesGrow
  <2>3. \A h, n, x \in Nat : h + (n + x) + 4 <= MTU => (h + (n + x)) + 1 <= MTU
    BY MTUAssumption
  <2> QED
    BY <1>1, <1>2, <2>1, <2>2, <2>3, Zenon
<1> DEFINE g == [from |-> From, len |-> dataLen, size |-> written + 1]
<1>5. g \in Datagram /\ g.from = From /\ g.len = dataLen /\ g.size = written + 1
  BY <1>2, <1>3 DEF Datagram
<1>6. /\ datagrams' = Append(datagrams, g) /\ making' = "next" /\ written' = 0
      /\ rest' = rest /\ sessionNumber' = sessionNumber /\ startPos' = startPos
      /\ burstPos' = burstPos /\ dataLen' = 0 /\ packed' = 0
  BY DEF PackEnds
<1> HIDE DEF g
<1>7. /\ datagrams' \in Seq(Datagram) /\ Len(datagrams') = Len(datagrams) + 1
      /\ datagrams'[Len(datagrams) + 1] = g
      /\ \A k \in 1..Len(datagrams) : datagrams'[k] = datagrams[k]
      /\ DOMAIN datagrams' = 1..(Len(datagrams) + 1) /\ DOMAIN datagrams = 1..Len(datagrams)
  BY <1>2, <1>5, <1>6, AppendProperties
<1>8. BurstTypeOK'
  BY <1>1, <1>6, <1>7 DEF BurstTypeOK
<1>9. CutIsWithin' /\ PackIsWithin'
  BY <1>6 DEF CutIsWithin, PackIsWithin
<1>10. From = SentUpTo(Len(datagrams))
  BY <1>1 DEF BurstInv, NextIsBehind
<1>11. \A k \in 0..Len(datagrams) : SentUpTo(k)' = SentUpTo(k)
  BY <1>2, <1>7 DEF SentUpTo
<1>12. DatagramsFit'
  <2>1. SUFFICES ASSUME NEW k \in 1..(Len(datagrams) + 1)
                 PROVE  /\ datagrams'[k].from = SentUpTo(k - 1)'
                        /\ datagrams'[k].len > 0 /\ datagrams'[k].size <= MTU
    BY <1>7 DEF DatagramsFit
  <2>2. k - 1 \in 0..Len(datagrams) /\ SentUpTo(k - 1)' = SentUpTo(k - 1)
    BY <1>2, <1>11
  <2>3. CASE k \in 1..Len(datagrams)
    BY <1>7, <2>2, <2>3 DEF BurstInv, DatagramsFit
  <2>4. CASE k = Len(datagrams) + 1
    <3>1. k - 1 = Len(datagrams) /\ dataLen > 0
      BY <1>1, <1>2, <2>4
    <3> QED
      BY <1>4, <1>5, <1>7, <1>10, <2>2, <2>4, <3>1
  <2> QED
    BY <1>2, <2>3, <2>4
<1>13. NextIsBehind'
  <2>1. SentUpTo(Len(datagrams))' = From + dataLen
    <3>1. Len(datagrams)' # 0
      BY <1>2, <1>7
    <3>2. datagrams'[Len(datagrams)'] = g
      BY <1>7
    <3> QED
      BY <1>5, <3>1, <3>2 DEF SentUpTo
  <2> QED
    BY <1>3, <1>6, <2>1 DEF NextIsBehind
<1> QED
  BY <1>8, <1>9, <1>12, <1>13 DEF BurstInv

\* Every turn of the three loops keeps the invariant.
LEMMA BurstStep == BurstInv /\ [BurstNext]_burstVars => BurstInv'
<1> SUFFICES ASSUME BurstInv, [BurstNext]_burstVars PROVE BurstInv'
  OBVIOUS
<1>1. CASE UNCHANGED burstVars
  <2>1. /\ rest' = rest /\ sessionNumber' = sessionNumber /\ startPos' = startPos
        /\ burstPos' = burstPos /\ making' = making /\ dataLen' = dataLen
        /\ packed' = packed /\ written' = written /\ datagrams' = datagrams
    BY <1>1 DEF burstVars
  <2>2. BurstTypeOK' /\ CutIsWithin'
    BY <2>1 DEF BurstInv, BurstTypeOK, CutIsWithin
  <2>3. PackIsWithin'
    BY <2>1, Zenon DEF BurstInv, PackIsWithin, HeaderSize, MarshalSize, Escapes, From
  <2>4. DatagramsFit' /\ NextIsBehind'
    BY <2>1, Zenon DEF BurstInv, DatagramsFit, NextIsBehind, SentUpTo, From
  <2> QED
    BY <2>2, <2>3, <2>4 DEF BurstInv
<1>2. CASE BurstNext
  BY <1>2, BurstKeeps, NewMessageKeeps, SliceKeeps, DispatchKeeps, PackByteKeeps,
     PackEndsKeeps DEF BurstNext
<1> QED
  BY <1>1, <1>2

\* A burst carries every byte of the line once and in order, in datagrams that
\* are not empty and fit the MTU: for lines of any length, any bytes to escape
\* and numbers of any size, as long as one escaped byte fits.
THEOREM BurstFitsMTU == BurstSpec => []LrcpFits
<1>1. BurstInv /\ [BurstNext]_burstVars => BurstInv'
  BY BurstStep
<1> QED
  BY BurstStart, InvLrcpFits, <1>1, PTL DEF BurstSpec
=============================================================================
