--------------------------- MODULE StreamServers ---------------------------
(***************************************************************************)
(* The TCP servers that copy or answer a stream: the echo server of        *)
(* 0-smoke-test, the request servers of 1-prime-time, 2-means-to-an-end    *)
(* and 8-insecure-sockets-layer, and the proxy of 5-mob-in-the-middle.     *)
(*                                                                         *)
(* All have an accept loop, a handler per connection and goroutines that   *)
(* take items from a source and put them into a sink, called pumps here:   *)
(*                                                                         *)
(*   smoke   in: client -> pipe, out: pipe -> client                       *)
(*   mob     cr: client -> cts, sw: cts -> upstream,                       *)
(*           sr: upstream -> stc, cw: stc -> client                        *)
(*   others  serve: client -> client, a request and its answer             *)
(*                                                                         *)
(* An item is a line, a request or what one Read returns.  cts, stc and    *)
(* pipe are io.Pipes: a write returns when the other end has read.  The    *)
(* connections share the context and the wait group of the server only, so *)
(* one connection stands for all of them.                                  *)
(***************************************************************************)
EXTENDS Naturals, Sequences

CONSTANTS MaxItems,  \* bound on the items of the peers of a program, by end
          Deafening  \* the ends whose peers may stop reading

Programs == {"smoke", "prime", "means", "isl", "mob"}
Ends == {"client", "upstream"}

Source == [in |-> "client", out |-> "pipe", serve |-> "client",
           cr |-> "client", sw |-> "cts", sr |-> "upstream", cw |-> "stc"]
Sink == [in |-> "pipe", out |-> "client", serve |-> "client",
         cr |-> "cts", sw |-> "upstream", sr |-> "stc", cw |-> "client"]
Pumps == DOMAIN Source

PumpsOf(g) == CASE g = "smoke" -> {"in", "out"}
                [] g = "mob"   -> {"cr", "sw", "sr", "cw"}
                [] OTHER       -> {"serve"}

VARIABLES
  program,    \* the running program, or "none"
  acceptor,   \* the accept loop: "off", "accepting", "ended"
  mainStep,   \* main: "off", "serving", "stopping" (wg.Wait), "exited"
  stopped,    \* the context of the server is done
  handler,    \* of the connection: "none", "dialing" (mob), "running", "done"
  connDone,   \* the connection's own context was cancelled; isl: it is over
  connCloser, \* the goroutine that closes on ctx.Done: "none", "waiting", "done"
  sock,       \* by end, our side of a connection: "none", "open", "closed"
  remote,     \* by end, the peer: "open", "half" (sends no more), "gone"
  deaf,       \* the ends whose peer does not read
  sentBy,     \* by end, how many items the peer has sent
  readFrom,   \* by end, how many of them were read
  pump,       \* per pump: "none", "read", "write", "writeLast" (prime), "done"
  item,       \* per pump: the item in hand
  pipeClosed, \* closed pipe ends, pairs of a pipe and "r" or "w"
  got         \* by end, history: the items that were written to the peer

mainVars == <<program, acceptor, mainStep, stopped>>
connVars == <<handler, connDone, connCloser, sock>>
remoteVars == <<remote, deaf, sentBy>>
pumpVars == <<readFrom, pump, item, pipeClosed, got>>
streamVars == <<mainVars, connVars, remoteVars, pumpVars>>

StreamInit ==
  /\ program = "none" /\ acceptor = "off" /\ mainStep = "off" /\ stopped = FALSE
  /\ handler = "none" /\ connDone = FALSE /\ connCloser = "none"
  /\ sock = [e \in Ends |-> "none"]
  /\ remote = [e \in Ends |-> "open"] /\ deaf = {}
  /\ sentBy = [e \in Ends |-> 0] /\ readFrom = [e \in Ends |-> 0]
  /\ pump = [p \in Pumps |-> "none"] /\ item = [p \in Pumps |-> 0]
  /\ pipeClosed = {}
  /\ got = [e \in Ends |-> <<>>]

ConnCtxDone == connDone \/ stopped

----------------------------------------------------------------------------
(* main and the accept loop *)

StartServer(g) ==
  /\ program = "none"
  /\ program' = g /\ acceptor' = "accepting" /\ mainStep' = "serving"
  /\ UNCHANGED <<stopped, connVars, remoteVars, pumpVars>>

\* The goroutines start together; only isl has none that closes the connection.
StartPumps ==
  /\ handler' = "running"
  /\ connCloser' = (IF program = "isl" THEN "none" ELSE "waiting")
  /\ pump' = [p \in Pumps |-> IF p \in PumpsOf(program) THEN "read" ELSE "none"]

\* Also in the moment between the end of the context and that of the listener.
AcceptConn ==
  /\ acceptor = "accepting" /\ handler = "none"
  /\ sock' = [sock EXCEPT !.client = "open"]
  /\ IF program = "mob" THEN handler' = "dialing" /\ UNCHANGED <<connCloser, pump>>
     ELSE StartPumps
  /\ UNCHANGED <<mainVars, connDone, remoteVars, readFrom, item, pipeClosed, got>>

\* mob: the connection to the chat server.
Dial ==
  /\ handler = "dialing"
  /\ sock' = [sock EXCEPT !.upstream = "open"]
  /\ StartPumps
  /\ UNCHANGED <<mainVars, connDone, remoteVars, readFrom, item, pipeClosed, got>>

DialFails ==
  /\ handler = "dialing"
  /\ handler' = "done" /\ connDone' = TRUE
  /\ sock' = [sock EXCEPT !.client = "closed"]
  /\ UNCHANGED <<mainVars, connCloser, remoteVars, pumpVars>>

\* An error of Accept while the listener is open: the loops go on, except for
\* the one of isl, whose Listen then waits until the server is stopped.
AcceptConnFails ==
  /\ acceptor = "accepting" /\ ~stopped /\ program = "isl"
  /\ acceptor' = "ended"
  /\ UNCHANGED <<program, mainStep, stopped, connVars, remoteVars, pumpVars>>

\* A signal: the context is cancelled and the listener closed.
Signal ==
  /\ mainStep = "serving"
  /\ mainStep' = "stopping" /\ stopped' = TRUE
  /\ UNCHANGED <<program, acceptor, connVars, remoteVars, pumpVars>>

AcceptorStops ==
  /\ acceptor = "accepting" /\ stopped
  /\ acceptor' = "ended"
  /\ UNCHANGED <<program, mainStep, stopped, connVars, remoteVars, pumpVars>>

MainExits ==
  /\ mainStep = "stopping" /\ acceptor = "ended" /\ handler \in {"none", "done"}
  /\ mainStep' = "exited"
  /\ UNCHANGED <<program, acceptor, stopped, connVars, remoteVars, pumpVars>>

----------------------------------------------------------------------------
(* The end of pumps and handlers *)

\* Mutant: no pump closes its pipe end.
NoPipeClosed(p) == {}

\* The pipe end that a pump closes when it ends; out does not close its end.
PipeEndOf(p) ==
  CASE p = "in"            -> {<<"pipe", "w">>}
    [] p \in {"cr", "sr"}  -> {<<Sink[p], "w">>}
    [] p \in {"sw", "cw"}  -> {<<Source[p], "r">>}
    [] OTHER               -> {}

\* The pumps that are the handler itself: their end closes the connection.
IsHandler(p) == p \in {"out", "serve"}

\* Mutant: the echo server's in cancels, too.
AllCancel(p) == TRUE

\* The pumps whose end cancels the context of the connection.
Cancels(p) == p # "in"

\* The deferred calls of a pump.
PumpEnds(p) ==
  /\ pump' = [pump EXCEPT ![p] = "done"]
  /\ item' = [item EXCEPT ![p] = 0]
  /\ pipeClosed' = pipeClosed \cup PipeEndOf(p)
  /\ connDone' = (connDone \/ Cancels(p))
  /\ IF IsHandler(p)
     THEN handler' = "done" /\ sock' = [sock EXCEPT !.client = "closed"]
     ELSE UNCHANGED <<handler, sock>>
  /\ UNCHANGED <<mainVars, connCloser, remoteVars, readFrom>>

\* mob: the handler waits for its four pumps.
HandlerReturns ==
  /\ program = "mob" /\ handler = "running"
  /\ \A p \in PumpsOf("mob") : pump[p] = "done"
  /\ handler' = "done" /\ connDone' = TRUE
  /\ sock' = [sock EXCEPT !.client = "closed"]
  /\ UNCHANGED <<mainVars, connCloser, remoteVars, pumpVars>>

\* Mutant: the goroutine waits for the context of the connection only.
CloserSees == connDone

CloserWakes == ConnCtxDone

CloseSocks ==
  /\ connCloser = "waiting" /\ CloserWakes
  /\ connCloser' = "done"
  /\ sock' = [e \in Ends |-> IF sock[e] = "open" THEN "closed" ELSE sock[e]]
  /\ UNCHANGED <<mainVars, handler, connDone, remoteVars, pumpVars>>

----------------------------------------------------------------------------
(* Reading and writing *)

\* What comes of item n: an answer after which it goes on ("reply") or ends
\* ("last"), no answer ("silent"), or an end without one ("fail").  The first
\* item of isl is the cipher spec.
Outcomes(p, n) ==
  CASE p # "serve"                  -> {"reply"}
    [] program = "prime"            -> {"reply", "last"}
    [] program = "means"            -> {"reply", "silent", "fail"}
    [] program = "isl" /\ n = 1     -> {"silent", "fail"}
    [] program = "isl"              -> {"reply"}

\* Mutant: every read gets a bufio.Reader of its own, which takes all that has
\* arrived and is dropped after one line.
ReadAheadLost(e, n) == sentBy[e]

\* Where the stream goes on after item n: what the one bufio.Reader of a
\* connection has read ahead is kept for the next read.
ReadUpTo(e, n) == n

PumpReads(p) ==
  LET e == Source[p]
      n == readFrom[e] + 1
  IN  /\ pump[p] = "read" /\ e \in Ends
      /\ sock[e] = "open" /\ n <= sentBy[e]
      /\ \E outcome \in Outcomes(p, n) \ {"fail"} :
           /\ pump' = [pump EXCEPT ![p] = CASE outcome = "reply"  -> "write"
                                            [] outcome = "last"   -> "writeLast"
                                            [] outcome = "silent" -> "read"]
           /\ item' = [item EXCEPT ![p] = IF outcome = "silent" THEN 0 ELSE n]
      /\ readFrom' = [readFrom EXCEPT ![e] = ReadUpTo(e, n)]
      /\ UNCHANGED <<mainVars, connVars, remoteVars, pipeClosed, got>>

\* The request is refused without an answer.
PumpRefuses(p) ==
  LET e == Source[p]
  IN  /\ pump[p] = "read" /\ e \in Ends
      /\ sock[e] = "open" /\ readFrom[e] < sentBy[e]
      /\ "fail" \in Outcomes(p, readFrom[e] + 1)
      /\ PumpEnds(p) /\ UNCHANGED got

\* mob: the head of the loop in forward.  A pump at "read" may be before this
\* check or in the read behind it, where it does not see the context.
PumpChecks(p) ==
  /\ program = "mob" /\ pump[p] = "read" /\ ConnCtxDone
  /\ PumpEnds(p) /\ UNCHANGED got

\* The source is at its end or closed.
PumpReadFails(p) ==
  /\ pump[p] = "read"
  /\ \/ /\ Source[p] \in Ends
        /\ \/ sock[Source[p]] = "closed"
           \/ remote[Source[p]] = "half" /\ readFrom[Source[p]] = sentBy[Source[p]]
           \/ remote[Source[p]] = "gone"
     \/ <<Source[p], "w">> \in pipeClosed
  /\ PumpEnds(p) /\ UNCHANGED got

CanWrite(e) ==
  e \in Ends /\ sock[e] = "open" /\ e \notin deaf /\ remote[e] # "gone"

PumpWrites(p) ==
  LET e == Sink[p]
  IN  /\ pump[p] = "write" /\ CanWrite(e)
      /\ got' = [got EXCEPT ![e] = Append(got[e], item[p])]
      /\ pump' = [pump EXCEPT ![p] = "read"]
      /\ item' = [item EXCEPT ![p] = 0]
      /\ UNCHANGED <<mainVars, connVars, remoteVars, readFrom, pipeClosed>>

\* prime: the answer to a bad request ends the connection.
PumpWritesLast(p) ==
  /\ pump[p] = "writeLast" /\ CanWrite(Sink[p])
  /\ got' = [got EXCEPT ![Sink[p]] = Append(got[Sink[p]], item[p])]
  /\ PumpEnds(p)

PumpWriteFails(p) ==
  /\ pump[p] \in {"write", "writeLast"}
  /\ \/ Sink[p] \in Ends /\ (sock[Sink[p]] = "closed" \/ remote[Sink[p]] = "gone")
     \/ <<Sink[p], "r">> \in pipeClosed
  /\ PumpEnds(p) /\ UNCHANGED got

\* A write into a pipe and the read at its other end.
PipePasses(p, q) ==
  /\ pump[p] = "write" /\ pump[q] = "read" /\ Sink[p] = Source[q] /\ Sink[p] \notin Ends
  /\ <<Source[q], "w">> \notin pipeClosed
  /\ pump' = [pump EXCEPT ![p] = "read", ![q] = "write"]
  /\ item' = [item EXCEPT ![p] = 0, ![q] = item[p]]
  /\ UNCHANGED <<mainVars, connVars, remoteVars, readFrom, pipeClosed, got>>

----------------------------------------------------------------------------
(* The peers *)

RemoteSends(e) ==
  /\ sock[e] = "open" /\ remote[e] = "open" /\ sentBy[e] < MaxItems[program][e]
  /\ sentBy' = [sentBy EXCEPT ![e] = @ + 1]
  /\ UNCHANGED <<mainVars, connVars, remote, deaf, pumpVars>>

\* A peer ends its stream, or closes the connection.
RemoteCloses(e, how) ==
  /\ sock[e] # "none"
  /\ remote[e] = "open" \/ (remote[e] = "half" /\ how = "gone")
  /\ remote' = [remote EXCEPT ![e] = how]
  /\ UNCHANGED <<mainVars, connVars, deaf, sentBy, pumpVars>>

RemoteStopsReading(e) ==
  /\ sock[e] # "none" /\ e \in Deafening \ deaf
  /\ deaf' = deaf \cup {e}
  /\ UNCHANGED <<mainVars, connVars, remote, sentBy, pumpVars>>

----------------------------------------------------------------------------
MainStep == AcceptorStops \/ MainExits
HandlerStep == Dial \/ DialFails \/ HandlerReturns
PumpStep(p) == \/ PumpReads(p) \/ PumpRefuses(p) \/ PumpReadFails(p)
               \/ PumpWrites(p) \/ PumpWritesLast(p) \/ PumpWriteFails(p)
               \/ \E q \in Pumps : PipePasses(p, q)

StreamNext ==
  \/ \E g \in Programs : StartServer(g)
  \/ AcceptConn \/ AcceptConnFails \/ Signal
  \/ MainStep \/ HandlerStep \/ CloseSocks
  \/ \E p \in Pumps : PumpStep(p) \/ PumpChecks(p)
  \/ \E e \in Ends :
       \/ RemoteSends(e) \/ RemoteStopsReading(e)
       \/ \E how \in {"half", "gone"} : RemoteCloses(e, how)

\* The pumps by what runs them: no program has two pumps of one row.
Rows == {{"in", "cr", "serve"}, {"out", "sw"}, {"sr"}, {"cw"}}

\* Go runs every goroutine that is not blocked, and a dial succeeds or fails.
\* Nothing is assumed of peers and signals, nor that forward's check comes late
\* enough to see the context.
StreamFairness ==
  /\ WF_streamVars(MainStep) /\ WF_streamVars(HandlerStep) /\ WF_streamVars(CloseSocks)
  /\ \A row \in Rows : WF_streamVars(\E p \in row : PumpStep(p))

StreamSpec == StreamInit /\ [][StreamNext]_streamVars /\ StreamFairness

----------------------------------------------------------------------------
(* Properties *)

\* A signalled server exits whatever its peers do, except for isl, which waits
\* for a peer that stays.
StopsUnlessPeerStays ==
  mainStep = "stopping" ~>
    mainStep = "exited" \/ (program = "isl" /\ handler = "running" /\ remote["client"] # "gone")

\* When the context of a connection is done all its goroutines end, but for the
\* echo server's in: nobody closes the pipe end that its write waits for.
GoroutinesEnd ==
  connDone ~>
    /\ handler = "done" /\ connCloser # "waiting"
    /\ \A p \in Pumps : pump[p] \in {"none", "done"}
                        \/ (p = "in" /\ pump[p] = "write" /\ pump["out"] = "done")

\* Whose items a peer at end e gets.
Origin(e) == IF program = "mob" /\ e = "client" THEN "upstream" ELSE "client"

\* However many items a peer sends at once and however reads, pipes, writes and
\* ends meet, items come out in order, and none that was not sent; the echo
\* server, the proxy and the prime server leave none out between two of them.
InOrder ==
  \A e \in Ends :
    IF program \in {"smoke", "mob", "prime"}
    THEN /\ Len(got[e]) <= sentBy[Origin(e)]
         /\ \A k \in DOMAIN got[e] : got[e][k] = k
    ELSE \A j, k \in DOMAIN got[e] : j < k => got[e][j] < got[e][k]

\* The echo server gives back all that a peer sent before it ended its stream,
\* unless the server stops or the peer does not read.
EchoComplete ==
  program = "smoke" /\ remote["client"] = "half" ~>
    \/ got["client"] = [k \in 1..sentBy["client"] |-> k]
    \/ stopped \/ "client" \in deaf \/ remote["client"] = "gone"
=============================================================================
