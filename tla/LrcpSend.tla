------------------------------ MODULE LrcpSend ------------------------------
(***************************************************************************)
(* The sending half of an LRCP session of 7-line-reversal/lrcp: the sender *)
(* goroutine of GetOrCreate, the ack and close messages of HandleIncoming, *)
(* and close/Remove.  A line is its length, newline included; a burst      *)
(* carries the bytes initLen+curPos+1 .. initLen+len(buf).                 *)
(*                                                                         *)
(* Every ack datagram has a goroutine, which updates lenTotalOutgoing      *)
(* under the lock and then waits, without it, for the sender to take the   *)
(* length from the unbuffered signalAck.  Close messages that go out are   *)
(* left out, and so is sessionManager.Shutdown (see LrcpServer): what it   *)
(* does to a session comes after the end of the server's context.          *)
(***************************************************************************)
EXTENDS Integers, FiniteSets

CONSTANTS Handlers,  \* goroutines that handle datagrams at the same time
          LineLens,  \* lengths of lines
          MaxLines   \* bound on the number of lines

ASSUME LinesAssumption == LineLens \subseteq Nat \ {0} /\ MaxLines \in Nat

VARIABLES
  lenTotalOutgoing, shouldBeSent,  \* fields of the session, under its lock
  sender,    \* "off", "idle" (outer select), "loop", "wait" (a burst is out), "close"
             \* (before Remove), "cancel" (in Remove, before cancelCtx), "closing"
             \* (in Remove's wg.Wait), "crashed" (panic), "done"
  initLen, bufLen, curPos,         \* locals of the sender
  hpc,       \* per handler: "idle", "found", "signal", "close", "cancel", "closing",
             \* "dead"
  ackLen,    \* the length that a handler has to signal
  inMap,     \* the session is in sessionManager.sessions
  ctxDone,   \* the session's context is cancelled
  nlines,    \* lines taken from outgoingChan so far
  before,    \* history: total length of the lines before the current one
  peerGot    \* bytes that the peer has received without a gap

sessVars == <<lenTotalOutgoing, shouldBeSent>>
sendVars == <<initLen, bufLen, curPos, nlines, before>>
endVars == <<inMap, ctxDone>>
vars == <<sessVars, sender, sendVars, hpc, ackLen, endVars, peerGot>>

Init ==
  /\ lenTotalOutgoing = 0 /\ shouldBeSent = 0
  /\ sender = "off"
  /\ initLen = 0 /\ bufLen = 0 /\ curPos = 0 /\ nlines = 0 /\ before = 0
  /\ hpc = [h \in Handlers |-> "idle"]
  /\ ackLen = [h \in Handlers |-> 0]
  /\ inMap = FALSE /\ ctxDone = FALSE
  /\ peerGot = 0

----------------------------------------------------------------------------
(* The sender goroutine *)

\* GetOrCreate, for the connect message of the peer.
Create ==
  /\ sender = "off"
  /\ sender' = "idle" /\ inMap' = TRUE
  /\ UNCHANGED <<sessVars, sendVars, hpc, ackLen, ctxDone, peerGot>>

\* The next line comes from outgoingChan.
SenderTake(len) ==
  /\ sender = "idle" /\ nlines < MaxLines
  /\ initLen' = lenTotalOutgoing
  /\ shouldBeSent' = lenTotalOutgoing + len
  /\ bufLen' = len /\ curPos' = 0
  /\ before' = before + bufLen
  /\ nlines' = nlines + 1
  /\ sender' = "loop"
  /\ UNCHANGED <<lenTotalOutgoing, hpc, ackLen, endVars, peerGot>>

SenderExit ==
  /\ sender = "idle" /\ ctxDone
  /\ sender' = "done"
  /\ UNCHANGED <<sessVars, sendVars, hpc, ackLen, endVars, peerGot>>

\* Mutant: a line is finished one byte early.
AlmostAllAcked == curPos >= bufLen - 1

AllAcked == curPos >= bufLen

\* The head of the loop: the line is finished, the session is, or a burst is
\* sent.
SenderLoop ==
  /\ sender = "loop" /\ (AllAcked \/ ctxDone \/ curPos >= 0)
  /\ sender' = IF AllAcked \/ ctxDone THEN "idle" ELSE "wait"
  /\ UNCHANGED <<sessVars, sendVars, hpc, ackLen, endVars, peerGot>>

\* A negative curPos is a slice bound: the panic ends the program.
SenderPanic ==
  /\ sender = "loop" /\ ~AllAcked /\ ~ctxDone /\ curPos < 0
  /\ sender' = "crashed"
  /\ hpc' = [h \in Handlers |-> "dead"]
  /\ UNCHANGED <<sessVars, sendVars, ackLen, endVars, peerGot>>

\* Mutant: the sender counts one byte less.
AckedPosOff(h) == ackLen[h] - initLen - 1

AckedPos(h) == ackLen[h] - initLen

\* The select after a burst: an ack, the end, or one of the two timers.
SenderAcked(h) ==
  /\ sender = "wait" /\ hpc[h] = "signal"
  /\ curPos' = AckedPos(h)
  /\ sender' = "loop"
  /\ hpc' = [hpc EXCEPT ![h] = "idle"]
  /\ UNCHANGED <<sessVars, initLen, bufLen, nlines, before, ackLen, endVars, peerGot>>

SenderCancelled ==
  /\ sender = "wait" /\ ctxDone
  /\ sender' = "idle"
  /\ UNCHANGED <<sessVars, sendVars, hpc, ackLen, endVars, peerGot>>

\* timerRetransmit
Retransmit ==
  /\ sender = "wait"
  /\ sender' = "loop"
  /\ UNCHANGED <<sessVars, sendVars, hpc, ackLen, endVars, peerGot>>

\* timerSession
SessionTimeout ==
  /\ sender = "wait"
  /\ sender' = "close"
  /\ UNCHANGED <<sessVars, sendVars, hpc, ackLen, endVars, peerGot>>

\* session.close on the sender's own goroutine: Remove up to the unlock.  When
\* the session is not in the map any more, the line is given up and the sender
\* goes on, also when the one that removed the session has not cancelled it yet.
SenderClose ==
  /\ sender = "close"
  /\ sender' = IF inMap THEN "cancel" ELSE "idle"
  /\ inMap' = FALSE
  /\ UNCHANGED <<sessVars, sendVars, hpc, ackLen, ctxDone, peerGot>>

\* cancelCtx, and then Remove waits for the goroutines of the session, this one
\* included.
SenderCancels ==
  /\ sender = "cancel"
  /\ sender' = "closing" /\ ctxDone' = TRUE
  /\ UNCHANGED <<sessVars, sendVars, hpc, ackLen, inMap, peerGot>>

----------------------------------------------------------------------------
(* HandleIncoming *)

Known(n) == n <= lenTotalOutgoing

TooMuch(n) == n > shouldBeSent

\* handleIncomingMessage looks the session up.  Without one, the answer is a
\* close message, and nothing changes here.
Get(h) ==
  /\ hpc[h] = "idle" /\ inMap
  /\ hpc' = [hpc EXCEPT ![h] = "found"]
  /\ UNCHANGED <<sessVars, sender, sendVars, ackLen, endVars, peerGot>>

\* An ack of length n, under the lock: known, too much, or news.
HandleAck(h, n) ==
  /\ hpc[h] = "found"
  /\ \/ /\ Known(n)
        /\ hpc' = [hpc EXCEPT ![h] = "idle"]
        /\ UNCHANGED <<lenTotalOutgoing, ackLen>>
     \/ /\ ~Known(n) /\ TooMuch(n)
        /\ hpc' = [hpc EXCEPT ![h] = "close"]
        /\ UNCHANGED <<lenTotalOutgoing, ackLen>>
     \/ /\ ~Known(n) /\ ~TooMuch(n)
        /\ lenTotalOutgoing' = n
        /\ ackLen' = [ackLen EXCEPT ![h] = n]
        /\ hpc' = [hpc EXCEPT ![h] = "signal"]
  /\ UNCHANGED <<shouldBeSent, sender, sendVars, endVars, peerGot>>

\* The handler gives up its signal when the context is done.
DropSignal(h) ==
  /\ hpc[h] = "signal" /\ ctxDone
  /\ hpc' = [hpc EXCEPT ![h] = "idle"]
  /\ UNCHANGED <<sessVars, sender, sendVars, ackLen, endVars, peerGot>>

\* The peer sends a close message.
HandleClose(h) ==
  /\ hpc[h] = "found"
  /\ hpc' = [hpc EXCEPT ![h] = "close"]
  /\ UNCHANGED <<sessVars, sender, sendVars, ackLen, endVars, peerGot>>

\* session.close: Remove up to the unlock.
Remove(h) ==
  /\ hpc[h] = "close"
  /\ hpc' = [hpc EXCEPT ![h] = IF inMap THEN "cancel" ELSE "idle"]
  /\ inMap' = FALSE
  /\ UNCHANGED <<sessVars, sender, sendVars, ackLen, ctxDone, peerGot>>

\* cancelCtx.  Until then the session lives on outside of the map.
RemoveCancels(h) ==
  /\ hpc[h] = "cancel"
  /\ hpc' = [hpc EXCEPT ![h] = "closing"] /\ ctxDone' = TRUE
  /\ UNCHANGED <<sessVars, sender, sendVars, ackLen, inMap, peerGot>>

\* Remove's wg.Wait is over.
Removed(h) ==
  /\ hpc[h] = "closing" /\ sender = "done"
  /\ hpc' = [hpc EXCEPT ![h] = "idle"]
  /\ UNCHANGED <<sessVars, sender, sendVars, ackLen, endVars, peerGot>>

----------------------------------------------------------------------------
\* The context of the server is done: Shutdown, or the end of its reader.
ServerStops ==
  /\ sender # "off" /\ ~ctxDone
  /\ ctxDone' = TRUE
  /\ UNCHANGED <<sessVars, sender, sendVars, hpc, ackLen, inMap, peerGot>>

\* The peer gets the missing bytes of a burst, up to byte n.
PeerReceives(n) ==
  /\ sender = "wait"
  /\ n \in peerGot + 1..shouldBeSent
  /\ peerGot' = n
  /\ UNCHANGED <<sessVars, sender, sendVars, hpc, ackLen, endVars>>

Sender == SenderExit \/ SenderLoop \/ SenderPanic \/ SenderCancelled \/ Retransmit
          \/ SenderClose \/ SenderCancels
Handler(h) == DropSignal(h) \/ Remove(h) \/ RemoveCancels(h) \/ Removed(h)

MaxBytes == MaxLines * CHOOSE n \in LineLens : \A m \in LineLens : m <= n

\* Acks may be lost, repeated and late: any length that the peer had at some
\* time; or, from a misbehaving peer, one byte too much.
Next ==
  \/ Create \/ Sender \/ SessionTimeout \/ ServerStops
  \/ \E len \in LineLens : SenderTake(len)
  \/ \E n \in 1..MaxBytes : PeerReceives(n)
  \/ \E h \in Handlers :
       \/ Handler(h) \/ SenderAcked(h) \/ Get(h) \/ HandleClose(h)
       \/ \E n \in 0..peerGot \cup {shouldBeSent + 1} : HandleAck(h, n)

Spec == Init /\ [][Next]_vars

\* Go runs every goroutine that is not blocked, and select is fair among the
\* cases that are ready again and again.  The network delivers one of
\* infinitely many copies of a message, so the peer gets a line that is sent
\* again and again, and the server its ack.
Fairness ==
  /\ WF_vars(Sender)
  /\ \A h \in Handlers : WF_vars(Handler(h) \/ Get(h))
  /\ SF_vars(\E h \in Handlers : SenderAcked(h))
  /\ SF_vars(\E h \in Handlers : HandleAck(h, shouldBeSent) /\ peerGot = shouldBeSent)
  /\ SF_vars(PeerReceives(shouldBeSent))

FairSpec == Spec /\ Fairness

----------------------------------------------------------------------------
(* Properties *)

\* Positions and lengths stay within the lines that were taken.
TypeOK ==
  /\ lenTotalOutgoing \in 0..MaxBytes /\ shouldBeSent \in 0..MaxBytes
  /\ sender \in {"off", "idle", "loop", "wait", "close", "cancel", "closing", "crashed", "done"}
  /\ initLen \in 0..MaxBytes /\ bufLen \in {0} \cup LineLens
  /\ curPos \in -MaxBytes..MaxBytes
  /\ hpc \in [Handlers -> {"idle", "found", "signal", "close", "cancel", "closing", "dead"}]
  /\ ackLen \in [Handlers -> 0..MaxBytes]
  /\ inMap \in BOOLEAN /\ ctxDone \in BOOLEAN
  /\ nlines \in 0..MaxLines /\ before \in 0..MaxBytes /\ peerGot \in 0..MaxBytes

\* Whenever a session of the map has a burst out, its line starts where the one
\* before it ended, which the peer has acknowledged to its last byte: no byte
\* of the stream is sent at the position of another, whatever acks, timeouts
\* and closes meet.  A session that Remove has taken from the map and not yet
\* cancelled may send such bytes: its sender can give up a line, with nothing
\* left to close, and take the next one.
StreamAligned ==
  inMap /\ sender = "wait" => initLen = before

\* "already acked, do nothing": the sender never takes an ack that lies before
\* what it has been told, and never goes back in its line.
AckNeverBack == [][\A h \in Handlers : SenderAcked(h) => curPos' >= curPos]_vars

\* A line is sent until the peer has acknowledged all of it, or the session or
\* the program ends.
LineArrives ==
  sender = "wait" ~> sender \in {"idle", "close", "crashed"} \/ ctxDone
=============================================================================
