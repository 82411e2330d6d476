---------------------------- MODULE LrcpReceive ----------------------------
(***************************************************************************)
(* The receiving half of an LRCP session of 7-line-reversal/lrcp: the      *)
(* connect and data messages of HandleIncoming and the line splitter       *)
(* readNewLineFromMessage.  Listen runs every datagram in a goroutine of   *)
(* its own, so several may be inside HandleIncoming at once.               *)
(*                                                                         *)
(* The client's stream is the bytes 1..StreamLen, of which Newlines are    *)
(* line ends.  A data message carries the bytes Pos+1 .. Pos+Len; UDP may  *)
(* lose, duplicate and reorder them, so any may arrive at any time.        *)
(***************************************************************************)
EXTENDS Naturals, Sequences, FiniteSets

CONSTANTS Handlers,   \* goroutines that handle datagrams at the same time
          StreamLen,  \* bound on the length of the client's stream
          Newlines,   \* the bytes that are newlines
          ChanCap     \* capacity of incomingChan

ASSUME StreamAssumption == StreamLen \in Nat /\ Newlines \subseteq 1..StreamLen
ASSUME ChanAssumption == ChanCap \in Nat \ {0}

VARIABLES
  lenTotalIncoming,  \* bytes accepted, under session.lock
  pc,                \* per handler: "idle", "stale", "deliver" (at the lock or
                     \* at the head of the loop), "piece" (in the loop), "ack"
  from, to,          \* the bytes from[h]+1 .. to[h] are still to be delivered
  total,             \* the length that the handler will acknowledge
  dataLock,          \* holder of lockIncomingData, a set with at most one member
  incomingBuf,       \* the bytes of the unfinished line
  incomingChan,      \* finished lines, not yet taken by the application
  lines,             \* lines that the application has taken
  ctxDone,           \* the session was closed
  acked,             \* history: the highest Length that was acknowledged
  log,               \* history: all bytes, in the order of their delivery
  cuts               \* history: the last bytes of the accepted messages

handlerVars == <<pc, from, to, total>>
lineVars == <<dataLock, incomingBuf, incomingChan, lines, log>>
vars == <<lenTotalIncoming, handlerVars, lineVars, ctxDone, acked, cuts>>

Init ==
  /\ lenTotalIncoming = 0
  /\ pc = [h \in Handlers |-> "idle"]
  /\ from = [h \in Handlers |-> 0]
  /\ to = [h \in Handlers |-> 0]
  /\ total = [h \in Handlers |-> 0]
  /\ dataLock = {}
  /\ incomingBuf = <<>> /\ incomingChan = <<>> /\ lines = <<>> /\ log = <<>>
  /\ ctxDone = FALSE
  /\ acked = 0 /\ cuts = {}

----------------------------------------------------------------------------
\* A connect message of the known session: lenTotalIncoming is read under the
\* lock and acknowledged after it.
HandleConnect(h) ==
  /\ pc[h] = "idle"
  /\ total' = [total EXCEPT ![h] = lenTotalIncoming]
  /\ pc' = [pc EXCEPT ![h] = "ack"]
  /\ UNCHANGED <<lenTotalIncoming, from, to, lineVars, ctxDone, acked, cuts>>

\* The messages that bring nothing: data was skipped, or all of it is known.
Useless(pos, len) ==
  lenTotalIncoming < pos \/ lenTotalIncoming - pos >= len

\* Mutant: known bytes at the start of the message are not cut off.
Uncut(pos) == pos

\* Where the new bytes of a message start.
NewFrom(pos) == lenTotalIncoming

\* The critical section under session.lock.
HandleData(h, pos, len) ==
  /\ pc[h] = "idle"
  /\ IF Useless(pos, len)
     THEN /\ pc' = [pc EXCEPT ![h] = "stale"]
          /\ UNCHANGED <<lenTotalIncoming, from, to, total, cuts>>
     ELSE /\ from' = [from EXCEPT ![h] = NewFrom(pos)]
          /\ to' = [to EXCEPT ![h] = pos + len]
          /\ lenTotalIncoming' = pos + len
          /\ total' = [total EXCEPT ![h] = pos + len]
          /\ cuts' = cuts \cup {pos + len}
          /\ pc' = [pc EXCEPT ![h] = "deliver"]
  /\ UNCHANGED <<lineVars, ctxDone, acked>>

SendAck(n) == acked' = IF n > acked THEN n ELSE acked

\* The reply to a useless message reads lenTotalIncoming after the unlock.
AckStale(h) ==
  /\ pc[h] = "stale"
  /\ SendAck(lenTotalIncoming)
  /\ pc' = [pc EXCEPT ![h] = "idle"]
  /\ UNCHANGED <<lenTotalIncoming, from, to, total, lineVars, ctxDone, cuts>>

----------------------------------------------------------------------------
(* readNewLineFromMessage *)

\* Mutant: nobody waits for lockIncomingData.
LockNotTaken == TRUE

DataUnlocked == dataLock = {}

LockData(h) ==
  /\ pc[h] = "deliver" /\ h \notin dataLock /\ DataUnlocked
  /\ dataLock' = dataLock \cup {h}
  /\ UNCHANGED <<lenTotalIncoming, handlerVars, incomingBuf, incomingChan, lines,
                 log, ctxDone, acked, cuts>>

\* The head of the loop: there are bytes left and the context is not done.
NextPiece(h) ==
  /\ h \in dataLock /\ pc[h] = "deliver" /\ from[h] < to[h] /\ ~ctxDone
  /\ pc' = [pc EXCEPT ![h] = "piece"]
  /\ UNCHANGED <<lenTotalIncoming, from, to, total, lineVars, ctxDone, acked, cuts>>

\* The end of the next piece: the first newline, or the last byte.
PieceEnd(h) ==
  LET nls == {n \in Newlines : from[h] < n /\ n <= to[h]}
  IN  IF nls = {} THEN to[h] ELSE CHOOSE n \in nls : \A m \in nls : n <= m

\* The bytes a+1 .. b in order.
Bytes(a, b) == [k \in 1..(b - a) |-> a + k]

\* incomingBuf with the piece of h added, the newline left out.
Extended(h) ==
  LET end == PieceEnd(h)
  IN  incomingBuf \o Bytes(from[h], IF end \in Newlines THEN end - 1 ELSE end)

\* The rest of the turn.  A finished line goes to incomingChan, which blocks
\* with lockIncomingData held while the channel is full.
Piece(h) ==
  /\ pc[h] = "piece"
  /\ IF PieceEnd(h) \in Newlines
     THEN /\ Len(incomingChan) < ChanCap
          /\ incomingChan' = Append(incomingChan, Extended(h))
          /\ incomingBuf' = <<>>
     ELSE /\ incomingBuf' = Extended(h)
          /\ UNCHANGED incomingChan
  /\ from' = [from EXCEPT ![h] = PieceEnd(h)]
  /\ log' = log \o Bytes(from[h], PieceEnd(h))
  /\ pc' = [pc EXCEPT ![h] = "deliver"]
  /\ UNCHANGED <<lenTotalIncoming, to, total, dataLock, lines, ctxDone, acked, cuts>>

\* Mutant: the lock is not released.
DataLockKept(h) == dataLock

DataLockFree(h) == dataLock \ {h}

\* The message is used up: its bytes are acknowledged after the unlock.
UnlockData(h) ==
  /\ h \in dataLock /\ pc[h] = "deliver" /\ from[h] = to[h]
  /\ dataLock' = DataLockFree(h)
  /\ pc' = [pc EXCEPT ![h] = "ack"]
  /\ UNCHANGED <<lenTotalIncoming, from, to, total, incomingBuf, incomingChan,
                 lines, log, ctxDone, acked, cuts>>

\* The context is done, at the head of the loop or while a line waits for
\* incomingChan: the rest of the message is dropped, nothing is sent.
Abandon(h) ==
  /\ h \in dataLock /\ ctxDone
  /\ \/ pc[h] = "deliver" /\ from[h] < to[h] /\ UNCHANGED incomingBuf
     \/ /\ pc[h] = "piece" /\ PieceEnd(h) \in Newlines
        /\ incomingBuf' = Extended(h)
  /\ dataLock' = DataLockFree(h)
  /\ pc' = [pc EXCEPT ![h] = "idle"]
  /\ UNCHANGED <<lenTotalIncoming, from, to, total, incomingChan, lines, log,
                 ctxDone, acked, cuts>>

AckedLength(h) == total[h]

Ack(h) ==
  /\ pc[h] = "ack"
  /\ SendAck(AckedLength(h))
  /\ pc' = [pc EXCEPT ![h] = "idle"]
  /\ UNCHANGED <<lenTotalIncoming, from, to, total, lineVars, ctxDone, cuts>>

----------------------------------------------------------------------------
(* The other side of incomingChan, and the end of the session *)

\* The application's goroutine takes a line.  After the end its select may do
\* so once more, or return.
TakeLine ==
  /\ incomingChan # <<>>
  /\ lines' = Append(lines, Head(incomingChan))
  /\ incomingChan' = Tail(incomingChan)
  /\ UNCHANGED <<lenTotalIncoming, handlerVars, dataLock, incomingBuf, log,
                 ctxDone, acked, cuts>>

Close ==
  /\ ~ctxDone /\ ctxDone' = TRUE
  /\ UNCHANGED <<lenTotalIncoming, handlerVars, lineVars, acked, cuts>>

Deliver(h) == LockData(h) \/ NextPiece(h) \/ Piece(h) \/ UnlockData(h) \/ Abandon(h)
              \/ Ack(h) \/ AckStale(h)

Next ==
  \/ \E h \in Handlers :
       \/ Deliver(h) \/ HandleConnect(h)
       \/ \E pos \in 0..StreamLen : \E len \in 0..(StreamLen - pos) :
            HandleData(h, pos, len)
  \/ TakeLine \/ Close

Spec == Init /\ [][Next]_vars

\* Go runs every goroutine that is not blocked and sync.Mutex starves no one
\* (hence SF).  The application takes lines as long as the client acknowledges
\* what it is sent; nothing is assumed of messages and of the end.
Fairness ==
  /\ WF_vars(TakeLine /\ ~ctxDone)
  /\ \A h \in Handlers : SF_vars(LockData(h)) /\ WF_vars(Deliver(h))

FairSpec == Spec /\ Fairness

----------------------------------------------------------------------------
(* Properties *)

\* Positions and lengths stay within the client's stream.
TypeOK ==
  /\ lenTotalIncoming \in 0..StreamLen
  /\ pc \in [Handlers -> {"idle", "stale", "deliver", "piece", "ack"}]
  /\ from \in [Handlers -> 0..StreamLen] /\ to \in [Handlers -> 0..StreamLen]
  /\ total \in [Handlers -> 0..StreamLen]
  /\ dataLock \in SUBSET Handlers
  /\ incomingBuf \in Seq(1..StreamLen) /\ log \in Seq(1..StreamLen)
  /\ incomingChan \in Seq(Seq(1..StreamLen)) /\ lines \in Seq(Seq(1..StreamLen))
  /\ ctxDone \in BOOLEAN /\ acked \in 0..StreamLen
  /\ cuts \in SUBSET (1..StreamLen)

\* The bytes that h has accepted and not delivered.
Pending(h) == IF pc[h] \in {"deliver", "piece"} THEN from[h] + 1..to[h] ELSE {}

Delivered == {log[k] : k \in DOMAIN log}

\* Overlapping, repeated and reordered messages are taken apart into bytes
\* that are delivered exactly once, however the handlers interleave, and only
\* accepted bytes are acknowledged.
EveryByteOnce ==
  /\ Len(log) = Cardinality(Delivered)
  /\ \A h \in Handlers : Pending(h) \cap Delivered = {}
  /\ \A g, h \in Handlers : g # h => Pending(g) \cap Pending(h) = {}
  /\ ~ctxDone => Delivered \cup UNION {Pending(h) : h \in Handlers} = 1..lenTotalIncoming
  /\ acked <= lenTotalIncoming

\* However the handlers interleave, the bytes of one message stay together and
\* in order, and the lines are what was delivered, cut at its newlines.
MessagesStayWhole ==
  LET all == lines \o incomingChan
      cutAt == {k \in DOMAIN log : log[k] \in Newlines}
      Nth(n) == IF n = 0 THEN 0
                ELSE CHOOSE k \in cutAt : Cardinality({j \in cutAt : j <= k}) = n
  IN  /\ \A k \in 1..Len(log) - 1 :
           log[k + 1] = log[k] + 1 \/ (log[k] \in cuts /\ log[k + 1] - 1 \in cuts \cup {0})
      /\ Len(all) = Cardinality(cutAt)
      /\ \A n \in 1..Len(all) : all[n] = SubSeq(log, Nth(n - 1) + 1, Nth(n) - 1)

\* The lines are the client's lines, in its order: "serialize incoming data" is
\* what lockIncomingData is for.
LinesInOrder == \A k \in DOMAIN log : log[k] = k

\* Every accepted byte reaches the line buffer while the session lives: no
\* handler is left waiting for the lock or for the channel.
AcceptedIsDelivered == []<>(Delivered = 1..lenTotalIncoming \/ ctxDone)
=============================================================================
