--------------------------- MODULE RequestFraming ---------------------------
(***************************************************************************)
(* How the proto server of the job centre cuts the byte stream of a        *)
(* connection into requests: nextRequestBuffer reads chunks of any size,   *)
(* stores a line in blocks of bufSize bytes and carries what follows the   *)
(* newline over to the next call; requestBuffer reads the blocks back.     *)
(*                                                                         *)
(* The reader goroutine frames, the worker goroutine reads the request     *)
(* that it was handed last; ConnHandler models how they end.               *)
(***************************************************************************)
EXTENDS Integers, Sequences

CONSTANTS Octets,     \* bytes
          Newline,    \* the byte that ends a request
          Streams,    \* what a peer may send: sequences of bytes
          BufSize,    \* bufSize, the capacity of every block
          ReadSizes   \* the lengths of the buffers that a Read gets

ASSUME BufSizeAssumption == BufSize \in Nat \ {0}
ASSUME StreamsAssumption == Streams \subseteq Seq(Octets)
ASSUME ReadSizesAssumption == ReadSizes \subseteq Nat \ {0}

VARIABLES sent,      \* the stream of this connection
          unread,    \* what reader.Read has not returned yet
          prevBuf,   \* bytes carried over from the call before
          blocks,    \* curReqBuffer.data
          requests,  \* the requests that were framed: their data, and the
                     \* number of bytes of the stream used up by then
          taken,     \* how many of them the worker has received
          open,      \* whether the worker has not closed the last of these
          pos,       \* pos of that request
          room,      \* what is left of the buffer of a Read, 0 outside of Read
          got        \* what Read returned since the request was received or
                     \* rewound

readerVars == <<sent, unread, prevBuf, blocks, requests>>
workerVars == <<taken, open, pos, room, got>>
framingVars == <<readerVars, workerVars>>

FramingInit ==
  /\ sent = <<>> /\ unread = <<>>
  /\ prevBuf = <<>> /\ blocks = <<>> /\ requests = <<>>
  /\ taken = 0 /\ open = FALSE /\ pos = 0 /\ room = 0 /\ got = <<>>

\* A connection with a stream to read.
Connect(s) ==
  /\ sent = <<>>
  /\ sent' = s /\ unread' = s
  /\ UNCHANGED <<prevBuf, blocks, requests, workerVars>>

----------------------------------------------------------------------------
(* nextRequestBuffer *)

IsNewlineIdx(buf, i) == buf[i] = Newline /\ \A j \in 1..(i - 1) : buf[j] # Newline

\* Mutant: the rest begins with the newline.
RestWithNewline(buf, i) == SubSeq(buf, i, Len(buf))

AfterNewline(buf, i) == SubSeq(buf, i + 1, Len(buf))

\* The bytes d, at most BufSize, appended to the blocks: what does not fit the
\* last one goes into a new one.
Store(bs, d) ==
  LET free == BufSize - Len(bs[Len(bs)])
      n == IF free < Len(d) THEN free ELSE Len(d)
      filled == [bs EXCEPT ![Len(bs)] = @ \o SubSeq(d, 1, n)]
  IN  IF n = Len(d) THEN filled ELSE Append(filled, SubSeq(d, n + 1, Len(d)))

\* The blocks of the current request, of which there is at least one.
Opened == IF blocks = <<>> THEN << <<>> >> ELSE blocks

\* One round of the loop with a non-empty buf: without a newline the next
\* round follows, with one the request is complete.
Round(buf) ==
  \/ /\ \A i \in DOMAIN buf : buf[i] # Newline
     /\ blocks' = Store(Opened, buf)
     /\ prevBuf' = <<>>
     /\ UNCHANGED requests
  \/ \E i \in DOMAIN buf :
       /\ IsNewlineIdx(buf, i)
       /\ blocks' = <<>>
       /\ prevBuf' = AfterNewline(buf, i)
       /\ requests' = Append(requests,
                             [data |-> Store(Opened, SubSeq(buf, 1, i - 1)),
                              end  |-> Len(sent) - Len(unread') - Len(prevBuf')])

\* The reader waits until the worker has received the request.
HandedOver == taken = Len(requests)

\* The carried bytes go first; the stream is read only when there are none.
RoundOnPrevious ==
  /\ HandedOver /\ prevBuf # <<>>
  /\ UNCHANGED <<sent, unread, workerVars>>
  /\ Round(prevBuf)

RoundOnRead(n) ==
  /\ HandedOver /\ prevBuf = <<>>
  /\ n <= Len(unread)
  /\ unread' = SubSeq(unread, n + 1, Len(unread))
  /\ Round(SubSeq(unread, 1, n))
  /\ UNCHANGED <<sent, workerVars>>

----------------------------------------------------------------------------
(* requestBuffer: the worker decodes a request, twice from its start, with *)
(* Reads of whatever size the decoder likes, and closes it                 *)

\* requestBuffer.Len, and maxSize in Read and Seek.
RequestLen(bs) == IF bs = <<>> THEN 0 ELSE (Len(bs) - 1) * BufSize + Len(bs[Len(bs)])

Data == requests[taken].data

Receive ==
  /\ ~open /\ ~HandedOver
  /\ taken' = taken + 1 /\ open' = TRUE
  /\ pos' = 0 /\ got' = <<>>
  /\ UNCHANGED <<readerVars, room>>

\* A Read at the end returns io.EOF and changes nothing.
Read(p) ==
  /\ open /\ room = 0 /\ pos < RequestLen(Data)
  /\ room' = p
  /\ UNCHANGED <<readerVars, taken, open, pos, got>>

\* One turn of the loop in Read: what is left of a block, or of the buffer.
ReadTurn ==
  LET block == Data[pos \div BufSize + 1]
      from == pos % BufSize
      copied == IF room < Len(block) - from THEN room ELSE Len(block) - from
  IN  /\ room > 0
      /\ got' = got \o SubSeq(block, from + 1, from + copied)
      /\ pos' = pos + copied
      /\ room' = IF pos + copied < RequestLen(Data) THEN room - copied ELSE 0
      /\ UNCHANGED <<readerVars, taken, open>>

\* The request is rewound if it is not empty.
Seek ==
  /\ open /\ room = 0 /\ RequestLen(Data) > 0
  /\ pos' = 0 /\ got' = <<>>
  /\ UNCHANGED <<readerVars, taken, open, room>>

Close ==
  /\ open /\ room = 0
  /\ open' = FALSE
  /\ UNCHANGED <<readerVars, taken, pos, room, got>>

FramingNext == \/ \E s \in Streams : Connect(s)
               \/ RoundOnPrevious
               \/ \E n \in 1..BufSize : RoundOnRead(n)
               \/ Receive \/ ReadTurn \/ Seek \/ Close
               \/ \E p \in ReadSizes : Read(p)

FramingSpec == FramingInit /\ [][FramingNext]_framingVars

----------------------------------------------------------------------------
(* Properties *)

\* Where in the stream the k-th request begins.
LineStart(k) == IF k = 1 THEN 0 ELSE requests[k - 1].end

\* However the stream is chunked, the requests are its lines, in order and none
\* left out, and what the worker reads of one, with buffers of any size, are the
\* bytes of that line from its first one on, up to Len of the request, which is
\* the length of the line; and what is not framed yet follows the last line:
\* nextRequestBuffer and requestBuffer neither lose, repeat nor misplace a byte.
FramesExact ==
  /\ \A k \in DOMAIN requests :
       /\ requests[k].end = LineStart(k) + RequestLen(requests[k].data) + 1
       /\ sent[requests[k].end] = Newline
       /\ \A i \in (LineStart(k) + 1)..(requests[k].end - 1) : sent[i] # Newline
  /\ open => /\ Len(got) = pos /\ pos <= RequestLen(Data)
             /\ \A i \in DOMAIN got : got[i] = sent[LineStart(taken) + i]
  /\ LET from == LineStart(Len(requests) + 1)
         framed == from + RequestLen(blocks)
     IN  /\ \A i \in (from + 1)..framed : sent[i] # Newline
         /\ prevBuf \o unread = SubSeq(sent, framed + 1, Len(sent))
=============================================================================
