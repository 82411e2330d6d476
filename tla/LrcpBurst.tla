----------------------------- MODULE LrcpBurst -----------------------------
(***************************************************************************)
(* One burst of the sender goroutine of an LRCP session: what is left of a *)
(* line is cut into data messages that fit a datagram, and each of them is *)
(* packed byte by byte.  LrcpSend models when bursts are sent; each turn   *)
(* of a loop is a step here.                                               *)
(***************************************************************************)
EXTENDS Integers, Sequences, FiniteSets

CONSTANTS LineBytes,       \* bytes
          Specials,        \* those that are escaped, slash and backslash
          Rests,           \* what may be left of a line: sequences of bytes
          SessionNumbers,
          Starts,          \* positions in the stream at which a burst starts
          MaxPos,          \* the largest session number and position, 2^31 - 1
          MaxDigits,       \* the number of its digits, 10
          MTU              \* the largest datagram, 1000

ASSUME RestsAssumption == Rests \subseteq Seq(LineBytes)
ASSUME DigitsAssumption ==
  /\ MaxPos \in Nat /\ MaxDigits \in Nat \ {0}
  /\ \A v \in 0..MaxPos : v < 10^MaxDigits
ASSUME StartsAssumption ==
  /\ SessionNumbers \subseteq 0..MaxPos /\ Starts \subseteq 0..MaxPos
  /\ \A n \in Starts, d \in Rests : n + Len(d) <= MaxPos
\* One escaped byte fits a datagram, whatever the numbers.
ASSUME MTUAssumption == MTU \in Nat /\ MTU >= 14 + 2 * MaxDigits

VARIABLES rest,           \* buf[curPos:], empty before the burst
          sessionNumber,
          startPos,       \* initLen + curPos
          burstPos,
          making,         \* "next", "cut" or "pack" of a message
          dataLen,        \* len(msg.Data)
          packed,         \* how many bytes of msg.Data are packed
          written,        \* the bytes of the datagram so far
          datagrams       \* the messages of the burst: where in the rest their
                          \* data is from, and the bytes on the wire

burstVars == <<rest, sessionNumber, startPos, burstPos, making, dataLen, packed,
               written, datagrams>>

Datagram == [from : Nat, len : Nat, size : Nat]

BurstInit ==
  /\ rest = <<>> /\ sessionNumber = 0 /\ startPos = 0 /\ burstPos = 0
  /\ making = "next" /\ dataLen = 0 /\ packed = 0 /\ written = 0
  /\ datagrams = <<>>

Burst(s, n, d) ==
  /\ rest = <<>>
  /\ rest' = d /\ sessionNumber' = s /\ startPos' = n
  /\ UNCHANGED <<burstPos, making, dataLen, packed, written, datagrams>>

----------------------------------------------------------------------------
(* Cutting *)

Digits(val) ==
  CHOOSE d \in 1..MaxDigits : val < 10^d /\ \A e \in 1..(d - 1) : ~(val < 10^e)

\* The bytes to escape among the first n behind from.
Escapes(from, n) == Cardinality({k \in 1..n : rest[from + k] \in Specials})

\* Mutant: the escapes are forgotten.
MarshalSizePlain(from, n) ==
  9 + Digits(sessionNumber) + 1 + Digits(startPos + from) + 1 + n + 1

\* MarshalSize of the message with the first n bytes behind from: an upper
\* bound, nine for the longest action.
MarshalSize(from, n) ==
  9 + Digits(sessionNumber) + 1 + Digits(startPos + from) + 1 + (n + Escapes(from, n)) + 1

NewMessage ==
  /\ making = "next" /\ burstPos < Len(rest)
  /\ dataLen' = Len(rest) - burstPos
  /\ making' = "cut"
  /\ UNCHANGED <<rest, sessionNumber, startPos, burstPos, packed, written, datagrams>>

Slice ==
  LET maxLen == (dataLen * 9) \div 10
  IN  /\ making = "cut" /\ MarshalSize(burstPos, dataLen) > MTU
      /\ dataLen' = IF MTU < maxLen THEN MTU ELSE maxLen
      /\ UNCHANGED <<rest, sessionNumber, startPos, burstPos, making, packed, written,
                     datagrams>>

----------------------------------------------------------------------------
(* Packing: "/data/", two numbers and the data, each with a slash behind it *)

\* Marshal finds the size as the loop left it.
Dispatch ==
  /\ making = "cut" /\ MarshalSize(burstPos, dataLen) <= MTU
  /\ burstPos' = burstPos + dataLen
  /\ written' = 6 + Digits(sessionNumber) + 1 + Digits(startPos + burstPos) + 1
  /\ packed' = 0 /\ making' = "pack"
  /\ UNCHANGED <<rest, sessionNumber, startPos, dataLen, datagrams>>

From == burstPos - dataLen

PackByte ==
  /\ making = "pack" /\ packed < dataLen
  /\ written' = written + (IF rest[From + packed + 1] \in Specials THEN 2 ELSE 1)
  /\ packed' = packed + 1
  /\ UNCHANGED <<rest, sessionNumber, startPos, burstPos, making, dataLen, datagrams>>

PackEnds ==
  /\ making = "pack" /\ packed = dataLen
  /\ datagrams' = Append(datagrams, [from |-> From, len |-> dataLen, size |-> written + 1])
  /\ making' = "next"
  /\ dataLen' = 0 /\ packed' = 0 /\ written' = 0
  /\ UNCHANGED <<rest, sessionNumber, startPos, burstPos>>

BurstNext ==
  \/ \E s \in SessionNumbers, n \in Starts, d \in Rests : Burst(s, n, d)
  \/ NewMessage \/ Slice \/ Dispatch \/ PackByte \/ PackEnds

BurstSpec == BurstInit /\ [][BurstNext]_burstVars

----------------------------------------------------------------------------
(* Properties *)

SentUpTo(k) == IF k = 0 THEN 0 ELSE datagrams[k].from + datagrams[k].len

\* The burst of a line carries every byte once and in order, in messages that
\* are not empty, so that cutting comes to an end, and fit the MTU on the wire,
\* also when every byte must be escaped and when the position gets one digit
\* more within the line.
LrcpFits ==
  /\ \A k \in DOMAIN datagrams : /\ datagrams[k].from = SentUpTo(k - 1)
                                 /\ datagrams[k].len > 0
                                 /\ datagrams[k].size <= MTU
  /\ (IF making = "pack" THEN From ELSE burstPos) = SentUpTo(Len(datagrams))
  /\ making # "next" => dataLen > 0
  /\ written <= MTU
=============================================================================
