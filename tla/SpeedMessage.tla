---------------------------- MODULE SpeedMessage ----------------------------
(***************************************************************************)
(* The binary messages of the speed daemon: a type byte, then the fields,  *)
(* big-endian numbers and sequences with their length in one byte.         *)
(***************************************************************************)
EXTENDS Integers, Sequences

LOCAL INSTANCE SequencesExt

CONSTANT ByteBase  \* the values of a byte, 256

MaxByte == ByteBase - 1

\* The fields of a message by its type; a width is a number of bytes.
MessageFields ==
  [Error         |-> <<"string">>,
   Plate         |-> <<"string", "uint32">>,
   Ticket        |-> <<"string", "uint16", "uint16", "uint32", "uint16", "uint32",
                       "uint16">>,
   WantHeartbeat |-> <<"uint32">>,
   Heartbeat     |-> <<>>,
   IAmCamera     |-> <<"uint16", "uint16", "uint16">>,
   IAmDispatcher |-> <<"uint16s">>]

Width == [byte |-> 1, uint16 |-> 2, uint32 |-> 4]

\* The elements of a field with a length byte.
Element == [string |-> "byte", uint16s |-> "uint16"]

----------------------------------------------------------------------------
(* constructPacketData *)

\* binary.Write, big-endian.
PutNumber(w, val) == [k \in 1..w |-> (val \div ByteBase^(w - k)) % ByteBase]

PutField(sort, f) ==
  IF sort \in DOMAIN Element
  THEN <<Len(f)>> \o FlattenSeq([k \in DOMAIN f |-> PutNumber(Width[Element[sort]], f[k])])
  ELSE PutNumber(Width[sort], f)

\* Sequences beyond the length byte are refused.
Marshals(msg) ==
  LET sorts == MessageFields[msg.type]
  IN  \A k \in DOMAIN sorts :
        sorts[k] \in DOMAIN Element => Len(msg.fields[k]) <= MaxByte

MarshalMessage(msg) ==
  LET sorts == MessageFields[msg.type]
  IN  <<msg.type>> \o FlattenSeq([k \in DOMAIN sorts |-> PutField(sorts[k], msg.fields[k])])

----------------------------------------------------------------------------
(* extractPacketData *)

\* Mutant: the low byte first.
GetLittleEndian(w, at, raw) ==
  LET sum[k \in 0..w] == IF k = 0 THEN 0
                         ELSE sum[k - 1] + raw[at + k - 1] * ByteBase^(k - 1)
  IN  sum[w]

\* binary.Read of w bytes at position at.
GetNumber(w, at, raw) ==
  LET sum[k \in 0..w] == IF k = 0 THEN 0 ELSE sum[k - 1] * ByteBase + raw[at + k - 1]
  IN  sum[w]

\* The bytes a field takes at position at: the length byte is read first.
FieldLen(sort, at, raw) ==
  IF sort \notin DOMAIN Element THEN Width[sort]
  ELSE IF at > Len(raw) THEN 1 ELSE 1 + raw[at] * Width[Element[sort]]

GetField(sort, at, raw) ==
  IF sort \in DOMAIN Element
  THEN LET w == Width[Element[sort]]
       IN  [k \in 1..raw[at] |-> GetNumber(w, at + 1 + (k - 1) * w, raw)]
  ELSE GetNumber(Width[sort], at, raw)

\* UnmarshalMessage at position at: the message and the position behind it,
\* or an error when the stream ends within it.
UnmarshalAt(at, raw) ==
  LET sorts == MessageFields[raw[at]]
      pos[k \in 1..(Len(sorts) + 1)] ==
        IF k = 1 THEN at + 1
        ELSE pos[k - 1] + FieldLen(sorts[k - 1], pos[k - 1], raw)
      end == pos[Len(sorts) + 1]
  IN  IF at > Len(raw) THEN [err |-> TRUE, at |-> at]
      ELSE IF raw[at] \notin DOMAIN MessageFields
      THEN [err |-> FALSE, at |-> at + 1, msg |-> [type |-> "Unknown", fields |-> <<>>]]
      ELSE IF end > Len(raw) + 1 THEN [err |-> TRUE, at |-> at]
      ELSE [err |-> FALSE, at |-> end,
            msg |-> [type |-> raw[at],
                     fields |-> [k \in DOMAIN sorts |-> GetField(sorts[k], pos[k], raw)]]]

----------------------------------------------------------------------------
(* Properties *)

\* Two messages in a row are read as they were written, and the second one,
\* cut short anywhere, is an error and not another message.
StreamReadsBack(m1, m2) ==
  LET raw == MarshalMessage(m1) \o MarshalMessage(m2)
      first == UnmarshalAt(1, raw)
      second == UnmarshalAt(first.at, raw)
  IN  Marshals(m1) /\ Marshals(m2) =>
        /\ ~first.err /\ first.msg = m1
        /\ ~second.err /\ second.msg = m2 /\ second.at = Len(raw) + 1
        /\ \A n \in first.at..(Len(raw) - 1) :
             UnmarshalAt(first.at, SubSeq(raw, 1, n)).err
=============================================================================
