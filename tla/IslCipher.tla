----------------------------- MODULE IslCipher -----------------------------
(***************************************************************************)
(* The ciphers of the insecure sockets layer: a cipher spec is a list of   *)
(* operations, NewWriter and NewReader chain them, and the operations with *)
(* a position count the bytes that passed, apart for each direction.       *)
(***************************************************************************)
EXTENDS Integers, Sequences

LOCAL INSTANCE Bitwise
LOCAL INSTANCE SequencesExt

CONSTANTS ByteBits,       \* the width of a byte, 8
          dataValidation  \* the bytes a cipher must not leave alone

byteSize == 2^ByteBits
Byte == 0..(byteSize - 1)

\* The operations; N is 0 for those without a parameter.
CipherOperation ==
  [op : {"ReverseBits", "XorPos", "AddPos"}, N : {0}]
  \cup [op : {"Xor", "Add"}, N : Byte]

\* bits.Reverse8
Reverse8(b) ==
  LET bit(i) == (b \div 2^i) % 2
      sum[i \in 0..ByteBits] ==
        IF i = 0 THEN 0 ELSE 2 * sum[i - 1] + bit(i - 1)
  IN  sum[ByteBits]

----------------------------------------------------------------------------
(* Read and Write of one operation, on the byte b at position pos *)

Encode(o, b, pos) ==
  CASE o.op = "ReverseBits" -> Reverse8(b)
    [] o.op = "Xor"         -> b ^^ o.N
    [] o.op = "XorPos"      -> b ^^ (pos % byteSize)
    [] o.op = "Add"         -> (b + o.N) % byteSize
    [] o.op = "AddPos"      -> (b + pos) % byteSize

Decode(o, b, pos) ==
  CASE o.op = "ReverseBits" -> Reverse8(b)
    [] o.op = "Xor"         -> b ^^ o.N
    [] o.op = "XorPos"      -> b ^^ (pos % byteSize)
    [] o.op = "Add"         -> (b - o.N) % byteSize
    [] o.op = "AddPos"      -> (b - pos) % byteSize

----------------------------------------------------------------------------
(* The chains: Write enters at the first operation and leaves at the last, *)
(* Read comes from the connection through the last to the first.           *)

Encoded(ops, b, pos) == FoldLeft(LAMBDA v, o : Encode(o, v, pos), b, ops)

\* Mutant: the operations are undone in the order they were done.
DecodedForward(ops, b, pos) == FoldLeft(LAMBDA v, o : Decode(o, v, pos), b, ops)

Decoded(ops, b, pos) == FoldRight(LAMBDA o, v : Decode(o, v, pos), ops, b)

\* Mutant: the position within the chunk only.
PosInChunk(pos, i) == i

\* c.pos + i
PosOf(pos, i) == pos + i

\* One Write or Read of a chunk: c.pos moves by its length afterwards.
WriteChunk(ops, pos, p) ==
  [i \in DOMAIN p |-> Encoded(ops, p[i], PosOf(pos, i - 1))]

ReadChunk(ops, pos, p) ==
  [i \in DOMAIN p |-> Decoded(ops, p[i], PosOf(pos, i - 1))]

----------------------------------------------------------------------------
(* ReadCipherSpec *)

\* The type byte of an operation.
TypeByte == [ReverseBits |-> 1, Xor |-> 2, XorPos |-> 3, Add |-> 4, AddPos |-> 5]

HasParameter(t) == t \in {2, 4}

\* Mutant: a cipher is accepted whatever it does.
NeverNoOp(ops) == FALSE

\* The check against ciphers that do nothing, on the bytes of dataValidation.
IsNoOp(ops) == ReadChunk(ops, 0, dataValidation) = dataValidation

\* The operations that raw starts with, and how many bytes they take.
ReadCipherSpec(raw) ==
  LET err == [ok |-> FALSE, ops |-> <<>>, n |-> 0]
      spec[at \in 1..(Len(raw) + 1), ops \in Seq(CipherOperation)] ==
        IF at > Len(raw) THEN err
        ELSE IF raw[at] = 0 THEN [ok |-> ~IsNoOp(ops), ops |-> ops, n |-> at]
        ELSE IF raw[at] \notin 1..5 THEN err
        ELSE LET op == CHOOSE o \in DOMAIN TypeByte : TypeByte[o] = raw[at]
             IN  IF HasParameter(raw[at])
                 THEN IF at = Len(raw) THEN err
                      ELSE spec[at + 2, Append(ops, [op |-> op, N |-> raw[at + 1]])]
                 ELSE spec[at + 1, Append(ops, [op |-> op, N |-> 0])]
  IN  spec[1, <<>>]

----------------------------------------------------------------------------
(* Properties *)

\* The bytes of d cut after n bytes, encoded by two Writes and decoded by two
\* Reads that cut the stream after m bytes.
ThroughWire(ops, d, n, m) ==
  LET wire == WriteChunk(ops, 0, SubSeq(d, 1, n))
              \o WriteChunk(ops, n, SubSeq(d, n + 1, Len(d)))
  IN  ReadChunk(ops, 0, SubSeq(wire, 1, m))
      \o ReadChunk(ops, m, SubSeq(wire, m + 1, Len(d)))
=============================================================================
