----------------------------- MODULE MCAlgorithms -----------------------------
(***************************************************************************)
(* The sequential parts: the heap of the job centre and the framing of its *)
(* requests, the proxy's scan for addresses, the bursts of LRCP, and the   *)
(* codecs on every input of small sets.  A behaviour drives one of them    *)
(* and leaves the others in their initial state.                           *)
(*                                                                         *)
(* heap: up to six jobs, three levels, so that the replacement of a        *)
(* removed job may have to rise.                                           *)
(* framing: streams of six bytes, blocks of two.                           *)
(* coins: messages of up to five bytes, addresses of two or three.         *)
(* burst: lines of up to six bytes; a message has room for four at most,   *)
(* and positions get their second digit within a line.                     *)
(***************************************************************************)
EXTENDS JobHeap, RequestFraming, BogusCoin, LrcpBurst, LrcpMessage, IslCipher,
        SpeedMessage, TLC

Seqs == INSTANCE SequencesExt

VARIABLES part,  \* what a behaviour drives
          input  \* None, or the input of a codec

JobSymmetry == Permutations(Jobs)

\* Bytes and what is sent with them
MCStreams == {s \in Seqs!BoundedSeq(Octets, 6) : Len(s) = 6}
MCSpecials == {Slash, Backslash}
MCRests == Seqs!BoundedSeq(LineBytes, 6) \ {<<>>}
MCdataValidation == <<4, 0, 1>>

DataFields == Seqs!BoundedSeq({"a", "/", "\\"}, 6)
MCChatLines == Seqs!BoundedSeq(Characters, 5) \ {<<>>}
RawSpecs == Seqs!BoundedSeq(Byte, 4)

Strings == {<<>>, <<2>>, <<0, 1>>, <<1, 2, 0>>}
SpeedMessages ==
  [type : {"Error"}, fields : {<<s>> : s \in Strings}]
  \cup [type : {"Plate"}, fields : Strings \X {1, 50}]
  \cup [type : {"Ticket"}, fields : {<<s, 1, 3, 50, 7, 9, 2>> : s \in Strings}]
  \cup [type : {"WantHeartbeat"}, fields : {<<0>>, <<75>>}]
  \cup {[type |-> "Heartbeat", fields |-> <<>>]}
  \cup [type : {"IAmCamera"}, fields : {<<0, 5, 8>>}]
  \cup [type : {"IAmDispatcher"}, fields : {<<s>> : s \in Strings}]

Inputs ==
  [kind : {"data"}, d : DataFields]
  \cup [kind : {"numbers"}, action : {"connect", "ack", "close"}]
  \cup [kind : {"cipher"}, raw : RawSpecs]
  \cup [kind : {"speed"}, m1 : SpeedMessages, m2 : SpeedMessages]

Choose == /\ input = None
          /\ input' \in Inputs

MCInit == /\ part \in {"heap", "framing", "coins", "burst", "codecs"}
          /\ Init /\ FramingInit /\ CoinInit /\ BurstInit /\ input = None

MCNext ==
  /\ \/ part = "heap" /\ Next /\ UNCHANGED <<framingVars, coinVars, burstVars, input>>
     \/ part = "framing" /\ FramingNext /\ UNCHANGED <<vars, coinVars, burstVars, input>>
     \/ part = "coins" /\ CoinNext /\ UNCHANGED <<vars, framingVars, burstVars, input>>
     \/ part = "burst" /\ BurstNext /\ UNCHANGED <<vars, framingVars, coinVars, input>>
     \/ part = "codecs" /\ Choose /\ UNCHANGED <<vars, framingVars, coinVars, burstVars>>
  /\ UNCHANGED part

MCSpec == MCInit /\ [][MCNext]_<<vars, framingVars, coinVars, burstVars, input, part>>

Is(kind) == input # None /\ input.kind = kind

----------------------------------------------------------------------------
(* Properties *)

DataMessage(d) == [action |-> "data", fields |-> <<<<"1">>, <<"2">>, d>>]

\* Packing and unpacking (message.go) gives back every message without data,
\* and a data message exactly when escaped bytes neither begin its data nor
\* follow a backslash, nor a backslash ends it.
LrcpSurvivors ==
  /\ Is("data") => (RoundTrips(DataMessage(input.d)) <=> Survives(input.d))
  /\ Is("numbers") =>
       RoundTrips([action |-> input.action,
                   fields |-> [k \in DOMAIN FieldSorts[input.action] |-> <<"1">>]])

\* What the round trip of message_test.go says of its data: a data message
\* unpacks to the data that was packed, slashes and backslashes included.
EveryDataSurvives == Is("data") => RoundTrips(DataMessage(input.d))

\* Every cipher spec that ReadCipherSpec accepts changes some byte, and what
\* it encodes is decoded to the same bytes, however both sides cut the stream
\* into Reads and Writes and although positions wrap around.
CipherInverts ==
  Is("cipher") =>
    LET spec == ReadCipherSpec(input.raw)
        wrap == byteSize + 1
    IN  spec.ok =>
          /\ \A b \in Byte, n \in {0, 3, wrap}, m \in {0, 2, byteSize} :
               LET d == [i \in 1..wrap |-> b] IN ThroughWire(spec.ops, d, n, m) = d
          /\ \E b \in Byte, i \in Byte : Encoded(spec.ops, b, i) # b

\* Two messages of the speed daemon in a row are read as they were written,
\* and the second one, cut short anywhere, is an error and no other message.
SpeedRoundTrip == Is("speed") => StreamReadsBack(input.m1, input.m2)
=============================================================================
