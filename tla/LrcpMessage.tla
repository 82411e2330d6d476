---------------------------- MODULE LrcpMessage ----------------------------
(***************************************************************************)
(* The text form of LRCP messages: packing and unpacking of fields with    *)
(* escaped slashes.  LrcpBurst models how a line is cut into messages.     *)
(*                                                                         *)
(* A byte is a string of length one.  The action with its slashes and a    *)
(* number are single tokens: only the data field is subject to escaping.   *)
(***************************************************************************)
EXTENDS Integers, Sequences

LOCAL INSTANCE SequencesExt
LOCAL INSTANCE FiniteSetsExt

CONSTANT Numerals  \* tokens that strconv.ParseInt accepts

Slash == "/"
Backslash == "\\"

Special(c) == c \in {Slash, Backslash}

\* The fields of a message by its action.
FieldSorts == [connect |-> <<"int32">>,
               data    |-> <<"int32", "int32", "bytes">>,
               ack     |-> <<"int32", "int32">>,
               close   |-> <<"int32">>]

----------------------------------------------------------------------------
(* Packing *)

\* Mutant: only slashes are escaped.
EscapeSlash(c) == IF c = Slash THEN <<Backslash, c>> ELSE <<c>>

Escape(c) == IF Special(c) THEN <<Backslash, c>> ELSE <<c>>

packField(sort, f) ==
  (IF sort = "bytes" THEN FlattenSeq([i \in DOMAIN f |-> Escape(f[i])]) ELSE f)
  \o <<Slash>>

Marshal(msg) ==
  LET sorts == FieldSorts[msg.action]
  IN  <<msg.action>>
      \o FlattenSeq([k \in DOMAIN sorts |-> packField(sorts[k], msg.fields[k])])

----------------------------------------------------------------------------
(* Unpacking; positions count from 1 *)

\* Mutant: a slash behind a backslash ends the field, too.
EndsAtAnySlash(buf, i) == buf[i] = Slash

EndsField(buf, i) == buf[i] = Slash /\ ~(i > 1 /\ buf[i - 1] = Backslash)

nextSlash(buf) ==
  LET ends == {i \in DOMAIN buf : EndsField(buf, i)}
  IN  IF ends = {} THEN 0 ELSE Min(ends)

\* A backslash is dropped unless it is the first byte or follows another.
Kept(buf, i) == ~(buf[i] = Backslash /\ i > 1 /\ buf[i - 1] # Backslash)

unescape(buf) ==
  FlattenSeq([i \in DOMAIN buf |-> IF Kept(buf, i) THEN <<buf[i]>> ELSE <<>>])

Unknown == [action |-> "unknown", fields |-> <<>>]

\* UnmarshalMessage with unpackFromReader: the message, or Unknown.
UnmarshalMessage(packet) ==
  LET action == Head(packet)
      sorts == FieldSorts[action]
      rest[k \in 0..Len(sorts)] ==
        IF k = 0 THEN Tail(packet)
        ELSE LET b == rest[k - 1] IN SubSeq(b, nextSlash(b) + 1, Len(b))
      field(k) == SubSeq(rest[k - 1], 1, nextSlash(rest[k - 1]) - 1)
      valid(k) == /\ nextSlash(rest[k - 1]) # 0
                  /\ sorts[k] = "int32" => \E n \in Numerals : field(k) = <<n>>
  IN  IF /\ action \in DOMAIN FieldSorts
         /\ \A k \in DOMAIN sorts : valid(k)
         /\ rest[Len(sorts)] = <<>>
      THEN [action |-> action,
            fields |-> [k \in DOMAIN sorts |->
                          IF sorts[k] = "bytes" THEN unescape(field(k))
                          ELSE field(k)]]
      ELSE Unknown

----------------------------------------------------------------------------
(* Properties *)

\* A data field that the decoder gives back as it was: it does not begin with
\* an escaped byte, has none behind a backslash, and does not end in one.
Survives(d) ==
  \A i \in DOMAIN d :
    /\ Special(d[i]) => i > 1 /\ d[i - 1] # Backslash
    /\ i = Len(d) => d[i] # Backslash

RoundTrips(msg) == UnmarshalMessage(Marshal(msg)) = msg
=============================================================================
