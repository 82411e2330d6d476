----------------------------- MODULE BogusCoin -----------------------------
(***************************************************************************)
(* The rewriting of addresses by the proxy of 5-mob-in-the-middle:         *)
(* replaceBogusCoin scans a message once; each turn of its two loops is a  *)
(* step.  Positions start at 0, as in Go.                                  *)
(***************************************************************************)
EXTENDS Integers, Sequences

CONSTANTS Characters,       \* bytes
          Alnum,            \* those of A-Z, a-z and 0-9
          Seven, Space,
          ChatLines,        \* what a peer may send: sequences of bytes
          MinCoin, MaxCoin  \* the lengths of an address, 26 and 35

ASSUME AlnumAssumption == Seven \in Alnum /\ Space \notin Alnum
ASSUME ChatLinesAssumption == ChatLines \subseteq Seq(Characters)

VARIABLES message,  \* the message, empty before the call
          scanned,  \* i: how many bytes of it are done with
          ahead,    \* j of the inner loop, 0 outside of it
          isBC,     \* no byte that the inner loop saw rules an address out
          res       \* the result, piece by piece: where a piece comes from in
                    \* the message and whether it was replaced

coinVars == <<message, scanned, ahead, isBC, res>>

CoinInit == message = <<>> /\ scanned = 0 /\ ahead = 0 /\ isBC = TRUE /\ res = <<>>

Piece == [from : Nat, len : Nat \ {0}, coin : BOOLEAN]

----------------------------------------------------------------------------
(* replaceBogusCoin *)

ByteAt(k) == message[k + 1]

\* The call, with a message that is not empty.
replaceBogusCoin(m) ==
  /\ message = <<>>
  /\ message' = m
  /\ UNCHANGED <<scanned, ahead, isBC, res>>

\* Mutant: an address may start anywhere.
StartsAnywhere(k) == ByteAt(k) = Seven

StartsCoin(k) == ByteAt(k) = Seven /\ (k > 0 => ByteAt(k - 1) = Space)

Scanning == ahead = 0 /\ scanned < Len(message)

CopyByte ==
  /\ Scanning /\ ~StartsCoin(scanned)
  /\ res' = Append(res, [from |-> scanned, len |-> 1, coin |-> FALSE])
  /\ scanned' = scanned + 1
  /\ UNCHANGED <<message, ahead, isBC>>

LookAhead ==
  /\ Scanning /\ StartsCoin(scanned)
  /\ ahead' = 1 /\ isBC' = TRUE
  /\ UNCHANGED <<message, scanned, res>>

\* The message or the word ends ahead.
WordEnds == scanned + ahead < Len(message) => ByteAt(scanned + ahead) = Space

LookFurther ==
  /\ ahead > 0 /\ isBC /\ ~WordEnds
  /\ IF ByteAt(scanned + ahead) \in Alnum
     THEN ahead' = ahead + 1 /\ isBC' = isBC
     ELSE isBC' = FALSE /\ ahead' = ahead
  /\ UNCHANGED <<message, scanned, res>>

\* What was looked at is replaced or copied, and done with.
TakeAhead ==
  /\ ahead > 0 /\ (isBC => WordEnds)
  /\ res' = Append(res, [from |-> scanned, len |-> ahead,
                         coin |-> isBC /\ ahead >= MinCoin /\ ahead <= MaxCoin])
  /\ scanned' = scanned + ahead
  /\ ahead' = 0
  /\ UNCHANGED <<message, isBC>>

CoinNext == \/ \E m \in ChatLines : replaceBogusCoin(m)
            \/ CopyByte \/ LookAhead \/ LookFurther \/ TakeAhead

CoinSpec == CoinInit /\ [][CoinNext]_coinVars

----------------------------------------------------------------------------
(* Properties *)

\* The bytes from a up to b are a word, all of it.
IsWord(a, b) ==
  /\ a = 0 \/ ByteAt(a - 1) = Space
  /\ b = Len(message) \/ ByteAt(b) = Space
  /\ \A k \in a..(b - 1) : ByteAt(k) # Space

IsAddress(a, b) ==
  /\ IsWord(a, b)
  /\ b - a >= MinCoin /\ b - a <= MaxCoin
  /\ ByteAt(a) = Seven
  /\ \A k \in a..(b - 1) : ByteAt(k) \in Alnum

EndOf(k) == IF k = 0 THEN 0 ELSE res[k].from + res[k].len

\* The one-pass scan of replaceBogusCoin replaces exactly the words that are
\* addresses, and keeps every other byte once and in its place.
CoinsReplaced ==
  /\ \A k \in DOMAIN res : /\ res[k].from = EndOf(k - 1)
                           /\ res[k].coin => IsAddress(res[k].from, EndOf(k))
  /\ EndOf(Len(res)) = scanned
  /\ \A a, b \in 0..Len(message) :
       a < b /\ b <= scanned /\ IsAddress(a, b) =>
         \E k \in DOMAIN res : res[k] = [from |-> a, len |-> b - a, coin |-> TRUE]
=============================================================================
