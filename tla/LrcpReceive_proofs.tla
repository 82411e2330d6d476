------------------------- MODULE LrcpReceive_proofs -------------------------
(***************************************************************************)
(* Proofs about LrcpReceive: every byte is delivered once, messages stay   *)
(* whole and lines are cut at newlines, for any number of handlers, any    *)
(* stream and any place of its newlines.                                   *)
(***************************************************************************)
EXTENDS LrcpReceive, FiniteSetTheorems, SequenceTheorems, TLAPS

\* Counters, and the bytes that were delivered.
ReceiveTyped ==
  /\ lenTotalIncoming \in 0..StreamLen
  /\ pc \in [Handlers -> {"idle", "stale", "deliver", "piece", "ack"}]
  /\ from \in [Handlers -> Nat] /\ to \in [Handlers -> Nat] /\ total \in [Handlers -> Nat]
  /\ log \in Seq(Nat) /\ acked \in Nat

\* A handler delivers what is accepted, and has some of it left in the loop.
Working(h) == pc[h] \in {"deliver", "piece"}
WithinAccepted ==
  \A h \in Handlers :
    /\ Working(h) => from[h] <= to[h] /\ to[h] <= lenTotalIncoming
    /\ pc[h] = "piece" => from[h] < to[h]

\* What is or will be acknowledged is accepted.
AcksAccepted ==
  /\ \A h \in Handlers : Working(h) \/ pc[h] = "ack" => total[h] <= lenTotalIncoming
  /\ acked <= lenTotalIncoming

\* No byte is delivered twice; a byte that a handler has still to deliver was
\* not delivered, and no other handler will deliver it.
NoneTwice ==
  /\ \A j, k \in 1..Len(log) : log[j] = log[k] => j = k
  /\ \A k \in 1..Len(log) : log[k] \in 1..lenTotalIncoming
  /\ \A k \in 1..Len(log), h \in Handlers : log[k] \notin Pending(h)
  /\ \A g, h \in Handlers : g # h => Pending(g) \cap Pending(h) = {}

\* Every accepted byte is delivered or at a handler.
NoneLost ==
  ~ctxDone => \A b \in 1..lenTotalIncoming :
    b \in Delivered \/ \E h \in Handlers : b \in Pending(h)

\* The inductive invariant.
IInv == ReceiveTyped /\ WithinAccepted /\ AcksAccepted /\ NoneTwice /\ NoneLost

\* No byte was accepted yet.
LEMMA InitIInv == Init => IInv
<1> SUFFICES ASSUME Init PROVE IInv
  OBVIOUS
<1>1. log = <<>> /\ Len(log) = 0 /\ log \in Seq(Nat)
  BY DEF Init
<1>2. \A h \in Handlers : ~Working(h) /\ Pending(h) = {}
  BY DEF Init, Working, Pending
<1>3. ReceiveTyped
  BY <1>1, StreamAssumption DEF Init, ReceiveTyped
<1>4. WithinAccepted /\ AcksAccepted
  BY <1>2 DEF Init, WithinAccepted, AcksAccepted
<1>5. NoneTwice
  BY <1>1, <1>2 DEF NoneTwice
<1>6. NoneLost
  BY DEF Init, NoneLost
<1> QED
  BY <1>3, <1>4, <1>5, <1>6 DEF IInv

----------------------------------------------------------------------------
\* A set of numbers that is not empty has a smallest one.
LEMMA HasMinimum ==
  ASSUME NEW S, S \subseteq Nat, S # {}
  PROVE  \E n \in S : \A m \in S : n <= m
<1> DEFINE R == {p \in Nat \X Nat : p[1] < p[2]}
<1>1. IsWellFoundedOn(R, Nat)
  BY NatLessThanWellFounded, Zenon DEF OpToRel
<1>2. \A x, y \in Nat : <<y, x>> \in R <=> y < x
  OBVIOUS
<1> HIDE DEF R
<1>3. PICK n \in S : \A m \in S : ~(<<m, n>> \in R)
  BY <1>1, WFMin
<1>4. ASSUME NEW m \in S PROVE n <= m
  <2>1. m \in Nat /\ n \in Nat
    OBVIOUS
  <2>2. ~(m < n)
    BY <1>2, <1>3, <2>1, Zenon
  <2> QED
    BY <2>1, <2>2
<1> QED
  BY <1>4

\* A turn of the loop takes at least a byte and no more than there are.
LEMMA PieceWithin ==
  ASSUME IInv, NEW h \in Handlers, pc[h] = "piece"
  PROVE  PieceEnd(h) \in Nat /\ from[h] < PieceEnd(h) /\ PieceEnd(h) <= to[h]
<1>1. from[h] \in Nat /\ to[h] \in Nat /\ from[h] < to[h]
  BY DEF IInv, ReceiveTyped, WithinAccepted
<1> DEFINE nls == {n \in Newlines : from[h] < n /\ n <= to[h]}
<1>2. CASE nls = {}
  BY <1>1, <1>2 DEF PieceEnd
<1>3. CASE nls # {}
  <2>1. nls \subseteq Nat
    BY StreamAssumption
  <2>2. \E n \in nls : \A m \in nls : n <= m
    BY <1>3, <2>1, HasMinimum
  <2>3. PieceEnd(h) \in nls
    BY <1>3, <2>2 DEF PieceEnd
  <2> QED
    BY <2>1, <2>3
<1> QED
  BY <1>2, <1>3

\* What the end of a turn adds to the log.
LEMMA LogExtended ==
  ASSUME NEW l \in Seq(Nat), NEW a \in Nat, NEW b \in Nat, a <= b
  PROVE  /\ l \o Bytes(a, b) \in Seq(Nat)
         /\ Len(l \o Bytes(a, b)) = Len(l) + (b - a)
         /\ \A k \in 1..Len(l) : (l \o Bytes(a, b))[k] = l[k]
         /\ \A k \in 1..(b - a) : (l \o Bytes(a, b))[Len(l) + k] = a + k
<1>1. b - a \in Nat
  OBVIOUS
<1>2. Bytes(a, b) \in Seq(Nat) /\ Len(Bytes(a, b)) = b - a
  BY <1>1 DEF Bytes
<1>3. \A k \in 1..(b - a) : Bytes(a, b)[k] = a + k
  BY DEF Bytes
<1> DEFINE t == Bytes(a, b)
<1> HIDE DEF t
<1>4. t \in Seq(Nat) /\ Len(t) = b - a /\ \A k \in 1..(b - a) : t[k] = a + k
  BY <1>2, <1>3 DEF t
<1>5. /\ l \o t \in Seq(Nat) /\ Len(l) \in Nat /\ Len(l \o t) = Len(l) + (b - a)
      /\ \A k \in 1..(Len(l) + (b - a)) :
           (l \o t)[k] = IF k <= Len(l) THEN l[k] ELSE t[k - Len(l)]
  <2>1. /\ l \o t \in Seq(Nat) /\ Len(l \o t) = Len(l) + Len(t)
        /\ \A k \in 1..(Len(l) + Len(t)) :
             (l \o t)[k] = IF k <= Len(l) THEN l[k] ELSE t[k - Len(l)]
    <3> HIDE DEF t
    <3> QED
      BY <1>4, ConcatProperties, Zenon
  <2>2. Len(l) \in Nat
    OBVIOUS
  <2> QED
    BY <1>4, <2>1, <2>2, Zenon
<1>6. \A k \in 1..Len(l) : (l \o t)[k] = l[k]
  BY <1>1, <1>5
<1>7. ASSUME NEW k \in 1..(b - a) PROVE (l \o t)[Len(l) + k] = a + k
  <2>1. (l \o t)[Len(l) + k] = t[k]
    <3>1. /\ Len(l) + k \in 1..(Len(l) + (b - a)) /\ ~(Len(l) + k <= Len(l))
          /\ (Len(l) + k) - Len(l) = k
      BY <1>1, <1>5
    <3> QED
      BY <1>5, <3>1
  <2> QED
    BY <1>4, <2>1
<1> QED
  BY <1>5, <1>6, <1>7 DEF t

\* The sequence g is l with the bytes after a up to b behind it.
Extension(g, l, a, b) ==
  /\ g \in Seq(Nat) /\ Len(g) = Len(l) + (b - a)
  /\ \A k \in 1..Len(l) : g[k] = l[k]
  /\ \A k \in 1..(b - a) : g[Len(l) + k] = a + k

\* The same in one word, for steps that do not look into it.
LEMMA LogIsExtended ==
  ASSUME NEW l \in Seq(Nat), NEW a \in Nat, NEW b \in Nat, a <= b
  PROVE  Extension(l \o Bytes(a, b), l, a, b)
BY LogExtended DEF Extension

----------------------------------------------------------------------------
\* A step in which no handler takes or gives up bytes.
LEMMA SameBytes ==
  ASSUME IInv, UNCHANGED <<lenTotalIncoming, from, to, log>>,
         pc' \in [Handlers -> {"idle", "stale", "deliver", "piece", "ack"}],
         \A h \in Handlers : /\ Pending(h)' = Pending(h)
                             /\ Working(h)' => Working(h)
                             /\ pc'[h] = "piece" => from[h] < to[h]
                             /\ pc'[h] = "ack" => total'[h] <= lenTotalIncoming
                             /\ Working(h)' => total'[h] = total[h],
         total' \in [Handlers -> Nat],
         acked' \in Nat, acked' <= lenTotalIncoming,
         ctxDone => ctxDone'
  PROVE  IInv'
<1> USE DEF IInv
<1>1. ReceiveTyped' /\ WithinAccepted' /\ AcksAccepted'
  BY DEF ReceiveTyped, WithinAccepted, AcksAccepted
<1>2. NoneTwice'
  BY DEF NoneTwice
<1>3. NoneLost'
  BY DEF NoneLost, Delivered
<1> QED
  BY <1>1, <1>2, <1>3

\* The context is done: what is left of a message is dropped.
LEMMA AbandonKeeps ==
  ASSUME IInv, NEW x \in Handlers, Abandon(x)
  PROVE  IInv'
<1> USE DEF IInv
<1>1. /\ UNCHANGED <<lenTotalIncoming, from, to, total, log, acked, ctxDone>>
      /\ pc' = [pc EXCEPT ![x] = "idle"] /\ ctxDone
  BY DEF Abandon
<1>2. \A h \in Handlers : Pending(h)' \subseteq Pending(h) /\ (Working(h)' => Working(h))
  BY <1>1 DEF Pending, Working, ReceiveTyped
<1>3. ReceiveTyped' /\ WithinAccepted' /\ AcksAccepted'
  BY <1>1 DEF ReceiveTyped, WithinAccepted, AcksAccepted, Working
<1>4. NoneTwice'
  BY <1>1, <1>2 DEF NoneTwice
<1>5. NoneLost'
  BY <1>1 DEF NoneLost
<1> QED
  BY <1>3, <1>4, <1>5

\* A message is accepted: its handler gets what is beyond lenTotalIncoming.
LEMMA AcceptKeeps ==
  ASSUME IInv, NEW x \in Handlers, NEW pos \in 0..StreamLen, NEW len \in 0..(StreamLen - pos),
         HandleData(x, pos, len), ~Useless(pos, len)
  PROVE  IInv'
<1> USE DEF IInv
<1> DEFINE L == lenTotalIncoming
           N == pos + len
<1>1. /\ from' = [from EXCEPT ![x] = L] /\ to' = [to EXCEPT ![x] = N]
      /\ total' = [total EXCEPT ![x] = N] /\ lenTotalIncoming' = N
      /\ pc' = [pc EXCEPT ![x] = "deliver"] /\ pc[x] = "idle"
      /\ UNCHANGED <<log, ctxDone, acked>>
  BY DEF HandleData, NewFrom, lineVars
<1>2. L \in Nat /\ N \in 0..StreamLen /\ N \in Nat /\ L < N
  BY StreamAssumption DEF Useless, ReceiveTyped
<1> HIDE DEF L, N
<1>3. Pending(x) = {} /\ Pending(x)' = (L + 1)..N
  BY <1>1 DEF Pending, ReceiveTyped
<1>4. \A h \in Handlers \ {x} : /\ Pending(h)' = Pending(h) /\ Working(h)' = Working(h)
                                /\ from'[h] = from[h] /\ to'[h] = to[h]
                                /\ total'[h] = total[h] /\ pc'[h] = pc[h]
  BY <1>1 DEF Pending, Working, ReceiveTyped
<1>5. \A h \in Handlers : Pending(h) \subseteq 1..L
  BY <1>2 DEF Pending, Working, WithinAccepted, ReceiveTyped, L
<1>6. ReceiveTyped'
  BY <1>1, <1>2 DEF ReceiveTyped
<1>7. WithinAccepted' /\ AcksAccepted'
  <2>1. from'[x] = L /\ to'[x] = N /\ total'[x] = N /\ pc'[x] = "deliver"
    BY <1>1 DEF ReceiveTyped
  <2>2. ASSUME NEW h \in Handlers \ {x}
        PROVE  /\ Working(h)' => from'[h] <= to'[h] /\ to'[h] <= N
               /\ pc'[h] = "piece" => from'[h] < to'[h]
               /\ Working(h)' \/ pc'[h] = "ack" => total'[h] <= N
    BY <1>2, <1>4 DEF WithinAccepted, AcksAccepted, ReceiveTyped, L
  <2>3. acked' <= N
    BY <1>1, <1>2 DEF AcksAccepted, ReceiveTyped, L
  <2> QED
    BY <1>1, <1>2, <2>1, <2>2, <2>3 DEF WithinAccepted, AcksAccepted
<1>8. NoneTwice'
  <2>1. \A k \in 1..Len(log) : log[k] \in 1..L
    BY DEF NoneTwice, L
  <2>2. \A k \in 1..Len(log) : log[k] \in 1..N
    BY <1>2, <2>1
  <2>3. \A k \in 1..Len(log), h \in Handlers : log[k] \notin Pending(h)'
    BY <1>2, <1>3, <1>4, <2>1 DEF NoneTwice
  <2>4. \A g, h \in Handlers : g # h => Pending(g)' \cap Pending(h)' = {}
    <3> SUFFICES ASSUME NEW g \in Handlers, NEW h \in Handlers, g # h,
                        NEW b \in Pending(g)', b \in Pending(h)'
                 PROVE  FALSE
      OBVIOUS
    <3>1. \A i \in Handlers \ {x} : b \in Pending(i)' => b \in Pending(i) /\ b \in 1..L
      BY <1>4, <1>5
    <3>2. b \in Pending(x)' => ~(b \in 1..L)
      BY <1>2, <1>3
    <3> QED
      BY <3>1, <3>2 DEF NoneTwice
  <2> QED
    BY <1>1, <2>2, <2>3, <2>4 DEF NoneTwice
<1>9. NoneLost'
  <2> SUFFICES ASSUME ~ctxDone, NEW b \in 1..N
               PROVE  b \in Delivered' \/ \E h \in Handlers : b \in Pending(h)'
    BY <1>1 DEF NoneLost
  <2>1. CASE b \in 1..L
    <3>1. b \in Delivered \/ \E h \in Handlers : b \in Pending(h)
      BY <2>1 DEF NoneLost, L
    <3>2. Delivered' = Delivered
      BY <1>1 DEF Delivered
    <3> QED
      BY <1>3, <1>4, <3>1, <3>2
  <2>2. CASE b \in (L + 1)..N
    BY <1>3, <2>2
  <2> QED
    BY <1>2, <2>1, <2>2
<1> QED
  BY <1>6, <1>7, <1>8, <1>9

\* A turn of the loop moves bytes from the handler to the log.
LEMMA PieceKeeps ==
  ASSUME IInv, NEW x \in Handlers, Piece(x)
  PROVE  IInv'
<1> USE DEF IInv
<1> DEFINE a == from[x]
           e == PieceEnd(x)
           L == Len(log)
<1>1. /\ UNCHANGED <<lenTotalIncoming, to, total, acked, ctxDone>>
      /\ from' = [from EXCEPT ![x] = e] /\ log' = log \o Bytes(a, e)
      /\ pc' = [pc EXCEPT ![x] = "deliver"] /\ pc[x] = "piece"
  BY DEF Piece
<1>2. a \in Nat /\ e \in Nat /\ a < e /\ e <= to[x] /\ to[x] \in Nat
  BY <1>1, PieceWithin DEF ReceiveTyped
<1> HIDE DEF a, e
<1>3. /\ log' \in Seq(Nat) /\ L \in Nat /\ Len(log') = L + (e - a)
      /\ \A k \in 1..L : log'[k] = log[k]
      /\ \A k \in 1..(e - a) : log'[L + k] = a + k
  <2>1. log \in Seq(Nat) /\ a <= e /\ L \in Nat
    BY <1>2 DEF ReceiveTyped
  <2>2. Extension(log \o Bytes(a, e), log, a, e)
    BY <1>2, <2>1, LogIsExtended
  <2>3. Extension(log', log, a, e)
    BY <1>1, <2>2
  <2> QED
    BY <2>1, <2>3 DEF Extension
<1> HIDE DEF L
<1>4. Pending(x) = (a + 1)..to[x] /\ Pending(x)' = (e + 1)..to[x]
  BY <1>1, <1>2 DEF Pending, ReceiveTyped, a
<1>5. \A h \in Handlers \ {x} : /\ Pending(h)' = Pending(h) /\ Working(h)' = Working(h)
                                /\ from'[h] = from[h] /\ pc'[h] = pc[h]
  BY <1>1 DEF Pending, Working, ReceiveTyped
<1>6. ASSUME NEW k \in 1..Len(log')
      PROVE  \/ k \in 1..L /\ log'[k] = log[k]
             \/ /\ k - L \in 1..(e - a) /\ log'[k] = a + (k - L)
                /\ log'[k] \in Pending(x) /\ log'[k] <= e
  <2>1. CASE k \in 1..L
    BY <1>3, <2>1
  <2>2. CASE k \notin 1..L
    <3>1. k - L \in 1..(e - a) /\ L + (k - L) = k
      BY <1>2, <1>3, <2>2
    <3>2. log'[k] = a + (k - L)
      BY <1>3, <3>1
    <3> QED
      BY <1>2, <1>4, <3>1, <3>2
  <2> QED
    BY <2>1, <2>2
<1>7. ReceiveTyped'
  BY <1>1, <1>2, <1>3 DEF ReceiveTyped
<1>8. WithinAccepted' /\ AcksAccepted'
  <2>1. from'[x] = e /\ pc'[x] = "deliver" /\ Working(x)
    BY <1>1 DEF ReceiveTyped, Working
  <2> QED
    BY <1>1, <1>2, <1>5, <2>1 DEF WithinAccepted, AcksAccepted, Working
<1>9. NoneTwice'
  <2>1. \A j, k \in 1..Len(log') : log'[j] = log'[k] => j = k
    <3> SUFFICES ASSUME NEW j \in 1..Len(log'), NEW k \in 1..Len(log'), log'[j] = log'[k]
                 PROVE  j = k
      OBVIOUS
    <3>1. CASE j \in 1..L /\ k \in 1..L
      BY <1>3, <3>1 DEF NoneTwice, L
    <3>2. \A i \in 1..L : log'[i] = log[i] /\ log[i] \notin Pending(x)
      BY <1>3 DEF NoneTwice, L
    <3>3. CASE (j \in 1..L /\ k \notin 1..L) \/ (j \notin 1..L /\ k \in 1..L)
      BY <1>6, <3>2, <3>3
    <3>4. CASE j \notin 1..L /\ k \notin 1..L
      <4>1. a + (j - L) = a + (k - L)
        BY <1>6, <3>4
      <4> QED
        BY <1>2, <1>3, <4>1
    <3> QED
      BY <3>1, <3>3, <3>4
  <2>2. \A h \in Handlers : Working(h) => Pending(h) \subseteq 1..lenTotalIncoming
    BY DEF WithinAccepted, Pending, Working, ReceiveTyped
  <2>3. \A k \in 1..Len(log') : log'[k] \in 1..lenTotalIncoming
    <3>1. Working(x)
      BY <1>1 DEF Working
    <3> QED
      BY <1>6, <2>2, <3>1 DEF NoneTwice, L
  <2>4. \A k \in 1..Len(log'), h \in Handlers : log'[k] \notin Pending(h)'
    <3> SUFFICES ASSUME NEW k \in 1..Len(log'), NEW h \in Handlers PROVE log'[k] \notin Pending(h)'
      OBVIOUS
    <3>1. Pending(h)' \subseteq Pending(h)
      BY <1>2, <1>4, <1>5
    <3>2. CASE k \in 1..L
      BY <1>3, <3>1, <3>2 DEF NoneTwice, L
    <3>3. CASE k \notin 1..L
      <4>1. log'[k] \in Pending(x) /\ log'[k] <= e
        BY <1>6, <3>3
      <4>2. log'[k] \notin Pending(x)'
        BY <1>2, <1>4, <4>1
      <4>3. h # x => log'[k] \notin Pending(h)
        BY <4>1 DEF NoneTwice
      <4> QED
        BY <3>1, <4>2, <4>3
    <3> QED
      BY <3>2, <3>3
  <2>5. \A g, h \in Handlers : g # h => Pending(g)' \cap Pending(h)' = {}
    <3>1. \A h \in Handlers : Pending(h)' \subseteq Pending(h)
      BY <1>2, <1>4, <1>5
    <3> QED
      BY <3>1 DEF NoneTwice
  <2> QED
    BY <1>1, <2>1, <2>3, <2>4, <2>5 DEF NoneTwice
<1>10. NoneLost'
  <2> SUFFICES ASSUME ~ctxDone, NEW b \in 1..lenTotalIncoming
               PROVE  b \in Delivered' \/ \E h \in Handlers : b \in Pending(h)'
    BY <1>1 DEF NoneLost
  <2>1. CASE b \in Delivered
    <3>1. PICK k \in 1..L : b = log[k]
      BY <2>1 DEF Delivered, ReceiveTyped, L
    <3>2. k \in DOMAIN log' /\ log'[k] = b
      BY <1>2, <1>3, <3>1
    <3> QED
      BY <3>2 DEF Delivered
  <2>2. ASSUME NEW h \in Handlers, h # x, b \in Pending(h)
        PROVE  \E g \in Handlers : b \in Pending(g)'
    BY <1>5, <2>2
  <2>3. CASE b \in (a + 1)..e
    <3>1. b - a \in 1..(e - a) /\ a + (b - a) = b
      BY <1>2, <2>3
    <3>2. log'[L + (b - a)] = b
      BY <1>3, <3>1
    <3>3. L + (b - a) \in 1..(L + (e - a))
      <4>1. L \in Nat /\ b - a \in Int /\ e - a \in Int
        BY <1>2, <1>3, <2>3
      <4> QED
        BY <3>1, <4>1
    <3>4. L + (b - a) \in DOMAIN log'
      BY <1>3, <3>3
    <3> QED
      BY <3>2, <3>4 DEF Delivered
  <2>4. CASE b \in (e + 1)..to[x]
    BY <1>4, <2>4
  <2>5. b \in Pending(x) => b \in (a + 1)..e \/ b \in (e + 1)..to[x]
    BY <1>2, <1>4
  <2> QED
    BY <2>1, <2>2, <2>3, <2>4, <2>5 DEF NoneLost
<1> QED
  BY <1>7, <1>8, <1>9, <1>10

----------------------------------------------------------------------------
\* The bytes that were delivered are as many as the log is long.
LEMMA LogCounts ==
  ASSUME ReceiveTyped, NoneTwice
  PROVE  Len(log) = Cardinality(Delivered)
<1> DEFINE D == 1..Len(log)
<1>1. Len(log) \in Nat /\ DOMAIN log = D
  BY DEF ReceiveTyped
<1>2. IsFiniteSet(D) /\ Cardinality(D) = Len(log)
  <2>1. 1 \in Int /\ Len(log) \in Int
    BY <1>1
  <2>2. IsFiniteSet(D) /\ Cardinality(D) = IF 1 > Len(log) THEN 0 ELSE Len(log) - 1 + 1
    BY <2>1, FS_Interval, Zenon
  <2> QED
    BY <1>1, <2>2
<1>3. log \in [D -> Delivered]
  BY <1>1 DEF Delivered, ReceiveTyped
<1>4. log \in Surjection(D, Delivered)
  BY <1>1, <1>3 DEF Surjection, Delivered
<1>5. log \in Injection(D, Delivered)
  BY <1>1, <1>3 DEF Injection, IsInjective, NoneTwice
<1> QED
  BY <1>2, <1>4, <1>5, FS_Surjection

\* The inductive invariant of the receiver holds in every state.
THEOREM InvariantHolds == Spec => []IInv
<1>1. IInv /\ [Next]_vars => IInv'
  <2> SUFFICES ASSUME IInv, [Next]_vars PROVE IInv'
    OBVIOUS
  <2> USE DEF IInv
  <2>1. CASE TakeLine \/ Close \/ UNCHANGED vars
    <3>1. /\ UNCHANGED <<lenTotalIncoming, pc, from, to, total, log, acked>>
          /\ ctxDone => ctxDone'
      BY <2>1 DEF TakeLine, Close, vars, handlerVars, lineVars
    <3>2. \A h \in Handlers : Pending(h)' = Pending(h) /\ Working(h)' = Working(h)
      BY <3>1 DEF Pending, Working
    <3> QED
      BY <3>1, <3>2, SameBytes DEF ReceiveTyped, WithinAccepted, AcksAccepted
  <2>2. ASSUME NEW x \in Handlers, LockData(x) \/ NextPiece(x) \/ UnlockData(x)
        PROVE  IInv'
    <3>1. /\ UNCHANGED <<lenTotalIncoming, from, to, total, log, acked, ctxDone>>
          /\ pc' \in [Handlers -> {"idle", "stale", "deliver", "piece", "ack"}]
          /\ \A h \in Handlers : pc'[h] = "piece" => from[h] < to[h]
          /\ \A h \in Handlers : pc'[h] = "ack" => pc[h] = "ack" \/ Working(h)
      BY <2>2 DEF LockData, NextPiece, UnlockData, handlerVars, lineVars, ReceiveTyped,
         WithinAccepted, Working
    <3>2. \A h \in Handlers : Pending(h)' = Pending(h) /\ (Working(h)' => Working(h))
      BY <2>2, <3>1 DEF LockData, NextPiece, UnlockData, handlerVars, Pending, Working,
         ReceiveTyped
    <3> QED
      BY <3>1, <3>2, SameBytes DEF ReceiveTyped, AcksAccepted
  <2>3. ASSUME NEW x \in Handlers, Ack(x) \/ AckStale(x) \/ HandleConnect(x) PROVE IInv'
    <3>1. /\ UNCHANGED <<lenTotalIncoming, from, to, log, ctxDone>>
          /\ pc' \in [Handlers -> {"idle", "stale", "deliver", "piece", "ack"}]
          /\ \A h \in Handlers \ {x} : pc'[h] = pc[h] /\ total'[h] = total[h]
          /\ ~Working(x) /\ pc'[x] \in {"idle", "ack"}
          /\ pc'[x] = "ack" => total'[x] = lenTotalIncoming
      BY <2>3 DEF Ack, AckStale, HandleConnect, lineVars, ReceiveTyped, Working
    <3>2. total' \in [Handlers -> Nat]
      <4>1. lenTotalIncoming \in Nat
        BY StreamAssumption DEF ReceiveTyped
      <4> QED
        BY <2>3, <4>1 DEF Ack, AckStale, HandleConnect, ReceiveTyped
    <3>3. acked' \in Nat /\ acked' <= lenTotalIncoming
      BY <2>3 DEF Ack, AckStale, HandleConnect, SendAck, AckedLength, AcksAccepted,
         ReceiveTyped
    <3>4. \A h \in Handlers : Pending(h)' = Pending(h) /\ (Working(h)' => Working(h))
      BY <3>1 DEF Pending, Working, ReceiveTyped
    <3>5. \A h \in Handlers : /\ pc'[h] = "piece" => from[h] < to[h]
                              /\ pc'[h] = "ack" => total'[h] <= lenTotalIncoming
                              /\ Working(h)' => total'[h] = total[h]
      BY <3>1 DEF WithinAccepted, AcksAccepted, ReceiveTyped, Working
    <3> QED
      BY <3>1, <3>2, <3>3, <3>4, <3>5, SameBytes
  <2>4. ASSUME NEW x \in Handlers, NEW pos \in 0..StreamLen,
               NEW len \in 0..(StreamLen - pos), HandleData(x, pos, len), Useless(pos, len)
        PROVE  IInv'
    <3>1. /\ UNCHANGED <<lenTotalIncoming, from, to, total, log, acked, ctxDone>>
          /\ pc' = [pc EXCEPT ![x] = "stale"] /\ pc[x] = "idle"
      BY <2>4 DEF HandleData, lineVars
    <3>2. \A h \in Handlers : /\ Pending(h)' = Pending(h) /\ (Working(h)' => Working(h))
                              /\ pc'[h] \in {"piece", "ack"} => pc'[h] = pc[h]
      BY <3>1 DEF Pending, Working, ReceiveTyped
    <3> QED
      BY <3>1, <3>2, SameBytes DEF ReceiveTyped, WithinAccepted, AcksAccepted
  <2> QED
    BY <2>1, <2>2, <2>3, <2>4, AbandonKeeps, AcceptKeeps, PieceKeeps DEF Next, Deliver
<1> QED
  BY InitIInv, <1>1, PTL DEF Spec

\* Overlapping, repeated and reordered messages are delivered as bytes exactly
\* once, and only accepted bytes are acknowledged.
THEOREM BytesOnce == Spec => []EveryByteOnce
<1>1. IInv => EveryByteOnce
  <2> SUFFICES ASSUME IInv PROVE EveryByteOnce
    OBVIOUS
  <2> USE DEF IInv
  <2>1. Len(log) = Cardinality(Delivered)
    BY LogCounts
  <2>2. DOMAIN log = 1..Len(log)
    BY DEF ReceiveTyped
  <2>3. \A h \in Handlers : Pending(h) \cap Delivered = {}
    BY <2>2 DEF NoneTwice, Delivered
  <2>4. Delivered \subseteq 1..lenTotalIncoming
    BY <2>2 DEF NoneTwice, Delivered
  <2>5. \A h \in Handlers : Pending(h) \subseteq 1..lenTotalIncoming
    BY DEF WithinAccepted, Working, Pending, ReceiveTyped
  <2>6. ~ctxDone => Delivered \cup UNION {Pending(h) : h \in Handlers} = 1..lenTotalIncoming
    BY <2>4, <2>5 DEF NoneLost
  <2> QED
    BY <2>1, <2>3, <2>6 DEF EveryByteOnce, NoneTwice, AcksAccepted
<1> QED
  BY InvariantHolds, <1>1, PTL

----------------------------------------------------------------------------
(* Messages stay whole, and lines are cut at newlines *)

\* The lines that were cut, taken by the application or not.
All == lines \o incomingChan

WholeTyped ==
  /\ dataLock \subseteq Handlers /\ cuts \subseteq Nat
  /\ incomingBuf \in Seq(Nat)
  /\ incomingChan \in Seq(Seq(Nat)) /\ lines \in Seq(Seq(Nat))

\* One handler at most has lockIncomingData, and it works on a message.
OneDelivers ==
  /\ \A g, h \in dataLock : g = h
  /\ \A h \in dataLock : Working(h)
  /\ \A h \in Handlers : pc[h] = "piece" => h \in dataLock

\* Messages are accepted one behind the other.
CutsAccepted ==
  /\ lenTotalIncoming \in cuts \cup {0}
  /\ \A h \in Handlers :
       Working(h) => to[h] \in cuts /\ (h \notin dataLock => from[h] \in cuts \cup {0})

AtCut == log = <<>> \/ log[Len(log)] \in cuts

\* The holder of the lock goes on where it was, or begins its message.
GoesOn(h) == \/ log # <<>> /\ log[Len(log)] = from[h]
             \/ AtCut /\ from[h] \in cuts \cup {0}

\* The log changes from one message to another at the ends of messages only.
Adjoining ==
  /\ \A k \in 1..(Len(log) - 1) :
       log[k + 1] = log[k] + 1 \/ (log[k] \in cuts /\ log[k + 1] - 1 \in cuts \cup {0})
  /\ ~ctxDone /\ dataLock = {} => AtCut
  /\ \A h \in dataLock : ~ctxDone \/ pc[h] = "piece" => GoesOn(h)

\* More bytes may be delivered.
GoingOn == ~ctxDone \/ \E h \in Handlers : pc[h] = "piece"

Start(ends, n) == IF n = 0 THEN 0 ELSE ends[n]

\* The places of newlines in the log are ends, which cut it into the lines.
CutInto(ends) ==
  /\ Len(ends) = Len(All)
  /\ \A n \in 1..Len(ends) : ends[n] \in 1..Len(log) /\ log[ends[n]] \in Newlines
  /\ \A m, n \in 1..Len(ends) : m < n => ends[m] < ends[n]
  /\ \A k \in 1..Len(log) : log[k] \in Newlines => \E n \in 1..Len(ends) : ends[n] = k
  /\ \A n \in 1..Len(ends) : All[n] = SubSeq(log, Start(ends, n - 1) + 1, ends[n] - 1)
  /\ GoingOn => incomingBuf = SubSeq(log, Start(ends, Len(ends)) + 1, Len(log))

LinesCut == \E ends \in Seq(Nat) : CutInto(ends)

WholeInv == WholeTyped /\ OneDelivers /\ CutsAccepted /\ Adjoining /\ LinesCut

\* Nothing was delivered yet.
LEMMA WholeInit == Init => WholeInv
<1> SUFFICES ASSUME Init PROVE WholeInv
  OBVIOUS
<1>1. /\ log = <<>> /\ incomingBuf = <<>> /\ incomingChan = <<>> /\ lines = <<>>
      /\ dataLock = {} /\ cuts = {} /\ lenTotalIncoming = 0
      /\ \A h \in Handlers : pc[h] = "idle"
  BY DEF Init
<1>2. WholeTyped
  BY <1>1 DEF WholeTyped
<1>3. OneDelivers /\ CutsAccepted
  BY <1>1 DEF OneDelivers, CutsAccepted, Working
<1>4. Adjoining
  BY <1>1 DEF Adjoining, AtCut
<1>5. CutInto(<<>>)
  <2>1. All = <<>>
    BY <1>1 DEF All
  <2>2. SubSeq(log, 1, Len(log)) = <<>>
    BY <1>1
  <2> QED
    BY <1>1, <2>1, <2>2 DEF CutInto, Start
<1>6. <<>> \in Seq(Nat)
  OBVIOUS
<1> QED
  BY <1>2, <1>3, <1>4, <1>5, <1>6 DEF WholeInv, LinesCut

\* A step that delivers nothing leaves the lines as they are.
LEMMA LinesStay ==
  ASSUME LinesCut, log' = log, All' = All, GoingOn' => GoingOn /\ incomingBuf' = incomingBuf
  PROVE  LinesCut'
<1>1. PICK ends \in Seq(Nat) : CutInto(ends)
  BY DEF LinesCut
<1>2. CutInto(ends)'
  BY <1>1 DEF CutInto, Start
<1> QED
  BY <1>2 DEF LinesCut

\* A handler that does not deliver takes a message that brings nothing, or
\* acknowledges.
LEMMA IdleWhole ==
  ASSUME IInv, WholeInv, NEW x \in Handlers, NEW s \in {"idle", "stale", "ack"},
         pc[x] \in {"idle", "stale", "ack"}, pc' = [pc EXCEPT ![x] = s],
         UNCHANGED <<lenTotalIncoming, from, to, lineVars, ctxDone, cuts>>
  PROVE  WholeInv'
<1>1. /\ UNCHANGED <<dataLock, incomingBuf, incomingChan, lines, log>>
      /\ pc \in [Handlers -> {"idle", "stale", "deliver", "piece", "ack"}]
  BY DEF lineVars, IInv, ReceiveTyped
<1>2. \A h \in Handlers : /\ Working(h)' = Working(h)
                          /\ pc'[h] = "piece" <=> pc[h] = "piece"
  BY <1>1 DEF Working
<1>3. WholeTyped'
  BY <1>1 DEF WholeInv, WholeTyped
<1>4. OneDelivers'
  BY <1>1, <1>2 DEF WholeInv, OneDelivers, WholeTyped
<1>5. CutsAccepted'
  BY <1>1, <1>2 DEF WholeInv, CutsAccepted
<1>6. Adjoining'
  BY <1>1, <1>2 DEF WholeInv, Adjoining, WholeTyped, AtCut, GoesOn
<1>7. LinesCut'
  BY <1>1, <1>2, LinesStay DEF WholeInv, All, GoingOn
<1> QED
  BY <1>3, <1>4, <1>5, <1>6, <1>7 DEF WholeInv

\* The head of a channel moves to the end of what was taken from it.
LEMMA HeadMoves ==
  ASSUME NEW S, NEW l \in Seq(S), NEW c \in Seq(S), c # <<>>
  PROVE  Append(l, Head(c)) \o Tail(c) = l \o c
<1>1. Head(c) \in S /\ Tail(c) \in Seq(S) /\ Len(Tail(c)) = Len(c) - 1 /\ Len(c) \in Nat \ {0}
  OBVIOUS
<1>2. \A k \in 1..(Len(c) - 1) : Tail(c)[k] = c[k + 1]
  OBVIOUS
<1>3. /\ Append(l, Head(c)) \in Seq(S) /\ Len(Append(l, Head(c))) = Len(l) + 1
      /\ \A k \in 1..Len(l) : Append(l, Head(c))[k] = l[k]
      /\ Append(l, Head(c))[Len(l) + 1] = c[1]
  BY <1>1
<1> QED
  BY <1>1, <1>2, <1>3, Len(l) \in Nat

\* The application takes a line.
LEMMA TakeWhole ==
  ASSUME IInv, WholeInv, TakeLine
  PROVE  WholeInv'
<1>1. /\ UNCHANGED <<lenTotalIncoming, pc, from, to, dataLock, incomingBuf, log, ctxDone, cuts>>
      /\ incomingChan # <<>> /\ lines' = Append(lines, Head(incomingChan))
      /\ incomingChan' = Tail(incomingChan)
  BY DEF TakeLine, handlerVars
<1>2. WholeTyped'
  BY <1>1 DEF WholeInv, WholeTyped
<1>3. OneDelivers' /\ CutsAccepted'
  BY <1>1 DEF WholeInv, OneDelivers, CutsAccepted, Working
<1>4. Adjoining'
  BY <1>1 DEF WholeInv, Adjoining, AtCut, GoesOn
<1>5. All' = All
  <2>1. incomingChan \in Seq(Seq(Nat)) /\ lines \in Seq(Seq(Nat))
    BY DEF WholeInv, WholeTyped
  <2> QED
    BY <1>1, <2>1, HeadMoves DEF All
<1>6. LinesCut'
  BY <1>1, <1>5, LinesStay DEF WholeInv, GoingOn
<1> QED
  BY <1>2, <1>3, <1>4, <1>6 DEF WholeInv

\* The session is closed.
LEMMA CloseWhole ==
  ASSUME IInv, WholeInv, Close \/ UNCHANGED vars
  PROVE  WholeInv'
<1>1. /\ UNCHANGED <<lenTotalIncoming, pc, from, to, dataLock, incomingBuf, incomingChan, lines,
                     log, cuts>>
      /\ ctxDone => ctxDone'
  BY DEF Close, vars, handlerVars, lineVars
<1>2. WholeTyped' /\ OneDelivers' /\ CutsAccepted'
  BY <1>1 DEF WholeInv, WholeTyped, OneDelivers, CutsAccepted, Working
<1>3. Adjoining'
  BY <1>1 DEF WholeInv, Adjoining, AtCut, GoesOn
<1>4. LinesCut'
  BY <1>1, LinesStay DEF WholeInv, GoingOn, All
<1> QED
  BY <1>2, <1>3, <1>4 DEF WholeInv

\* A message is accepted.
LEMMA AcceptWhole ==
  ASSUME IInv, WholeInv, NEW x \in Handlers, NEW pos \in 0..StreamLen,
         NEW len \in 0..(StreamLen - pos), HandleData(x, pos, len), ~Useless(pos, len)
  PROVE  WholeInv'
<1> DEFINE N == pos + len
<1>1. /\ from' = [from EXCEPT ![x] = lenTotalIncoming] /\ to' = [to EXCEPT ![x] = N]
      /\ lenTotalIncoming' = N /\ cuts' = cuts \cup {N}
      /\ pc' = [pc EXCEPT ![x] = "deliver"] /\ pc[x] = "idle"
      /\ UNCHANGED <<dataLock, incomingBuf, incomingChan, lines, log, ctxDone>>
  BY DEF HandleData, NewFrom, lineVars
<1>2. N \in Nat
  BY StreamAssumption
<1> HIDE DEF N
<1>3. /\ from'[x] = lenTotalIncoming /\ to'[x] = N /\ pc'[x] = "deliver"
      /\ \A h \in Handlers \ {x} : from'[h] = from[h] /\ to'[h] = to[h] /\ pc'[h] = pc[h]
  BY <1>1 DEF IInv, ReceiveTyped
<1>4. x \notin dataLock
  BY <1>1 DEF WholeInv, OneDelivers, Working
<1>5. WholeTyped'
  BY <1>1, <1>2 DEF WholeInv, WholeTyped
<1>6. OneDelivers'
  BY <1>1, <1>3, <1>4 DEF WholeInv, WholeTyped, OneDelivers, Working
<1>7. CutsAccepted'
  BY <1>1, <1>3, <1>4 DEF WholeInv, CutsAccepted, Working
<1>8. Adjoining'
  BY <1>1, <1>3, <1>4 DEF WholeInv, WholeTyped, Adjoining, AtCut, GoesOn
<1>9. GoingOn' => GoingOn
  BY <1>1, <1>3 DEF GoingOn
<1>10. LinesCut'
  BY <1>1, <1>9, LinesStay DEF WholeInv, All
<1> QED
  BY <1>5, <1>6, <1>7, <1>8, <1>10 DEF WholeInv

\* A handler takes the lock, or begins a turn of its loop.
LEMMA BeginWhole ==
  ASSUME IInv, WholeInv, NEW x \in Handlers, LockData(x) \/ NextPiece(x)
  PROVE  WholeInv'
<1>1. /\ UNCHANGED <<lenTotalIncoming, from, to, incomingBuf, incomingChan, lines, log, ctxDone, cuts>>
      /\ pc[x] = "deliver" /\ x \in dataLock' /\ dataLock \subseteq dataLock'
      /\ \A h \in dataLock' : h = x
  BY DEF LockData, NextPiece, handlerVars, lineVars, DataUnlocked, WholeInv, OneDelivers
<1>2. /\ \A h \in Handlers \ {x} : pc'[h] = pc[h]
      /\ pc'[x] = "deliver" \/ (pc'[x] = "piece" /\ ~ctxDone)
      /\ \A h \in Handlers : Working(h)' = Working(h)
  BY <1>1 DEF LockData, NextPiece, handlerVars, Working, IInv, ReceiveTyped
<1>3. WholeTyped'
  BY <1>1 DEF WholeInv, WholeTyped
<1>4. OneDelivers'
  BY <1>1, <1>2 DEF WholeInv, OneDelivers, Working
<1>5. CutsAccepted'
  BY <1>1, <1>2 DEF WholeInv, CutsAccepted
<1>6. Adjoining'
  <2>1. ~ctxDone => GoesOn(x)
    <3>1. CASE LockData(x)
      BY <1>1, <3>1 DEF LockData, DataUnlocked, WholeInv, Adjoining, CutsAccepted, GoesOn, Working
    <3>2. CASE NextPiece(x)
      BY <3>2 DEF NextPiece, WholeInv, Adjoining
    <3> QED
      BY <3>1, <3>2
  <2>2. GoesOn(x) => GoesOn(x)'
    BY <1>1 DEF GoesOn, AtCut
  <2> QED
    BY <1>1, <1>2, <2>1, <2>2 DEF WholeInv, Adjoining
<1>7. GoingOn' => GoingOn
  BY <1>1, <1>2 DEF GoingOn
<1>8. LinesCut'
  BY <1>1, <1>7, LinesStay DEF WholeInv, All
<1> QED
  BY <1>3, <1>4, <1>5, <1>6, <1>8 DEF WholeInv

\* A message is used up, or given up when the session was closed.
LEMMA EndWhole ==
  ASSUME IInv, WholeInv, NEW x \in Handlers, UnlockData(x) \/ Abandon(x)
  PROVE  WholeInv'
<1>1. /\ UNCHANGED <<lenTotalIncoming, from, to, incomingChan, lines, log, ctxDone, cuts>>
      /\ x \in dataLock /\ Working(x)
  BY DEF UnlockData, Abandon, Working
<1>2. dataLock' = {}
  BY <1>1 DEF UnlockData, Abandon, DataLockFree, WholeInv, OneDelivers
<1>3. /\ \A h \in Handlers \ {x} : pc'[h] = pc[h]
      /\ pc'[x] \in {"idle", "ack"}
  BY DEF UnlockData, Abandon, IInv, ReceiveTyped
<1>4. \A h \in Handlers : pc'[h] # "piece"
  BY <1>1, <1>3 DEF WholeInv, OneDelivers
<1>5. WholeTyped'
  <2>1. incomingBuf' \in Seq(Nat)
    <3>1. incomingBuf \in Seq(Nat)
      BY DEF WholeInv, WholeTyped
    <3>2. ASSUME pc[x] = "piece" PROVE Extended(x) \in Seq(Nat)
      <4>1. PieceEnd(x) \in Nat /\ from[x] \in Nat /\ from[x] < PieceEnd(x)
        BY <3>2, PieceWithin DEF IInv, ReceiveTyped
      <4>2. PICK b \in Nat : from[x] <= b
                             /\ b = IF PieceEnd(x) \in Newlines THEN PieceEnd(x) - 1 ELSE PieceEnd(x)
        BY <4>1
      <4> QED
        BY <3>1, <4>1, <4>2, LogExtended DEF Extended
    <3> QED
      BY <3>1, <3>2 DEF UnlockData, Abandon
  <2> QED
    BY <1>1, <1>2, <2>1 DEF WholeInv, WholeTyped
<1>6. OneDelivers'
  BY <1>2, <1>4 DEF OneDelivers
<1>7. CutsAccepted'
  BY <1>1, <1>2, <1>3 DEF WholeInv, CutsAccepted, OneDelivers, Working
<1>8. Adjoining'
  <2>1. ~ctxDone => AtCut
    BY <1>1 DEF UnlockData, Abandon, WholeInv, Adjoining, GoesOn, AtCut, CutsAccepted
  <2>2. AtCut' = AtCut
    BY <1>1 DEF AtCut
  <2> QED
    BY <1>1, <1>2, <2>1, <2>2 DEF WholeInv, Adjoining
<1>9. GoingOn' => GoingOn /\ incomingBuf' = incomingBuf
  BY <1>1, <1>4 DEF GoingOn, UnlockData, Abandon
<1>10. LinesCut'
  BY <1>1, <1>9, LinesStay DEF WholeInv, All
<1> QED
  BY <1>5, <1>6, <1>7, <1>8, <1>10 DEF WholeInv

\* The part of a log that is there does not change when the log grows.
LEMMA SliceSame ==
  ASSUME NEW l \in Seq(Nat), NEW g \in Seq(Nat), Len(l) <= Len(g),
         \A k \in 1..Len(l) : g[k] = l[k],
         NEW a \in Nat, NEW b \in Nat, b <= Len(l)
  PROVE  SubSeq(g, a + 1, b) = SubSeq(l, a + 1, b)
<1>1. \A i \in 1..(1 + b - (a + 1)) : i + (a + 1) - 1 \in 1..Len(l)
  OBVIOUS
<1>2. /\ SubSeq(g, a + 1, b) = [i \in 1..(1 + b - (a + 1)) |-> g[i + (a + 1) - 1]]
      /\ SubSeq(l, a + 1, b) = [i \in 1..(1 + b - (a + 1)) |-> l[i + (a + 1) - 1]]
  OBVIOUS
<1> QED
  BY <1>1, <1>2

\* What is behind a place in a sequence.
LEMMA RestOfLog ==
  ASSUME NEW l \in Seq(Nat), NEW z \in 0..Len(l)
  PROVE  /\ SubSeq(l, z + 1, Len(l)) \in Seq(Nat)
         /\ Len(SubSeq(l, z + 1, Len(l))) = Len(l) - z
         /\ \A k \in 1..(Len(l) - z) : SubSeq(l, z + 1, Len(l))[k] = l[z + k]
<1>1. Len(l) \in Nat /\ z \in Nat
  OBVIOUS
<1> QED
  BY <1>1

\* The part of a log from some place on grows with the log.
LEMMA SliceGrows ==
  ASSUME NEW l \in Seq(Nat), NEW z \in 0..Len(l), NEW x \in Nat, NEW y \in Nat, x <= y,
         NEW m \in 0..(y - x)
  PROVE  SubSeq(l \o Bytes(x, y), z + 1, Len(l) + m) = SubSeq(l, z + 1, Len(l)) \o Bytes(x, x + m)
<1> DEFINE g == l \o Bytes(x, y)
           n == Len(l)
           s == SubSeq(l, z + 1, n)
           t == s \o Bytes(x, x + m)
           u == SubSeq(g, z + 1, n + m)
<1>1. n \in Nat /\ z \in Nat /\ m \in Nat /\ x + m \in Nat /\ x <= x + m
  OBVIOUS
<1>2. /\ g \in Seq(Nat) /\ Len(g) = n + (y - x)
      /\ \A k \in 1..n : g[k] = l[k]
      /\ \A k \in 1..(y - x) : g[n + k] = x + k
  BY LogExtended
<1>3. /\ s \in Seq(Nat) /\ Len(s) = n - z
      /\ \A k \in 1..(n - z) : s[k] = l[z + k]
  BY RestOfLog
<1> HIDE DEF s, g
<1>4. PICK b : b \in Nat /\ b = x + m /\ x <= b /\ b - x = m
  BY <1>1
<1>5. /\ t \in Seq(Nat) /\ Len(t) = n - z + m
      /\ \A k \in 1..(n - z) : t[k] = l[z + k]
      /\ \A k \in 1..m : t[n - z + k] = x + k
  <2>0. s \in Seq(Nat) /\ x \in Nat /\ b \in Nat /\ x <= b
    BY <1>3, <1>4
  <2>1. Extension(s \o Bytes(x, b), s, x, b)
    BY <2>0, LogIsExtended
  <2>2. t = s \o Bytes(x, b)
    BY <1>4
  <2>3. Len(s) = n - z /\ b - x = m /\ n - z \in Nat
    BY <1>1, <1>3, <1>4
  <2> HIDE DEF t, n
  <2>4. t \in Seq(Nat) /\ Len(t) = n - z + m
    BY <2>1, <2>2, <2>3 DEF Extension
  <2>5. \A k \in 1..(n - z) : t[k] = l[z + k]
    BY <1>3, <2>1, <2>2, <2>3 DEF Extension
  <2>6. \A k \in 1..m : t[n - z + k] = x + k
    BY <2>1, <2>2, <2>3 DEF Extension
  <2> QED
    BY <2>4, <2>5, <2>6
<1>6. /\ u \in Seq(Nat) /\ Len(u) = n - z + m
      /\ \A k \in 1..(n - z + m) : u[k] = g[z + k]
  <2>1. n + m <= Len(g) /\ z + 1 \in 1..(n + m + 1) /\ n + m \in Nat
    BY <1>1, <1>2
  <2> QED
    BY <1>1, <1>2, <2>1
<1> HIDE DEF t, u, n
<1>7. ASSUME NEW k \in 1..(n - z + m) PROVE u[k] = t[k]
  <2>1. CASE k \in 1..(n - z)
    <3>1. z + k \in 1..n
      BY <1>1, <2>1
    <3> QED
      BY <1>2, <1>5, <1>6, <2>1, <3>1
  <2>2. CASE k \notin 1..(n - z)
    <3>1. PICK i \in 1..m : k = n - z + i
      <4>1. k - (n - z) \in 1..m /\ k = n - z + (k - (n - z))
        BY <1>1, <2>2, z \in 0..n DEF n
      <4> QED
        BY <4>1
    <3>2. z + k = n + i /\ i \in 1..(y - x)
      BY <1>1, <3>1
    <3> QED
      BY <1>2, <1>5, <1>6, <3>1, <3>2
  <2> QED
    BY <2>1, <2>2
<1>8. u = t
  BY <1>5, <1>6, <1>7, SeqEqual
<1> QED
  BY <1>8 DEF u, t, s, g, n

\* A piece has no newline before its last byte.
LEMMA PieceCuts ==
  ASSUME IInv, NEW h \in Handlers, pc[h] = "piece", NEW n \in Nat,
         from[h] < n, n < PieceEnd(h)
  PROVE  n \notin Newlines
<1> DEFINE nls == {m \in Newlines : from[h] < m /\ m <= to[h]}
<1>1. PieceEnd(h) \in Nat /\ PieceEnd(h) <= to[h] /\ to[h] \in Nat
  BY PieceWithin DEF IInv, ReceiveTyped
<1> SUFFICES ASSUME n \in Newlines PROVE FALSE
  OBVIOUS
<1>5. n <= to[h] /\ n \in nls
  BY <1>1
<1>2. nls \subseteq Nat
  BY StreamAssumption, 1..StreamLen \subseteq Nat
<1>3. \E k \in nls : \A m \in nls : k <= m
  BY <1>2, <1>5, HasMinimum
<1>4. \A m \in nls : PieceEnd(h) <= m
  BY <1>3, <1>5 DEF PieceEnd
<1> QED
  BY <1>1, <1>4, <1>5

\* What a turn of the loop does to the log.
LEMMA PieceLogs ==
  ASSUME IInv, NEW x \in Handlers, Piece(x)
  PROVE  /\ from[x] \in Nat /\ PieceEnd(x) \in Nat /\ Len(log) \in Nat
         /\ from[x] < PieceEnd(x) /\ log \in Seq(Nat) /\ log' = log \o Bytes(from[x], PieceEnd(x)) /\ log' \in Seq(Nat)
         /\ Len(log') = Len(log) + (PieceEnd(x) - from[x])
         /\ \A k \in 1..Len(log) : log'[k] = log[k]
         /\ \A k \in 1..(PieceEnd(x) - from[x]) : log'[Len(log) + k] = from[x] + k
         /\ \A k \in 1..(Len(log) + (PieceEnd(x) - from[x])) : k \in 1..Len(log) \/ \E i \in 1..(PieceEnd(x) - from[x]) : k = Len(log) + i
<1>0. PICK b, c, n : b = from[x] /\ c = PieceEnd(x) /\ n = Len(log)
  OBVIOUS
<1>1. log' = log \o Bytes(b, c) /\ pc[x] = "piece"
  BY <1>0 DEF Piece
<1>2. b \in Nat /\ c \in Nat /\ b < c /\ b <= c
  BY <1>0, <1>1, PieceWithin DEF IInv, ReceiveTyped
<1>3. log \in Seq(Nat) /\ n \in Nat
  BY <1>0 DEF IInv, ReceiveTyped
<1>4. /\ log' \in Seq(Nat) /\ Len(log') = n + (c - b)
      /\ \A k \in 1..n : log'[k] = log[k]
      /\ \A k \in 1..(c - b) : log'[n + k] = b + k
  <2>1. Extension(log \o Bytes(b, c), log, b, c)
    BY <1>2, <1>3, LogIsExtended
  <2>2. Extension(log', log, b, c)
    BY <1>0, <1>1, <2>1
  <2> QED
    BY <1>0, <2>2 DEF Extension
<1>5. ASSUME NEW k \in 1..(n + (c - b)), k \notin 1..n
      PROVE  \E i \in 1..(c - b) : k = n + i
  <2>1. k - n \in 1..(c - b) /\ k = n + (k - n)
    BY <1>2, <1>3, <1>5
  <2> QED
    BY <2>1
<1>6. \A k \in 1..(n + (c - b)) : k \in 1..n \/ \E i \in 1..(c - b) : k = n + i
  BY <1>5, Zenon
<1> QED
  BY <1>0, <1>1, <1>2, <1>3, <1>4, <1>6, Zenon

\* A turn of the loop goes on with the message of the holder of the lock.
LEMMA PieceAdjoins ==
  ASSUME IInv, WholeInv, NEW x \in Handlers, Piece(x)
  PROVE  Adjoining'
<1> DEFINE a == from[x]
           e == PieceEnd(x)
           L == Len(log)
<1>1. /\ a \in Nat /\ e \in Nat /\ L \in Nat
      /\ a < e /\ log \in Seq(Nat) /\ log' = log \o Bytes(a, e) /\ log' \in Seq(Nat)
      /\ Len(log') = L + (e - a)
      /\ \A k \in 1..L : log'[k] = log[k]
      /\ \A k \in 1..(e - a) : log'[L + k] = a + k
      /\ \A k \in 1..(L + (e - a)) : k \in 1..L \/ \E i \in 1..(e - a) : k = L + i
  BY PieceLogs, Zenon
<1>2. a \in Nat /\ e \in Nat /\ L \in Nat /\ a < e /\ Len(log') = L + (e - a)
  BY <1>1, Zenon
<1>20. /\ \A k \in 1..L : log'[k] = log[k]
       /\ \A k \in 1..(e - a) : log'[L + k] = a + k
  BY <1>1, Zenon
<1>0. a = from[x] /\ e = PieceEnd(x) /\ L = Len(log) /\ log' \in Seq(Nat) /\ log \in Seq(Nat)
  BY <1>1, Zenon
<1> HIDE DEF a, e, L
<1>3. /\ UNCHANGED <<dataLock, ctxDone, cuts>> /\ pc[x] = "piece"
      /\ from'[x] = e
  BY <1>0, <1>2 DEF Piece, IInv, ReceiveTyped
<1>4. x \in dataLock /\ \A h \in dataLock : h = x
  BY <1>3 DEF WholeInv, OneDelivers
<1>5. \/ log # <<>> /\ log[L] = a
      \/ (log = <<>> \/ log[L] \in cuts) /\ a \in cuts \cup {0}
  BY <1>0, <1>2, <1>3, <1>4 DEF WholeInv, Adjoining, GoesOn, AtCut
<1>6. \A k \in 1..(L - 1) :
        log[k + 1] = log[k] + 1 \/ (log[k] \in cuts /\ log[k + 1] - 1 \in cuts \cup {0})
  BY <1>0, <1>2 DEF WholeInv, Adjoining
<1>7. ASSUME NEW k \in 1..(Len(log') - 1)
      PROVE  log'[k + 1] = log'[k] + 1 \/ (log'[k] \in cuts /\ log'[k + 1] - 1 \in cuts \cup {0})
  <2>1. CASE k + 1 \in 1..L
    <3>1. k \in 1..L /\ k \in 1..(L - 1)
      BY <1>0, <1>2, <2>1
    <3> QED
      BY <1>6, <1>20, <2>1, <3>1
  <2>2. CASE k = L
    <3>1. L \in 1..L /\ 1 \in 1..(e - a) /\ log # <<>>
      <4>1. L # 0
        BY <1>2, <2>2
      <4>2. L \in 1..L /\ 1 \in 1..(e - a)
        BY <1>2, <4>1
      <4>3. log # <<>>
        BY <1>0, <4>1
      <4> QED
        BY <4>2, <4>3
    <3>2. log'[k] = log[L] /\ log'[k + 1] = a + 1
      BY <1>20, <2>2, <3>1
    <3>3. (a + 1) - 1 = a
      BY <1>2
    <3> QED
      BY <1>5, <3>1, <3>2, <3>3
  <2>3. CASE k > L
    <3>1. PICK i : i \in Nat /\ i = k - L /\ k = L + i /\ k + 1 = L + (i + 1)
      BY <1>2, <2>3
    <3>2. i \in 1..(e - a) /\ i + 1 \in 1..(e - a)
      BY <1>2, <2>3, <3>1
    <3>3. log'[k] = a + i /\ log'[k + 1] = a + (i + 1)
      BY <1>20, <3>1, <3>2
    <3> QED
      BY <1>2, <3>1, <3>3
  <2>4. k + 1 \in 1..L \/ k = L \/ k > L
    BY <1>2
  <2> QED
    BY <2>1, <2>2, <2>3, <2>4
<1>8. GoesOn(x)'
  <2>1. e - a \in 1..(e - a) /\ a + (e - a) = e
    BY <1>2
  <2>2. log'[Len(log')] = e
    BY <1>2, <1>20, <2>1
  <2>3. log' # <<>>
    BY <1>0, <1>2
  <2> QED
    BY <1>3, <2>2, <2>3 DEF GoesOn
<1> QED
  BY <1>3, <1>4, <1>7, <1>8 DEF Adjoining

\* A turn of the loop without a newline adds to the unfinished line.
LEMMA PieceBuffers ==
  ASSUME IInv, WholeInv, NEW x \in Handlers, Piece(x), PieceEnd(x) \notin Newlines
  PROVE  LinesCut' /\ WholeTyped'
<1> DEFINE a == from[x]
           e == PieceEnd(x)
           L == Len(log)
<1>1. /\ a \in Nat /\ e \in Nat /\ L \in Nat
      /\ a < e /\ log \in Seq(Nat) /\ log' = log \o Bytes(a, e) /\ log' \in Seq(Nat)
      /\ Len(log') = L + (e - a)
      /\ \A k \in 1..L : log'[k] = log[k]
      /\ \A k \in 1..(e - a) : log'[L + k] = a + k
      /\ \A k \in 1..(L + (e - a)) : k \in 1..L \/ \E i \in 1..(e - a) : k = L + i
  BY PieceLogs, Zenon
<1>2. a \in Nat /\ e \in Nat /\ L \in Nat /\ a < e /\ Len(log') = L + (e - a)
  BY <1>1, Zenon
<1>20. /\ \A k \in 1..L : log'[k] = log[k]
       /\ \A k \in 1..(e - a) : log'[L + k] = a + k
  BY <1>1, Zenon
<1>0. a = from[x] /\ e = PieceEnd(x) /\ L = Len(log) /\ log' \in Seq(Nat) /\ log \in Seq(Nat)
  BY <1>1, Zenon
<1> HIDE DEF a, e, L
<1>3. /\ UNCHANGED <<dataLock, cuts, incomingChan, lines>> /\ pc[x] = "piece"
      /\ incomingBuf' = incomingBuf \o Bytes(a, e)
  BY <1>0, <1>2 DEF Piece, Extended
<1>4. PICK ends \in Seq(Nat) : CutInto(ends)
  BY DEF WholeInv, LinesCut
<1>5. PICK z : z = Start(ends, Len(ends))
  OBVIOUS
<1>6. z \in 0..L
  <2>1. Len(ends) \in Nat
    OBVIOUS
  <2>2. \A n \in 1..Len(ends) : ends[n] \in 1..L
    BY <1>0, <1>4, Zenon DEF CutInto
  <2>3. z = IF Len(ends) = 0 THEN 0 ELSE ends[Len(ends)]
    BY <1>5 DEF Start
  <2> QED
    BY <1>2, <2>1, <2>2, <2>3
<1>7. incomingBuf = SubSeq(log, z + 1, L)
  <2>1. GoingOn
    BY <1>3, Zenon DEF GoingOn
  <2>2. incomingBuf = SubSeq(log, Start(ends, Len(ends)) + 1, Len(log))
    BY <1>4, <2>1, Zenon DEF CutInto
  <2> QED
    BY <1>0, <1>5, <2>2, Zenon
<1>8. incomingBuf' = SubSeq(log', z + 1, Len(log'))
  <2>1. e - a \in 0..(e - a) /\ a + (e - a) = e
    BY <1>2
  <2>2. a <= e /\ z \in 0..Len(log)
    BY <1>0, <1>2, <1>6
  <2>4. PICK m : m = e - a
    OBVIOUS
  <2>3. SubSeq(log \o Bytes(a, e), z + 1, Len(log) + m) = SubSeq(log, z + 1, Len(log)) \o Bytes(a, a + m)
    <3>1. log \in Seq(Nat) /\ a \in Nat /\ e \in Nat /\ m \in 0..(e - a)
      BY <1>0, <1>2, <2>1, <2>4
    <3> QED
      BY <2>2, <3>1, SliceGrows, Zenon
  <2> QED
    BY <1>0, <1>1, <1>2, <1>3, <1>7, <2>1, <2>3, <2>4, Zenon
<1>9. \A n \in 1..Len(ends) : ends[n] \in 1..L /\ log[ends[n]] \in Newlines
  BY <1>0, <1>2, <1>4 DEF CutInto
<1>10. \A n \in 1..Len(ends) : ends[n] \in 1..Len(log') /\ log'[ends[n]] \in Newlines
  <2>1. \A k \in 1..L : k \in 1..Len(log')
    BY <1>2
  <2> QED
    BY <1>9, <1>20, <2>1
<1>11. ASSUME NEW k \in 1..(L + (e - a)), log'[k] \in Newlines
       PROVE  \E n \in 1..Len(ends) : ends[n] = k
  <2>1. CASE k \in 1..L
    <3>1. \A i \in 1..L : log[i] \in Newlines => \E n \in 1..Len(ends) : ends[n] = i
      BY <1>0, <1>4 DEF CutInto
    <3> QED
      BY <1>11, <1>20, <2>1, <3>1
  <2>2. ASSUME NEW i \in 1..(e - a), k = L + i PROVE FALSE
    <3>1. log'[k] = a + i
      BY <1>20, <2>2
    <3>2. a + i \in Nat /\ a < a + i /\ (a + i < e \/ a + i = e)
      BY <1>2
    <3>3. a + i \notin Newlines
      BY <1>0, <1>2, <1>3, <3>2, PieceCuts
    <3> QED
      BY <1>11, <3>1, <3>3
  <2>3. k \in 1..L \/ \E i \in 1..(e - a) : k = L + i
    BY <1>1, Zenon
  <2> QED
    BY <2>1, <2>2, <2>3
<1>12. ASSUME NEW n \in 1..Len(ends)
       PROVE  All[n] = SubSeq(log', Start(ends, n - 1) + 1, ends[n] - 1)
  <2>0. n \in 1..Len(ends) /\ n \in Nat /\ (n - 1 = 0 \/ n - 1 \in 1..Len(ends))
    OBVIOUS
  <2>1. Start(ends, n - 1) \in Nat /\ ends[n] - 1 \in Nat /\ ends[n] - 1 <= L
    <3>1. ends[n] \in 1..L /\ (n - 1 # 0 => ends[n - 1] \in 1..L)
      BY <1>9, <2>0
    <3> QED
      BY <1>2, <3>1 DEF Start
  <2>2. Len(log) <= Len(log') /\ ends[n] - 1 <= Len(log)
    <3>1. L <= Len(log')
      BY <1>2
    <3> QED
      BY <1>0, <2>1, <3>1
  <2>4. \A k \in 1..Len(log) : log'[k] = log[k]
    BY <1>0, <1>20
  <2>3. SubSeq(log', Start(ends, n - 1) + 1, ends[n] - 1)
          = SubSeq(log, Start(ends, n - 1) + 1, ends[n] - 1)
    BY <1>0, <2>1, <2>2, <2>4, SliceSame
  <2> QED
    BY <1>4, <2>3 DEF CutInto
<1>13. All' = All
  BY <1>3 DEF All
<1>14. CutInto(ends)'
  <2>1. Len(ends) = Len(All) /\ \A m, n \in 1..Len(ends) : m < n => ends[m] < ends[n]
    BY <1>4 DEF CutInto
  <2>2. Start(ends, Len(ends))' = z
    BY <1>5 DEF Start
  <2>3. \A n \in 1..Len(ends) : All'[n] = SubSeq(log', Start(ends, n - 1)' + 1, ends[n] - 1)
    BY <1>12, <1>13 DEF Start
  <2>4. \A k \in 1..Len(log') : log'[k] \in Newlines => \E n \in 1..Len(ends) : ends[n] = k
    BY <1>2, <1>11
  <2> QED
    BY <1>8, <1>10, <1>13, <2>1, <2>2, <2>3, <2>4, Zenon DEF CutInto
<1>15. WholeTyped'
  <2>1. incomingBuf' \in Seq(Nat)
    <3>1. incomingBuf \in Seq(Nat) /\ a <= e
      BY <1>2 DEF WholeInv, WholeTyped
    <3>2. incomingBuf \o Bytes(a, e) \in Seq(Nat)
      BY <1>2, <3>1, LogExtended
    <3> QED
      BY <1>3, <3>2
  <2> QED
    BY <1>3, <2>1 DEF WholeInv, WholeTyped
<1> QED
  BY <1>14, <1>15 DEF LinesCut

\* A line that goes into the channel comes behind all others.
LEMMA LineAppended ==
  ASSUME NEW S, NEW l \in Seq(S), NEW c \in Seq(S), NEW v \in S
  PROVE  /\ l \o Append(c, v) = Append(l \o c, v)
         /\ l \o c \in Seq(S)
OBVIOUS

\* A turn of the loop with a newline finishes a line.
LEMMA PieceFinishes ==
  ASSUME IInv, WholeInv, NEW x \in Handlers, Piece(x), PieceEnd(x) \in Newlines
  PROVE  LinesCut' /\ WholeTyped'
<1> DEFINE a == from[x]
           e == PieceEnd(x)
           L == Len(log)
<1>1. /\ a \in Nat /\ e \in Nat /\ L \in Nat
      /\ a < e /\ log \in Seq(Nat) /\ log' = log \o Bytes(a, e) /\ log' \in Seq(Nat)
      /\ Len(log') = L + (e - a)
      /\ \A k \in 1..L : log'[k] = log[k]
      /\ \A k \in 1..(e - a) : log'[L + k] = a + k
      /\ \A k \in 1..(L + (e - a)) : k \in 1..L \/ \E i \in 1..(e - a) : k = L + i
  BY PieceLogs, Zenon
<1>2. a \in Nat /\ e \in Nat /\ L \in Nat /\ a < e /\ Len(log') = L + (e - a)
  BY <1>1, Zenon
<1>20. /\ \A k \in 1..L : log'[k] = log[k]
       /\ \A k \in 1..(e - a) : log'[L + k] = a + k
  BY <1>1, Zenon
<1>0. a = from[x] /\ e = PieceEnd(x) /\ L = Len(log) /\ log' \in Seq(Nat) /\ log \in Seq(Nat)
  BY <1>1, Zenon
<1> HIDE DEF a, e, L
<1> DEFINE v == incomingBuf \o Bytes(a, e - 1)
<1>3. /\ UNCHANGED <<dataLock, cuts, lines>> /\ pc[x] = "piece"
      /\ incomingBuf' = <<>> /\ incomingChan' = Append(incomingChan, v)
  BY <1>0 DEF Piece, Extended
<1>30. v \in Seq(Nat)
  <2>1. incomingBuf \in Seq(Nat) /\ e - 1 \in Nat /\ a <= e - 1
    BY <1>2 DEF WholeInv, WholeTyped
  <2> QED
    BY <1>2, <2>1, LogExtended
<1> HIDE DEF v
<1>31. /\ All' = Append(All, v) /\ All \in Seq(Seq(Nat))
       /\ incomingChan' \in Seq(Seq(Nat)) /\ lines' \in Seq(Seq(Nat))
  <2>1. lines \in Seq(Seq(Nat)) /\ incomingChan \in Seq(Seq(Nat))
    BY DEF WholeInv, WholeTyped
  <2>2. /\ lines \o Append(incomingChan, v) = Append(lines \o incomingChan, v)
        /\ lines \o incomingChan \in Seq(Seq(Nat))
    BY <1>30, <2>1, LineAppended, Zenon
  <2>3. incomingChan' \in Seq(Seq(Nat)) /\ lines' \in Seq(Seq(Nat))
    BY <1>3, <1>30, <2>1
  <2> QED
    BY <1>3, <2>2, <2>3, Zenon DEF All
<1>4. PICK ends : ends \in Seq(Nat) /\ CutInto(ends)
  BY DEF WholeInv, LinesCut
<1>5. PICK N, z : N = Len(ends) /\ z = Start(ends, N)
  OBVIOUS
<1>6. /\ N \in Nat /\ N = Len(All)
      /\ \A n \in 1..N : ends[n] \in 1..L /\ log[ends[n]] \in Newlines
      /\ \A m, n \in 1..N : m < n => ends[m] < ends[n]
      /\ \A k \in 1..L : log[k] \in Newlines => \E n \in 1..N : ends[n] = k
      /\ \A n \in 1..N : All[n] = SubSeq(log, Start(ends, n - 1) + 1, ends[n] - 1)
  BY <1>0, <1>4, <1>5 DEF CutInto
<1>60. z \in 0..L
  BY <1>2, <1>5, <1>6 DEF Start
<1>7. incomingBuf = SubSeq(log, z + 1, L)
  BY <1>0, <1>3, <1>4, <1>5 DEF CutInto, GoingOn
<1>8. v = SubSeq(log', z + 1, Len(log') - 1)
  <2>1. PICK m : m = e - a - 1
    OBVIOUS
  <2>2. m \in 0..(e - a) /\ a + m = e - 1 /\ L + m = Len(log') - 1 /\ a <= e
    BY <1>2, <2>1
  <2>3. SubSeq(log \o Bytes(a, e), z + 1, Len(log) + m) = SubSeq(log, z + 1, Len(log)) \o Bytes(a, a + m)
    <3>1. log \in Seq(Nat) /\ a \in Nat /\ e \in Nat /\ z \in 0..Len(log)
      BY <1>0, <1>2, <1>60
    <3> QED
      BY <2>2, <3>1, SliceGrows, Zenon
  <2> QED
    BY <1>0, <1>1, <1>7, <2>2, <2>3, Zenon DEF v
<1>9. PICK E : E = Append(ends, Len(log'))
  OBVIOUS
<1>10. /\ E \in Seq(Nat) /\ Len(E) = N + 1 /\ E[N + 1] = Len(log')
       /\ \A n \in 1..N : E[n] = ends[n]
  BY <1>0, <1>4, <1>5, <1>9
<1>11. \A n \in 1..(N + 1) : n \in 1..N \/ n = N + 1
  BY <1>6
<1>12. Len(log') \in Nat /\ L < Len(log') /\ L <= Len(log')
  BY <1>2
<1>13. log'[Len(log')] \in Newlines
  <2>1. e - a \in 1..(e - a) /\ a + (e - a) = e
    BY <1>2
  <2>2. log'[L + (e - a)] = e
    BY <1>20, <2>1
  <2> QED
    BY <1>0, <1>2, <2>2
<1>14. ASSUME NEW n \in 1..(N + 1)
       PROVE  E[n] \in 1..Len(log') /\ log'[E[n]] \in Newlines
  <2>1. CASE n \in 1..N
    <3>1. E[n] \in 1..L /\ log[E[n]] \in Newlines
      BY <1>6, <1>10, <2>1
    <3>2. E[n] \in 1..Len(log')
      BY <1>2, <1>12, <3>1
    <3> QED
      BY <1>20, <3>1, <3>2
  <2>2. CASE n = N + 1
    <3>1. Len(log') \in 1..Len(log')
      BY <1>2, <1>12
    <3> QED
      BY <1>10, <1>13, <2>2, <3>1
  <2> QED
    BY <1>11, <2>1, <2>2
<1>15. ASSUME NEW m \in 1..(N + 1), NEW n \in 1..(N + 1), m < n
       PROVE  E[m] < E[n]
  <2>1. m \in 1..N
    BY <1>6, <1>15
  <2>2. CASE n \in 1..N
    BY <1>6, <1>10, <1>15, <2>1, <2>2
  <2>3. CASE n = N + 1
    <3>1. E[m] \in 1..L
      BY <1>6, <1>10, <2>1
    <3> QED
      BY <1>2, <1>10, <1>12, <2>3, <3>1
  <2> QED
    BY <1>11, <2>2, <2>3
<1>16. ASSUME NEW k \in 1..(L + (e - a)), log'[k] \in Newlines
       PROVE  \E n \in 1..(N + 1) : E[n] = k
  <2>1. CASE k \in 1..L
    <3>1. PICK n : n \in 1..N /\ ends[n] = k
      BY <1>6, <1>16, <1>20, <2>1
    <3>2. n \in 1..(N + 1)
      BY <1>6, <3>1
    <3> QED
      BY <1>10, <3>1, <3>2
  <2>2. ASSUME NEW i \in 1..(e - a), k = L + i PROVE k = Len(log')
    <3>1. log'[k] = a + i
      BY <1>20, <2>2
    <3>2. a + i \in Nat /\ a < a + i /\ (a + i < e \/ a + i = e)
      BY <1>2
    <3>3. ~(a + i < e)
      BY <1>0, <1>3, <1>16, <3>1, <3>2, PieceCuts
    <3> QED
      BY <1>2, <2>2, <3>2, <3>3
  <2>3. k \in 1..L \/ \E i \in 1..(e - a) : k = L + i
    BY <1>1, Zenon
  <2>4. N + 1 \in 1..(N + 1)
    BY <1>6
  <2> QED
    BY <1>10, <2>1, <2>2, <2>3, <2>4
<1>17. ASSUME NEW n \in 1..(N + 1)
       PROVE  All'[n] = SubSeq(log', Start(E, n - 1) + 1, E[n] - 1)
  <2>1. n \in Nat /\ (n - 1 = 0 \/ n - 1 \in 1..N)
    BY <1>6
  <2>2. Start(E, n - 1) = Start(ends, n - 1)
    BY <1>10, <2>1 DEF Start
  <2>3. /\ \A k \in 1..N : All'[k] = All[k]
        /\ All'[N + 1] = v
    BY <1>6, <1>30, <1>31
  <2>4. CASE n \in 1..N
    <3>1. ends[n] \in 1..L /\ (n - 1 # 0 => ends[n - 1] \in 1..L)
      BY <1>6, <2>1, <2>4
    <3>2. Start(ends, n - 1) \in Nat /\ ends[n] - 1 \in Nat /\ ends[n] - 1 <= L
      BY <1>2, <3>1 DEF Start
    <3>3. \A k \in 1..Len(log) : log'[k] = log[k]
      BY <1>0, <1>20
    <3>4. Len(log) <= Len(log') /\ ends[n] - 1 <= Len(log)
      BY <1>0, <1>12, <3>2
    <3>5. SubSeq(log', Start(ends, n - 1) + 1, ends[n] - 1)
            = SubSeq(log, Start(ends, n - 1) + 1, ends[n] - 1)
      BY <1>0, <3>2, <3>3, <3>4, SliceSame
    <3> QED
      BY <1>6, <1>10, <2>2, <2>3, <2>4, <3>5
  <2>5. CASE n = N + 1
    <3>1. n - 1 = N
      BY <1>6, <2>5
    <3> QED
      BY <1>5, <1>8, <1>10, <2>2, <2>3, <2>5, <3>1
  <2> QED
    BY <1>11, <2>4, <2>5
<1>18. CutInto(E)'
  <2>1. Len(All') = N + 1
    BY <1>6, <1>30, <1>31
  <2>2. Start(E, N + 1) = Len(log')
    BY <1>6, <1>10 DEF Start
  <2>3. SubSeq(log', Len(log') + 1, Len(log')) = <<>>
    BY <1>0, <1>12
  <2>4. \A k \in 1..Len(log') : log'[k] \in Newlines => \E n \in 1..(N + 1) : E[n] = k
    BY <1>2, <1>16
  <2> QED
    BY <1>3, <1>10, <1>14, <1>15, <1>17, <2>1, <2>2, <2>3, <2>4, Zenon DEF CutInto, Start
<1>19. WholeTyped'
  <2>1. incomingBuf' \in Seq(Nat)
    BY <1>3
  <2> QED
    BY <1>3, <1>31, <2>1 DEF WholeInv, WholeTyped
<1> QED
  BY <1>10, <1>18, <1>19 DEF LinesCut

\* A turn of the loop.
LEMMA PieceWhole ==
  ASSUME IInv, WholeInv, NEW x \in Handlers, Piece(x)
  PROVE  WholeInv'
<1>1. /\ UNCHANGED <<lenTotalIncoming, to, dataLock, cuts>> /\ pc[x] = "piece"
      /\ pc'[x] = "deliver"
      /\ \A h \in Handlers \ {x} : pc'[h] = pc[h] /\ from'[h] = from[h]
  BY DEF Piece, IInv, ReceiveTyped
<1>2. x \in dataLock /\ \A h \in dataLock : h = x
  BY <1>1 DEF WholeInv, OneDelivers
<1>3. OneDelivers'
  BY <1>1, <1>2 DEF WholeInv, OneDelivers, Working
<1>4. CutsAccepted'
  BY <1>1, <1>2 DEF WholeInv, CutsAccepted, Working
<1>5. Adjoining'
  BY PieceAdjoins
<1>6. LinesCut' /\ WholeTyped'
  BY PieceBuffers, PieceFinishes
<1> QED
  BY <1>3, <1>4, <1>5, <1>6 DEF WholeInv

\* The invariant of lines and messages holds in every state.
THEOREM WholeInvariant == Spec => []WholeInv
<1>1. IInv /\ WholeInv /\ [Next]_vars => WholeInv'
  <2> SUFFICES ASSUME IInv, WholeInv, [Next]_vars PROVE WholeInv'
    OBVIOUS
  <2>1. CASE Close \/ UNCHANGED vars
    BY <2>1, CloseWhole
  <2>2. ASSUME NEW x \in Handlers, Ack(x) \/ AckStale(x) \/ HandleConnect(x) PROVE WholeInv'
    <3>1. PICK s : s \in {"idle", "stale", "ack"} /\ pc' = [pc EXCEPT ![x] = s]
      BY <2>2 DEF Ack, AckStale, HandleConnect
    <3>2. /\ pc[x] \in {"idle", "stale", "ack"}
          /\ UNCHANGED <<lenTotalIncoming, from, to, lineVars, ctxDone, cuts>>
      BY <2>2 DEF Ack, AckStale, HandleConnect
    <3> QED
      BY <3>1, <3>2, IdleWhole
  <2>3. ASSUME NEW x \in Handlers, NEW pos \in 0..StreamLen, NEW len \in 0..(StreamLen - pos),
               HandleData(x, pos, len)
        PROVE  WholeInv'
    <3>1. CASE Useless(pos, len)
      <4>1. /\ pc[x] \in {"idle", "stale", "ack"} /\ pc' = [pc EXCEPT ![x] = "stale"]
            /\ UNCHANGED <<lenTotalIncoming, from, to, lineVars, ctxDone, cuts>>
        BY <2>3, <3>1 DEF HandleData
      <4> QED
        BY <4>1, IdleWhole
    <3>2. CASE ~Useless(pos, len)
      BY <2>3, <3>2, AcceptWhole
    <3> QED
      BY <3>1, <3>2
  <2> QED
    BY <2>1, <2>2, <2>3, TakeWhole, BeginWhole, EndWhole, PieceWhole DEF Next, Deliver
<1> QED
  BY InvariantHolds, WholeInit, <1>1, PTL DEF Spec

----------------------------------------------------------------------------
\* An increasing sequence has as many values as places.
LEMMA IncreasingCounts ==
  ASSUME NEW ends \in Seq(Nat), NEW n \in 0..Len(ends),
         \A i, j \in 1..Len(ends) : i < j => ends[i] < ends[j]
  PROVE  Cardinality({ends[i] : i \in 1..n}) = n
<1> DEFINE f == [i \in 1..n |-> ends[i]]
           R == {ends[i] : i \in 1..n}
<1>1. IsFiniteSet(1..n) /\ Cardinality(1..n) = n
  <2>1. 1 \in Int /\ n \in Int
    OBVIOUS
  <2>2. IsFiniteSet(1..n) /\ Cardinality(1..n) = IF 1 > n THEN 0 ELSE n - 1 + 1
    BY <2>1, FS_Interval, Zenon
  <2> QED
    BY <2>2
<1>2. f \in Surjection(1..n, R)
  BY DEF Surjection
<1>3. f \in Injection(1..n, R)
  <2>1. ASSUME NEW i \in 1..n, NEW j \in 1..n, ends[i] = ends[j] PROVE i = j
    <3>1. i \in 1..Len(ends) /\ j \in 1..Len(ends) /\ ends[i] \in Nat /\ ends[j] \in Nat
      OBVIOUS
    <3>2. ~(i < j) /\ ~(j < i)
      BY <2>1, <3>1
    <3> QED
      BY <3>2
  <2> QED
    BY <2>1 DEF Injection, IsInjective
<1> HIDE DEF f, R
<1>4. Cardinality(R) = Cardinality(1..n)
  BY <1>1, <1>2, <1>3, FS_Surjection
<1> QED
  BY <1>1, <1>4 DEF R

\* The bytes of a message stay together, and the lines are what was delivered,
\* cut at its newlines, for any number of handlers and any stream.
THEOREM WholeMessages == Spec => []MessagesStayWhole
<1>1. IInv /\ WholeInv => MessagesStayWhole
  <2> SUFFICES ASSUME IInv, WholeInv PROVE MessagesStayWhole
    OBVIOUS
  <2> DEFINE cutAt == {k \in DOMAIN log : log[k] \in Newlines}
             Upto(k) == {j \in cutAt : j <= k}
             Nth(n) == IF n = 0 THEN 0 ELSE CHOOSE k \in cutAt : Cardinality(Upto(k)) = n
  <2>1. DOMAIN log = 1..Len(log)
    BY DEF IInv, ReceiveTyped
  <2>2. PICK ends : ends \in Seq(Nat) /\ CutInto(ends)
    BY DEF WholeInv, LinesCut
  <2>3. PICK N : N = Len(ends)
    OBVIOUS
  <2>4. /\ N \in Nat /\ N = Len(All)
        /\ \A n \in 1..N : ends[n] \in 1..Len(log) /\ log[ends[n]] \in Newlines
        /\ \A m, n \in 1..N : m < n => ends[m] < ends[n]
        /\ \A k \in 1..Len(log) : log[k] \in Newlines => \E n \in 1..N : ends[n] = k
        /\ \A n \in 1..N : All[n] = SubSeq(log, Start(ends, n - 1) + 1, ends[n] - 1)
    BY <2>2, <2>3 DEF CutInto
  <2>5. cutAt = {ends[i] : i \in 1..N}
    BY <2>1, <2>4
  <2>6. \A n \in 0..N : Cardinality({ends[i] : i \in 1..n}) = n
    BY <2>2, <2>3, <2>4, IncreasingCounts
  <2>7. ASSUME NEW n \in 1..N PROVE Upto(ends[n]) = {ends[i] : i \in 1..n}
    <3>1. \A i \in 1..N : ends[i] \in Nat
      BY <2>4
    <3>2. \A i \in 1..N : ends[i] <= ends[n] <=> i \in 1..n
      <4> SUFFICES ASSUME NEW i \in 1..N PROVE ends[i] <= ends[n] <=> i \in 1..n
        OBVIOUS
      <4>1. CASE i < n
        BY <2>4, <3>1, <4>1
      <4>2. CASE i = n
        BY <3>1, <4>2
      <4>3. CASE n < i
        BY <2>4, <3>1, <4>3
      <4> QED
        BY <4>1, <4>2, <4>3
    <3>3. \A i \in 1..n : i \in 1..N
      BY <2>4
    <3> HIDE DEF cutAt
    <3> QED
      BY <2>5, <3>2, <3>3
  <2> HIDE DEF cutAt, Upto
  <2>8. \A n \in 1..N : ends[n] \in cutAt /\ Cardinality(Upto(ends[n])) = n
    <3>1. \A n \in 1..N : n \in 0..N
      BY <2>4
    <3> QED
      BY <2>5, <2>6, <2>7, <3>1
  <2>9. ASSUME NEW n \in 1..N PROVE Nth(n) = ends[n]
    <3>1. PICK k : k = CHOOSE i \in cutAt : Cardinality(Upto(i)) = n
      OBVIOUS
    <3>2. k \in cutAt /\ Cardinality(Upto(k)) = n
      BY <2>8, <3>1
    <3>3. PICK m : m \in 1..N /\ k = ends[m]
      BY <2>5, <3>2
    <3>4. m = n
      BY <2>8, <3>2, <3>3
    <3>5. n # 0
      BY <2>4
    <3> QED
      BY <3>1, <3>3, <3>4, <3>5
  <2>10. \A n \in 0..N : Nth(n) = Start(ends, n)
    <3>1. Nth(0) = 0 /\ Start(ends, 0) = 0
      BY DEF Start
    <3>2. \A n \in 1..N : Start(ends, n) = ends[n]
      BY <2>4 DEF Start
    <3>3. \A n \in 0..N : n = 0 \/ n \in 1..N
      BY <2>4
    <3> HIDE DEF Nth
    <3> QED
      BY <2>9, <3>1, <3>2, <3>3
  <2> HIDE DEF Nth
  <2>11. \A n \in 1..Len(All) : All[n] = SubSeq(log, Nth(n - 1) + 1, Nth(n) - 1)
    <3>1. \A n \in 1..N : n - 1 \in 0..N
      BY <2>4
    <3> QED
      BY <2>4, <2>9, <2>10, <3>1
  <2>12. Len(All) = Cardinality(cutAt)
    <3>1. N \in 0..N
      BY <2>4
    <3> QED
      BY <2>4, <2>5, <2>6, <3>1
  <2>13. \A k \in 1..Len(log) - 1 :
           log[k + 1] = log[k] + 1 \/ (log[k] \in cuts /\ log[k + 1] - 1 \in cuts \cup {0})
    BY DEF WholeInv, Adjoining
  <2> QED
    BY <2>11, <2>12, <2>13 DEF MessagesStayWhole, All, Nth, Upto, cutAt
<1> QED
  BY InvariantHolds, WholeInvariant, <1>1, PTL
=============================================================================
