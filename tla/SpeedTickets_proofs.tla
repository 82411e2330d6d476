------------------------ MODULE SpeedTickets_proofs ------------------------
(***************************************************************************)
(* Proofs about SpeedTickets: for any number of cameras, roads, plates and *)
(* dispatchers, any limits, times and capacity, a ticket is issued for     *)
(* every pair of positions that is too fast, at most one for a day, none   *)
(* for a driver who was not too fast, and none is dropped or doubled on    *)
(* its way.                                                                *)
(***************************************************************************)
EXTENDS SpeedTickets, SequenceTheorems, WellFoundedInduction, NaturalsInduction, TLAPS

----------------------------------------------------------------------------
(* Numbers *)

\* A set of numbers that is not empty has a smallest one.
LEMMA SmallestExists ==
  ASSUME NEW S, S \subseteq Nat, S # {}
  PROVE  \E n \in S : \A m \in S : n <= m
<1> DEFINE R == {p \in Nat \X Nat : p[1] < p[2]}
<1>1. IsWellFoundedOn(R, Nat)
  BY NatLessThanWellFounded, Zenon DEF OpToRel
<1>2. \A x, y \in Nat : <<y, x>> \in R <=> y < x
  OBVIOUS
<1> HIDE DEF R
<1>3. PICK n \in S : \A m \in S : ~(<<m, n>> \in R)
  BY <1>1, WFMin
<1>4. ASSUME NEW m \in S PROVE n <= m
  <2>1. m \in Nat /\ n \in Nat
    OBVIOUS
  <2>2. ~(m < n)
    BY <1>2, <1>3, <2>1, Zenon
  <2> QED
    BY <2>1, <2>2
<1> QED
  BY <1>4

\* The Min of a set of numbers that is not empty.
LEMMA MinProperties ==
  ASSUME NEW S, S \subseteq Nat, S # {}
  PROVE  Min(S) \in S /\ \A m \in S : Min(S) <= m
BY SmallestExists DEF Min

\* The Max of a set of numbers with a bound.
LEMMA MaxProperties ==
  ASSUME NEW n \in Nat, NEW S, S \subseteq 0..n, S # {}
  PROVE  Max(S) \in S /\ \A m \in S : Max(S) >= m
<1> DEFINE T == {n - m : m \in S}
<1>1. T \subseteq Nat
  <2>1. \A m \in S : n - m \in Nat
    OBVIOUS
  <2> QED
    BY <2>1
<1>2. T # {}
  <2>1. PICK m : m \in S
    OBVIOUS
  <2>2. n - m \in T
    BY <2>1
  <2> QED
    BY <2>2
<1>3. PICK x \in T : \A y \in T : x <= y
  BY <1>1, <1>2, SmallestExists
<1>4. PICK k \in S : x = n - k
  OBVIOUS
<1>5. ASSUME NEW m \in S PROVE k >= m
  <2>1. x <= n - m
    BY <1>3
  <2> QED
    BY <1>4, <2>1
<1> QED
  BY <1>5 DEF Max

\* The quotient of two numbers.
LEMMA Quotient ==
  ASSUME NEW a \in Nat, NEW b \in Nat, b > 0
  PROVE  /\ a \div b \in Nat
         /\ (a \div b) * b <= a /\ a < (a \div b) * b + b
OBVIOUS

\* A product grows with its factor.
LEMMA Product ==
  ASSUME NEW a \in Nat, NEW b \in Nat, NEW c \in Nat, a <= b
  PROVE  a * c <= b * c
OBVIOUS

\* Later times are on later days.
LEMMA DaysMonotone ==
  ASSUME NEW a \in Nat, NEW b \in Nat, a <= b
  PROVE  /\ a \div 86400 \in Nat /\ b \div 86400 \in Nat
         /\ a \div 86400 <= b \div 86400
OBVIOUS

----------------------------------------------------------------------------
(* Speeds *)

\* A speed that needs a ticket is half a mile per hour above the limit.
LEMMA OverLimitIsTooFast ==
  ASSUME NEW dm \in Nat, NEW dt \in Nat, NEW limit \in Nat,
         ~(\/ SpeedRounded(dm, dt) < limit
           \/ SpeedRounded(dm, dt) = limit /\ PrecisionBelowHalf(dm, dt))
  PROVE  2 * dm * 3600 >= (2 * limit + 1) * dt
<1> DEFINE q == (dm * 3600) \div dt
           v == SpeedRounded(dm, dt)
<1>1. CASE dt = 0
  BY <1>1
<1>2. CASE dt > 0
  <2>1. q \in Nat /\ q * dt <= dm * 3600
    BY <1>2, Quotient
  <2>2. v = q % 65536
    BY <1>2 DEF SpeedRounded
  <2> HIDE DEF q
  <2>3. v \in Nat /\ v <= q
    BY <2>1, <2>2
  <2> HIDE DEF v
  <2>4. CASE v = limit
    <3>1. ~PrecisionBelowHalf(dm, dt)
      BY <2>4 DEF v
    <3>2. ~(2 * dm * 3600 < (2 * v + 1) * dt)
      BY <3>1 DEF PrecisionBelowHalf, v
    <3> DEFINE rhs == (2 * limit + 1) * dt
    <3>3. rhs \in Int
      OBVIOUS
    <3>4. ~(2 * dm * 3600 < rhs)
      BY <3>2, <2>4
    <3> HIDE DEF rhs
    <3>5. 2 * dm * 3600 >= rhs
      BY <3>3, <3>4
    <3> QED
      BY <3>5 DEF rhs
  <2>5. CASE v > limit
    <3>1. (limit + 1) * dt <= q * dt
      <4>1. limit + 1 <= q
        BY <2>1, <2>3, <2>5
      <4> QED
        BY <2>1, <4>1, Product
    <3>2. (2 * limit + 1) * dt <= 2 * ((limit + 1) * dt)
      OBVIOUS
    <3> DEFINE x == (2 * limit + 1) * dt
               y == (limit + 1) * dt
               z == q * dt
    <3>3. x \in Int /\ y \in Int /\ z \in Int
      BY <2>1
    <3>4. x <= 2 * y /\ y <= z /\ z <= dm * 3600
      BY <2>1, <3>1, <3>2
    <3> HIDE DEF x, y, z
    <3>5. x <= 2 * dm * 3600
      BY <3>3, <3>4
    <3> QED
      BY <3>5, <3>3 DEF x
  <2>6. ~(v < limit)
    BY DEF v
  <2> QED
    BY <2>3, <2>4, <2>5, <2>6
<1> QED
  BY <1>1, <1>2

\* A speed that uint16 holds and that is half a mile per hour above the limit
\* needs a ticket.
LEMMA TooFastIsOverLimit ==
  ASSUME NEW dm \in Nat, NEW dt \in Nat, NEW limit \in Nat,
         dt > 0, dm * 3600 < 65536 * dt, 2 * dm * 3600 >= (2 * limit + 1) * dt
  PROVE  ~(\/ SpeedRounded(dm, dt) < limit
           \/ SpeedRounded(dm, dt) = limit /\ PrecisionBelowHalf(dm, dt))
<1> DEFINE q == (dm * 3600) \div dt
           x == dm * 3600
<1>1. q \in Nat /\ q * dt <= x /\ x < q * dt + dt
  BY Quotient
<1> HIDE DEF q
<1>2. x \in Nat /\ x < 65536 * dt /\ 2 * x >= (2 * limit + 1) * dt
  OBVIOUS
<1> HIDE DEF x
<1>3. q < 65536
  <2>1. SUFFICES ASSUME 65536 <= q PROVE FALSE
    BY <1>1
  <2>2. 65536 * dt <= q * dt
    BY <1>1, <2>1, Product
  <2> DEFINE y == q * dt
  <2>3. y \in Int /\ 65536 * dt <= y /\ y <= x
    BY <1>1, <2>2
  <2> HIDE DEF y
  <2> QED
    BY <1>2, <2>3
<1>4. SpeedRounded(dm, dt) = q
  <2>1. SpeedRounded(dm, dt) = q % 65536
    BY DEF SpeedRounded, q
  <2> QED
    BY <1>1, <1>3, <2>1
<1>5. ~(q < limit)
  <2>1. SUFFICES ASSUME q + 1 <= limit PROVE FALSE
    BY <1>1
  <2>2. (q + 1) * dt <= limit * dt
    BY <1>1, <2>1, Product
  <2> DEFINE y == q * dt
             z == limit * dt
  <2>3. y \in Int /\ z \in Int /\ y + dt <= z
    BY <1>1, <2>2
  <2>4. 2 * x >= 2 * z + dt /\ x < y + dt
    BY <1>1, <1>2
  <2> HIDE DEF y, z
  <2> QED
    BY <1>2, <2>3, <2>4
<1>6. ~PrecisionBelowHalf(dm, dt) \/ q # limit
  <2>1. SUFFICES ASSUME q = limit PROVE ~PrecisionBelowHalf(dm, dt)
    OBVIOUS
  <2> DEFINE y == (2 * limit + 1) * dt
  <2>2. y \in Int /\ 2 * x >= y
    BY <1>2
  <2>3. PrecisionBelowHalf(dm, dt) <=> 2 * dm * 3600 < y
    BY <1>4, <2>1 DEF PrecisionBelowHalf
  <2>4. 2 * dm * 3600 = 2 * x
    BY DEF x
  <2> HIDE DEF y
  <2> QED
    BY <1>2, <2>2, <2>3, <2>4
<1> QED
  BY <1>4, <1>5, <1>6

----------------------------------------------------------------------------
(* Logs *)

\* The positions in a log.
InLog(log) == {log[k] : k \in 1..Len(log)}

\* The parts of a log before and from a place.
LEMMA FrontOfLog ==
  ASSUME NEW S, NEW log \in Seq(S), NEW k \in 0..Len(log)
  PROVE  /\ SubSeq(log, 1, k) \in Seq(S) /\ Len(SubSeq(log, 1, k)) = k
         /\ \A i \in 1..k : SubSeq(log, 1, k)[i] = log[i]
OBVIOUS

\* The rest of a log behind its first k positions.
LEMMA RestOfLog ==
  ASSUME NEW S, NEW log \in Seq(S), NEW k \in 0..Len(log)
  PROVE  /\ SubSeq(log, k + 1, Len(log)) \in Seq(S)
         /\ Len(SubSeq(log, k + 1, Len(log))) = Len(log) - k
         /\ \A i \in 1..(Len(log) - k) : SubSeq(log, k + 1, Len(log))[i] = log[k + i]
OBVIOUS

\* A position between two parts.
LEMMA Joined ==
  ASSUME NEW S, NEW u \in Seq(S), NEW v \in Seq(S), NEW p \in S,
         NEW z, z = u \o <<p>> \o v
  PROVE  /\ z \in Seq(S) /\ Len(z) = Len(u) + 1 + Len(v)
         /\ \A i \in 1..Len(u) : z[i] = u[i]
         /\ z[Len(u) + 1] = p
         /\ \A i \in 1..Len(v) : z[Len(u) + 1 + i] = v[i]
OBVIOUS

\* An insertion adds the position to the log and moves the others only.
LEMMA SortedProperties ==
  ASSUME NEW S, NEW log \in Seq(S), NEW p \in S
  PROVE  /\ Sorted(log, p) \in Seq(S)
         /\ InLog(Sorted(log, p)) = InLog(log) \cup {p}
<1> DEFINE n == Len(log)
           k == Max({0} \cup {i \in 1..n : ~Before(p, log[i])})
           u == SubSeq(log, 1, k)
           v == SubSeq(log, k + 1, n)
           z == u \o <<p>> \o v
<1>1. n \in Nat
  OBVIOUS
<1>2. k \in 0..n
  <2> DEFINE places == {0} \cup {i \in 1..n : ~Before(p, log[i])}
  <2>1. places \subseteq 0..n /\ places # {}
    BY <1>1
  <2> HIDE DEF places
  <2>2. Max(places) \in places
    BY <1>1, <2>1, MaxProperties
  <2>3. Max(places) \in 0..n
    BY <2>1, <2>2
  <2> QED
    BY <2>3 DEF places
<1>3. Sorted(log, p) = z
  BY DEF Sorted
<1> HIDE DEF k
<1>4. u \in Seq(S) /\ Len(u) = k /\ \A i \in 1..k : u[i] = log[i]
  BY <1>2, FrontOfLog
<1>5. v \in Seq(S) /\ Len(v) = n - k /\ \A i \in 1..(n - k) : v[i] = log[k + i]
  BY <1>2, RestOfLog
<1> HIDE DEF u, v
<1>6. /\ z \in Seq(S) /\ Len(z) = k + 1 + (n - k)
      /\ \A i \in 1..k : z[i] = u[i]
      /\ z[k + 1] = p
      /\ \A i \in 1..(n - k) : z[k + 1 + i] = v[i]
  <2>1. /\ z \in Seq(S) /\ Len(z) = Len(u) + 1 + Len(v)
        /\ \A i \in 1..Len(u) : z[i] = u[i]
        /\ z[Len(u) + 1] = p
        /\ \A i \in 1..Len(v) : z[Len(u) + 1 + i] = v[i]
    <3>1. z = u \o <<p>> \o v
      OBVIOUS
    <3>2. u \in Seq(S) /\ v \in Seq(S)
      BY <1>4, <1>5
    <3> HIDE DEF z
    <3> QED
      BY <3>1, <3>2, Joined
  <2> QED
    BY <1>4, <1>5, <2>1, Zenon
<1> HIDE DEF z, n
<1>7. Len(z) = n + 1
  BY <1>1, <1>2, <1>6
<1>8. \A i \in 1..k : z[i] = log[i]
  BY <1>4, <1>6, Zenon
<1>9. \A i \in 1..(n - k) : z[k + 1 + i] = log[k + i]
  BY <1>5, <1>6, Zenon
<1>10. ASSUME NEW j \in 1..(n + 1) PROVE z[j] \in InLog(log) \cup {p}
  <2>1. CASE j \in 1..k
    BY <1>1, <1>2, <1>8, <2>1 DEF InLog, n
  <2>2. CASE j = k + 1
    BY <1>6, <2>2
  <2>3. CASE j > k + 1
    <3>1. j - k - 1 \in 1..(n - k) /\ k + 1 + (j - k - 1) = j /\ k + (j - k - 1) = j - 1
      BY <1>1, <1>2, <2>3
    <3>2. z[j] = log[j - 1]
      BY <1>9, <3>1, Zenon
    <3>3. j - 1 \in 1..n
      BY <1>1, <1>2, <2>3
    <3> QED
      BY <3>2, <3>3 DEF InLog, n
  <2> QED
    BY <1>1, <1>2, <2>1, <2>2, <2>3
<1>11. ASSUME NEW i \in 1..n PROVE \E j \in 1..(n + 1) : z[j] = log[i]
  <2>1. CASE i \in 1..k
    BY <1>1, <1>2, <1>8, <2>1
  <2>2. CASE i > k
    <3>1. i - k \in 1..(n - k) /\ k + 1 + (i - k) = i + 1 /\ k + (i - k) = i
      BY <1>1, <1>2, <2>2
    <3>2. z[i + 1] = log[i] /\ i + 1 \in 1..(n + 1)
      BY <1>1, <1>9, <3>1
    <3> QED
      BY <3>2
  <2> QED
    BY <1>1, <1>2, <2>1, <2>2
<1>12. \E j \in 1..(n + 1) : z[j] = p
  BY <1>1, <1>2, <1>6
<1>13. InLog(z) = InLog(log) \cup {p}
  BY <1>7, <1>10, <1>11, <1>12 DEF InLog, n
<1> QED
  BY <1>3, <1>6, <1>13

----------------------------------------------------------------------------
(* The inductive invariant *)

\* The positions in the log of a plate and a road.
Logged(p, r) == InLog(DatabaseLogs[p][r])

\* A session that works on a plate message is a camera and has logged its
\* position; it is at a position that needs a ticket when it asks for one.
Works(s) ==
  /\ IsCamera(s) => camera[s] \in Cameras
  /\ pc[s] # "read" => /\ camera[s] \in Cameras
                       /\ cur[s] \in [plate : Plates, pos : Positions]
                       /\ cur[s].pos \in Logged(cur[s].plate, camera[s].road)
  /\ pc[s] = "inserted" => at[s] = 0
  /\ pc[s] \in {"ticket", "send"} => at[s] \in 1..Len(Log(s)) /\ NeedsTicket(s, at[s])

AtWork == \A s \in Sessions : Works(s)

\* A session sends with TicketSentLock held.
SenderLocks == \A s \in Sessions : pc[s] = "send" => sentLock = {s}

\* A listener has a ticket while it writes, and no session without a type has
\* listeners.
ListenersHold ==
  \A s \in Sessions, r \in Roads :
    /\ listener[s][r] = "write" <=> held[s][r] \in Tickets
    /\ role[s] = "unknown" => listener[s][r] = "off"

WorkInv == TypeOK /\ AtWork /\ SenderLocks /\ ListenersHold

\* The days of the tickets that were issued are marked.
IssuedIsMarked ==
  \A i \in DOMAIN issued : Days(issued[i]) \subseteq TicketSent[issued[i].plate]

TicketInv == IssuedIsMarked /\ OneTicketPerDay /\ TicketsAreTrue

\* No ticket is twice in a channel or at two listeners, and each is at its road.
NoneDoubled ==
  /\ \A r \in Roads : \A j, k \in 1..Len(DispatcherChan[r]) :
       DispatcherChan[r][j] = DispatcherChan[r][k] => j = k
  /\ \A s, t \in Sessions, r \in Roads :
       held[s][r] \in Tickets => /\ held[s][r].road = r
                                 /\ held[s][r] = held[t][r] => s = t

\* The five places of TicketsConserved, one by one.
Issued == {issued[i] : i \in DOMAIN issued}
InChans == UNION {InChan(r) : r \in Roads}
Conserved ==
  /\ Issued = Sending \cup InChans \cup Holding \cup delivered \cup lost
  /\ Sending \cap InChans = {} /\ Sending \cap Holding = {} /\ Sending \cap delivered = {}
  /\ Sending \cap lost = {} /\ InChans \cap Holding = {} /\ InChans \cap delivered = {}
  /\ InChans \cap lost = {} /\ Holding \cap delivered = {} /\ Holding \cap lost = {}
  /\ delivered \cap lost = {}
  /\ \A r \in Roads : \A t \in InChan(r) : t.road = r

\* No ticket is dropped or doubled.
TransitInv == NoneDoubled /\ Conserved

\* A day of the pair has a ticket.
Ticketed(p, r, a, b) == Days(TicketFor(p, r, a, b)) \cap TicketSent[p] # {}

\* A session has inserted one of the positions and its scan has still to come to
\* the other, or has stopped there for the lock.
Awaits(s, p, r, a, b) ==
  /\ pc[s] # "read" /\ cur[s].plate = p /\ camera[s].road = r
  /\ \E k \in 1..Len(Log(s)) :
       /\ k > at[s] \/ (pc[s] = "ticket" /\ k = at[s])
       /\ \/ cur[s].pos = a /\ Log(s)[k] = b
          \/ cur[s].pos = b /\ Log(s)[k] = a

\* Each pair that is too fast has a ticket or a session that will see to it.
Covered ==
  \A p \in Plates, r \in Roads : \A a, b \in Logged(p, r) :
    TooFast(r, a, b) => Ticketed(p, r, a, b) \/ \E s \in Sessions : Awaits(s, p, r, a, b)

----------------------------------------------------------------------------
(* Sessions, logs and locks *)

\* What registers and what is reported has the types of the messages.
LEMMA InputsTyped ==
  /\ \A s \in Sessions : Peers[s].cameras \subseteq Cameras
  /\ \A s \in Sessions : \A m \in Peers[s].messages :
       m.plate \in Plates /\ m.timestamp \in Timestamps
  /\ \A c \in Cameras : c.road \in Roads /\ c.mile \in Nat /\ c.limit \in Nat
  /\ \A c \in Cameras, t \in Timestamps : [mile |-> c.mile, timestamp |-> t] \in Positions
  /\ \A a \in Positions : a.mile \in Nat /\ a.timestamp \in Nat
<1>1. \A s \in Sessions : Peers[s].cameras \subseteq Cameras
  BY Zenon DEF Cameras
<1>2. \A s \in Sessions : \A m \in Peers[s].messages :
        m.plate \in Plates /\ m.timestamp \in Timestamps
  BY Zenon DEF Messages, Plates, Timestamps
<1>3. \A c \in Cameras : c.road \in Roads
  BY DEF Roads
<1>4. \A c \in Cameras : c.mile \in Nat /\ c.limit \in Nat
  BY NumbersAssumption
<1>5. \A c \in Cameras, t \in Timestamps : [mile |-> c.mile, timestamp |-> t] \in Positions
  BY DEF Positions
<1>6. \A a \in Positions : a.mile \in Nat /\ a.timestamp \in Nat
  <2>1. SUFFICES ASSUME NEW a \in Positions PROVE a.mile \in Nat /\ a.timestamp \in Nat
    OBVIOUS
  <2>2. a.mile \in {c.mile : c \in Cameras} /\ a.timestamp \in Timestamps
    BY DEF Positions
  <2>3. \E c \in Cameras : a.mile = c.mile
    BY <2>2
  <2>4. a.mile \in Nat
    BY <1>4, <2>3, Zenon
  <2>5. a.timestamp \in Nat
    <3>1. Timestamps \subseteq Nat
      BY NumbersAssumption
    <3> QED
      BY <2>2, <3>1, Zenon
  <2> QED
    BY <2>4, <2>5, Zenon
<1> QED
  BY <1>1, <1>2, <1>3, <1>4, <1>5, <1>6, Zenon

\* A ticket between two positions of a log goes from the earlier to the later.
LEMMA TicketTyped ==
  ASSUME NEW p \in Plates, NEW r \in Roads, NEW a \in Positions, NEW b \in Positions,
         NEW t, t = TicketFor(p, r, a, b)
  PROVE  /\ t \in Tickets /\ t.plate = p /\ t.road = r
         /\ t.pos1.timestamp <= t.pos2.timestamp
         /\ (t.pos1 = a /\ t.pos2 = b) \/ (t.pos1 = b /\ t.pos2 = a)
         /\ Days(t) \subseteq Nat /\ Days(t) # {}
<1>1. a.timestamp \in Nat /\ b.timestamp \in Nat
  BY InputsTyped, Zenon
<1>2. t.plate = p /\ t.road = r
  BY DEF TicketFor
<1>3. \/ t.pos1 = a /\ t.pos2 = b /\ a.timestamp <= b.timestamp
      \/ t.pos1 = b /\ t.pos2 = a /\ b.timestamp <= a.timestamp
  BY <1>1 DEF TicketFor
<1>4. t \in Tickets
  BY DEF TicketFor, Tickets
<1> DEFINE x == t.pos1.timestamp
           y == t.pos2.timestamp
<1>5. x \in Nat /\ y \in Nat /\ x <= y
  BY <1>1, <1>3
<1>6. x \div 86400 \in Nat /\ y \div 86400 \in Nat /\ x \div 86400 <= y \div 86400
  BY <1>5, DaysMonotone
<1>7. Days(t) \subseteq Nat /\ x \div 86400 \in Days(t)
  BY <1>6 DEF Days
<1> QED
  BY <1>2, <1>3, <1>4, <1>5, <1>7

\* The log of a session at work and the ticket for one of its positions.
LEMMA CandidateTyped ==
  ASSUME WorkInv, NEW s \in Sessions, pc[s] # "read"
  PROVE  /\ cur[s].plate \in Plates /\ camera[s].road \in Roads /\ cur[s].pos \in Positions
         /\ Log(s) \in Seq(Positions) /\ Len(Log(s)) \in Nat
         /\ \A k \in 1..Len(Log(s)) :
              LET t == Candidate(s, k)
              IN  /\ t \in Tickets /\ t.plate = cur[s].plate /\ t.road = camera[s].road
                  /\ t.pos1.timestamp <= t.pos2.timestamp
                  /\ \/ t.pos1 = cur[s].pos /\ t.pos2 = Log(s)[k]
                     \/ t.pos1 = Log(s)[k] /\ t.pos2 = cur[s].pos
                  /\ Days(t) \subseteq Nat /\ Days(t) # {}
<1>1. camera[s] \in Cameras /\ cur[s] \in [plate : Plates, pos : Positions]
  BY DEF WorkInv, AtWork, Works
<1>2. cur[s].plate \in Plates /\ camera[s].road \in Roads /\ cur[s].pos \in Positions
  BY <1>1, InputsTyped
<1>3. Log(s) \in Seq(Positions)
  BY <1>2 DEF WorkInv, TypeOK, Log
<1>4. Len(Log(s)) \in Nat /\ \A k \in 1..Len(Log(s)) : Log(s)[k] \in Positions
  BY <1>3
<1>5. ASSUME NEW k \in 1..Len(Log(s)), NEW t, t = Candidate(s, k)
      PROVE  /\ t \in Tickets /\ t.plate = cur[s].plate /\ t.road = camera[s].road
             /\ t.pos1.timestamp <= t.pos2.timestamp
             /\ \/ t.pos1 = cur[s].pos /\ t.pos2 = Log(s)[k]
                \/ t.pos1 = Log(s)[k] /\ t.pos2 = cur[s].pos
             /\ Days(t) \subseteq Nat /\ Days(t) # {}
  <2>1. t = TicketFor(cur[s].plate, camera[s].road, cur[s].pos, Log(s)[k])
    BY <1>5 DEF Candidate
  <2>2. Log(s)[k] \in Positions
    BY <1>4
  <2> QED
    BY <1>2, <2>1, <2>2, TicketTyped
<1> QED
  BY <1>2, <1>3, <1>4, <1>5, Zenon

\* The first state.
LEMMA WorkInit == Init => WorkInv
<1> SUFFICES ASSUME Init PROVE WorkInv
  OBVIOUS
<1>1. TypeOK
  <2>1. /\ DatabaseLogs \in [Plates -> [Roads -> Seq(Positions)]]
        /\ DispatcherChan \in [Roads -> Seq(Tickets)]
        /\ \A r \in Roads : Len(DispatcherChan[r]) = 0
        /\ issued \in Seq(Tickets)
    BY DEF Init
  <2>2. ChanCap \in Nat /\ MaxReports \in Nat
    BY NumbersAssumption
  <2>3. /\ \A r \in Roads : Len(DispatcherChan[r]) <= ChanCap
        /\ reports \in [Sessions -> 0..MaxReports]
    BY <2>1, <2>2 DEF Init
  <2>4. /\ conn \in [Sessions -> {"open", "ended", "gone"}]
        /\ role \in [Sessions -> {"unknown", "camera", "dispatcher"}]
        /\ camera \in [Sessions -> Cameras \cup {None}]
        /\ pc \in [Sessions -> {"read", "inserted", "scan", "ticket", "send"}]
        /\ cur \in [Sessions -> [plate : Plates, pos : Positions] \cup {None}]
        /\ at \in [Sessions -> Nat]
        /\ TicketSent \in [Plates -> SUBSET Nat]
    BY DEF Init
  <2>5. /\ sentLock \in SUBSET Sessions
        /\ listener \in [Sessions -> [Roads -> {"off", "wait", "write", "done"}]]
        /\ held \in [Sessions -> [Roads -> Tickets \cup {None}]]
        /\ isCancel \in SUBSET Sessions /\ stopping \in BOOLEAN
        /\ delivered \subseteq Tickets /\ lost \subseteq Tickets
    BY DEF Init
  <2> QED
    BY <2>1, <2>3, <2>4, <2>5 DEF TypeOK
<1>2. AtWork /\ SenderLocks
  BY DEF Init, AtWork, Works, SenderLocks, IsCamera
<1>3. ListenersHold
  BY NoneAssumption DEF Init, ListenersHold
<1> QED
  BY <1>1, <1>2, <1>3 DEF WorkInv

\* The steps of sessions and listeners that do not touch logs and tickets.
LEMMA SessionTyped ==
  ASSUME WorkInv, NEW s \in Sessions,
         \/ ReadFails(s) \/ SessionGone(s) \/ Stop
         \/ \E c \in Peers[s].cameras : RegisterCamera(s, c)
         \/ \E roads \in Peers[s].dispatchers : RegisterDispatcher(s, roads)
  PROVE  TypeOK'
<1> USE DEF WorkInv, TypeOK, sessVars, scanVars, ticketVars, outVars, history
<1>1. CASE ReadFails(s)
  BY <1>1 DEF ReadFails
<1>2. CASE SessionGone(s)
  BY <1>2 DEF SessionGone
<1>3. CASE Stop
  BY <1>3 DEF Stop
<1>4. ASSUME NEW c \in Peers[s].cameras, RegisterCamera(s, c) PROVE TypeOK'
  <2>1. c \in Cameras
    BY InputsTyped
  <2> QED
    BY <1>4, <2>1 DEF RegisterCamera
<1>5. ASSUME NEW roads \in Peers[s].dispatchers, RegisterDispatcher(s, roads) PROVE TypeOK'
  BY <1>5 DEF RegisterDispatcher
<1> QED
  BY <1>1, <1>2, <1>3, <1>4, <1>5

\* The steps of a plate message.
LEMMA PlateTyped ==
  ASSUME WorkInv, NEW s \in Sessions,
         \/ Scan(s) \/ MarkDays(s) \/ Send(s)
         \/ \E m \in Peers[s].messages : Insert(s, m.plate, m.timestamp)
  PROVE  TypeOK'
<1> USE DEF sessVars, scanVars, ticketVars, outVars, history
<1>1. CASE Scan(s)
  <2> DEFINE found == {k \in at[s] + 1..Len(Log(s)) : NeedsTicket(s, k)}
  <2>1. at[s] \in Nat /\ Len(Log(s)) \in Nat
    BY <1>1, CandidateTyped DEF WorkInv, TypeOK, Scan
  <2>2. found \subseteq Nat
    BY <2>1
  <2>3. found # {} => Min(found) \in Nat
    <3> HIDE DEF found
    <3> QED
      BY <2>2, MinProperties
  <2>4. \/ /\ pc' = [pc EXCEPT ![s] = "read"]
           /\ cur' = [cur EXCEPT ![s] = None]
           /\ at' = [at EXCEPT ![s] = 0]
        \/ /\ found # {} /\ cur' = cur
           /\ pc' = [pc EXCEPT ![s] = "ticket"]
           /\ at' = [at EXCEPT ![s] = Min(found)]
    BY <1>1 DEF Scan
  <2>5. UNCHANGED <<conn, role, camera, DatabaseLogs, TicketSent, sentLock, DispatcherChan,
                    listener, held, isCancel, stopping, reports, issued, delivered, lost>>
    BY <1>1 DEF Scan
  <2> HIDE DEF found
  <2>6. /\ pc' \in [Sessions -> {"read", "inserted", "scan", "ticket", "send"}]
        /\ cur' \in [Sessions -> [plate : Plates, pos : Positions] \cup {None}]
        /\ at' \in [Sessions -> Nat]
    <3>1. CASE found # {} /\ cur' = cur /\ pc' = [pc EXCEPT ![s] = "ticket"]
               /\ at' = [at EXCEPT ![s] = Min(found)]
      BY <2>3, <3>1 DEF WorkInv, TypeOK
    <3>2. CASE /\ pc' = [pc EXCEPT ![s] = "read"] /\ cur' = [cur EXCEPT ![s] = None]
               /\ at' = [at EXCEPT ![s] = 0]
      BY <3>2 DEF WorkInv, TypeOK
    <3> QED
      BY <2>4, <3>1, <3>2
  <2> QED
    BY <2>5, <2>6 DEF WorkInv, TypeOK
<1>2. CASE MarkDays(s)
  <2> DEFINE t == Candidate(s, at[s])
  <2>1. pc[s] # "read" /\ at[s] \in 1..Len(Log(s))
    BY <1>2 DEF MarkDays, WorkInv, AtWork, Works
  <2>2. t \in Tickets /\ t.plate \in Plates /\ Days(t) \subseteq Nat
    BY <2>1, CandidateTyped
  <2>3. \/ /\ pc' = [pc EXCEPT ![s] = "scan"] /\ sentLock' = {}
           /\ UNCHANGED <<TicketSent, issued>>
        \/ /\ TicketSent' = [TicketSent EXCEPT ![t.plate] = @ \cup Days(t)]
           /\ issued' = Append(issued, t)
           /\ pc' = [pc EXCEPT ![s] = "send"]
           /\ sentLock' = {s}
    BY <1>2 DEF MarkDays, LockDropped
  <2>4. UNCHANGED <<conn, role, camera, cur, at, DatabaseLogs, DispatcherChan,
                    listener, held, isCancel, stopping, reports, delivered, lost>>
    BY <1>2 DEF MarkDays
  <2> HIDE DEF t
  <2>5. /\ sentLock' \in SUBSET Sessions
        /\ pc' \in [Sessions -> {"read", "inserted", "scan", "ticket", "send"}]
    BY <2>3 DEF WorkInv, TypeOK
  <2>7. TicketSent' \in [Plates -> SUBSET Nat]
    <3>1. TicketSent[t.plate] \cup Days(t) \in SUBSET Nat
      BY <2>2 DEF WorkInv, TypeOK
    <3> QED
      BY <2>2, <2>3, <3>1 DEF WorkInv, TypeOK
  <2>6. issued' \in Seq(Tickets)
    <3>1. issued \in Seq(Tickets)
      BY DEF WorkInv, TypeOK
    <3>2. Append(issued, t) \in Seq(Tickets)
      BY <2>2, <3>1
    <3> QED
      BY <2>3, <3>1, <3>2
  <2> QED
    BY <2>4, <2>5, <2>6, <2>7 DEF WorkInv, TypeOK
<1>3. CASE Send(s)
  <2> DEFINE t == Candidate(s, at[s])
             r == camera[s].road
  <2>1. pc[s] # "read" /\ at[s] \in 1..Len(Log(s))
    BY <1>3 DEF Send, WorkInv, AtWork, Works
  <2>2. t \in Tickets /\ r \in Roads
    BY <2>1, CandidateTyped
  <2>3. /\ Len(DispatcherChan[r]) < ChanCap
        /\ DispatcherChan' = [DispatcherChan EXCEPT ![r] = Append(@, t)]
        /\ sentLock' = {} /\ pc' = [pc EXCEPT ![s] = "scan"]
        /\ UNCHANGED <<conn, role, camera, cur, at, DatabaseLogs, TicketSent, issued,
                       listener, held, isCancel, stopping, reports, delivered, lost>>
    BY <1>3 DEF Send, Enqueue, HasRoom
  <2>4. ChanCap \in Nat
    BY NumbersAssumption
  <2> HIDE DEF t, r
  <2>5. DispatcherChan \in [Roads -> Seq(Tickets)]
    BY DEF WorkInv, TypeOK
  <2>6. /\ Append(DispatcherChan[r], t) \in Seq(Tickets)
        /\ Len(Append(DispatcherChan[r], t)) <= ChanCap
    BY <2>2, <2>3, <2>4, <2>5
  <2>7. /\ DispatcherChan' \in [Roads -> Seq(Tickets)]
        /\ \A q \in Roads : DispatcherChan'[q] = IF q = r THEN Append(DispatcherChan[r], t)
                                                  ELSE DispatcherChan[q]
    BY <2>2, <2>3, <2>5, <2>6
  <2>8. \A q \in Roads : Len(DispatcherChan'[q]) <= ChanCap
    BY <2>6, <2>7 DEF WorkInv, TypeOK
  <2> QED
    BY <2>3, <2>7, <2>8 DEF WorkInv, TypeOK
<1>4. ASSUME NEW m \in Peers[s].messages, Insert(s, m.plate, m.timestamp) PROVE TypeOK'
  <2> DEFINE pos == [mile |-> camera[s].mile, timestamp |-> m.timestamp]
             r == camera[s].road
             p == m.plate
  <2>1. camera[s] \in Cameras
    BY <1>4 DEF Insert, WorkInv, AtWork, Works
  <2>2. pos \in Positions /\ r \in Roads /\ p \in Plates
    BY <2>1, InputsTyped
  <2>3. /\ DatabaseLogs' = [DatabaseLogs EXCEPT ![p][r] = Sorted(@, pos)]
        /\ cur' = [cur EXCEPT ![s] = [plate |-> p, pos |-> pos]]
        /\ at' = [at EXCEPT ![s] = 0] /\ pc' = [pc EXCEPT ![s] = "inserted"]
        /\ reports[s] < MaxReports /\ reports' = [reports EXCEPT ![s] = @ + 1]
        /\ UNCHANGED <<conn, role, camera, TicketSent, sentLock, DispatcherChan,
                       listener, held, isCancel, stopping, issued, delivered, lost>>
    BY <1>4 DEF Insert
  <2> HIDE DEF pos, r, p
  <2>4. DatabaseLogs \in [Plates -> [Roads -> Seq(Positions)]]
    BY DEF WorkInv, TypeOK
  <2>5. Sorted(DatabaseLogs[p][r], pos) \in Seq(Positions)
    BY <2>2, <2>4, SortedProperties
  <2>6. DatabaseLogs' \in [Plates -> [Roads -> Seq(Positions)]]
    BY <2>2, <2>3, <2>4, <2>5
  <2>7. reports' \in [Sessions -> 0..MaxReports]
    <3>1. MaxReports \in Nat
      BY NumbersAssumption
    <3> QED
      BY <2>3, <3>1 DEF WorkInv, TypeOK
  <2> QED
    BY <2>2, <2>3, <2>6, <2>7 DEF WorkInv, TypeOK
<1> QED
  BY <1>1, <1>2, <1>3, <1>4

\* The steps of a listener.
LEMMA ListenerTyped ==
  ASSUME WorkInv, NEW s \in Sessions, NEW r \in Roads,
         \/ ListenerTake(s, r) \/ ListenerWrites(s, r)
         \/ ListenerFails(s, r) \/ ListenerEnds(s, r)
  PROVE  TypeOK'
<1> USE DEF sessVars, scanVars, ticketVars, outVars, history
<1>1. CASE ListenerTake(s, r)
  <2> DEFINE c == DispatcherChan[r]
  <2>1. c \in Seq(Tickets) /\ c # <<>> /\ Len(c) <= ChanCap /\ ChanCap \in Nat
    BY <1>1, NumbersAssumption DEF ListenerTake, WorkInv, TypeOK
  <2>2. Head(c) \in Tickets /\ Tail(c) \in Seq(Tickets) /\ Len(Tail(c)) <= ChanCap
    BY <2>1
  <2>3. /\ held' = [held EXCEPT ![s][r] = Head(c)]
        /\ DispatcherChan' = [DispatcherChan EXCEPT ![r] = Tail(c)]
        /\ listener' = [listener EXCEPT ![s][r] = "write"]
        /\ UNCHANGED <<conn, role, camera, pc, cur, at, DatabaseLogs, TicketSent, sentLock,
                       isCancel, stopping, reports, issued, delivered, lost>>
    BY <1>1 DEF ListenerTake
  <2>4. \A q \in Roads : Len(DispatcherChan'[q]) <= ChanCap
    BY <2>2, <2>3 DEF WorkInv, TypeOK
  <2> HIDE DEF c
  <2> QED
    BY <2>2, <2>3, <2>4 DEF WorkInv, TypeOK
<1>2. CASE ListenerWrites(s, r)
  <2>1. held[s][r] \in Tickets
    BY <1>2 DEF ListenerWrites, WorkInv, ListenersHold
  <2> QED
    BY <1>2, <2>1 DEF ListenerWrites, WorkInv, TypeOK
<1>3. CASE ListenerFails(s, r)
  <2>1. held[s][r] \in Tickets
    BY <1>3 DEF ListenerFails, WorkInv, ListenersHold
  <2> QED
    BY <1>3, <2>1 DEF ListenerFails, WorkInv, TypeOK
<1>4. CASE ListenerEnds(s, r)
  BY <1>4 DEF ListenerEnds, WorkInv, TypeOK
<1> QED
  BY <1>1, <1>2, <1>3, <1>4

\* A step that leaves a session and the logs alone leaves its work as it is.
LEMMA WorksStays ==
  ASSUME NEW u \in Sessions, Works(u),
         role'[u] = role[u], camera'[u] = camera[u], pc'[u] = pc[u],
         cur'[u] = cur[u], at'[u] = at[u], DatabaseLogs' = DatabaseLogs
  PROVE  Works(u)'
<1>1. Log(u)' = Log(u)
  BY DEF Log
<1>2. ASSUME NEW k, NeedsTicket(u, k) PROVE NeedsTicket(u, k)'
  BY <1>1, <1>2 DEF NeedsTicket, Candidate
<1>3. Logged(cur[u].plate, camera[u].road)' = Logged(cur[u].plate, camera[u].road)
  BY DEF Logged
<1>4. NeedsTicket(u, at[u]) => NeedsTicket(u, at[u])'
  BY <1>2
<1> QED
  BY <1>1, <1>3, <1>4 DEF Works, IsCamera

\* Sessions that register, end or have listeners do not change the work.
LEMMA WorkUndisturbed ==
  ASSUME WorkInv, UNCHANGED <<role, camera, pc, cur, at, DatabaseLogs>>
  PROVE  AtWork'
BY WorksStays DEF WorkInv, AtWork

\* A camera or a dispatcher says what it is; others work on.
LEMMA RegisterWork ==
  ASSUME WorkInv, NEW s \in Sessions,
         \/ \E c \in Peers[s].cameras : RegisterCamera(s, c)
         \/ \E roads \in Peers[s].dispatchers : RegisterDispatcher(s, roads)
  PROVE  AtWork'
<1>1. /\ pc[s] = "read" /\ UNCHANGED <<pc, cur, at, DatabaseLogs>>
      /\ \A u \in Sessions \ {s} : role'[u] = role[u] /\ camera'[u] = camera[u]
  BY DEF RegisterCamera, RegisterDispatcher, Request, scanVars, WorkInv, TypeOK
<1>2. \A u \in Sessions \ {s} : Works(u)'
  BY <1>1, WorksStays DEF WorkInv, AtWork
<1>3. IsCamera(s)' => camera'[s] \in Cameras
  <2>1. ASSUME NEW c \in Peers[s].cameras, RegisterCamera(s, c) PROVE camera'[s] \in Cameras
    BY <2>1, InputsTyped DEF RegisterCamera, WorkInv, TypeOK
  <2>2. ASSUME NEW roads \in Peers[s].dispatchers, RegisterDispatcher(s, roads)
        PROVE  ~IsCamera(s)'
    BY <2>2 DEF RegisterDispatcher, IsCamera, WorkInv, TypeOK
  <2> QED
    BY <2>1, <2>2
<1>4. Works(s)'
  BY <1>1, <1>3 DEF Works
<1> QED
  BY <1>2, <1>4 DEF AtWork

\* An insertion happens when no session scans, and takes nothing from a log.
LEMMA InsertWork ==
  ASSUME WorkInv, NEW s \in Sessions, NEW m \in Peers[s].messages,
         Insert(s, m.plate, m.timestamp)
  PROVE  /\ AtWork'
         /\ pc[s] = "read" /\ \A u \in Sessions : pc[u] \in {"read", "inserted"}
         /\ camera[s] \in Cameras /\ UNCHANGED <<role, camera>>
         /\ pc' = [pc EXCEPT ![s] = "inserted"] /\ at' = [at EXCEPT ![s] = 0]
         /\ m.plate \in Plates
         /\ cur'[s].plate = m.plate /\ cur'[s].pos \in Positions
         /\ \A u \in Sessions \ {s} : cur'[u] = cur[u]
         /\ \A p \in Plates, r \in Roads :
              Logged(p, r)' = IF p = m.plate /\ r = camera[s].road
                              THEN Logged(p, r) \cup {cur'[s].pos} ELSE Logged(p, r)
<1> DEFINE pos == [mile |-> camera[s].mile, timestamp |-> m.timestamp]
           x == camera[s].road
           y == m.plate
<1>1. /\ pc[s] = "read" /\ IsCamera(s) /\ Readers = {}
      /\ UNCHANGED <<role, camera>>
      /\ DatabaseLogs' = [DatabaseLogs EXCEPT ![y][x] = Sorted(@, pos)]
      /\ cur' = [cur EXCEPT ![s] = [plate |-> y, pos |-> pos]]
      /\ at' = [at EXCEPT ![s] = 0] /\ pc' = [pc EXCEPT ![s] = "inserted"]
  BY DEF Insert, Request, sessVars
<1>2. \A u \in Sessions : pc[u] \in {"read", "inserted"}
  BY <1>1 DEF Readers, WorkInv, TypeOK
<1>3. camera[s] \in Cameras
  BY <1>1 DEF WorkInv, AtWork, Works
<1>4. pos \in Positions /\ x \in Roads /\ y \in Plates
  BY <1>3, InputsTyped
<1> HIDE DEF pos, x, y
<1>5. DatabaseLogs \in [Plates -> [Roads -> Seq(Positions)]]
  BY DEF WorkInv, TypeOK
<1>6. InLog(Sorted(DatabaseLogs[y][x], pos)) = InLog(DatabaseLogs[y][x]) \cup {pos}
  BY <1>4, <1>5, SortedProperties
<1>7. ASSUME NEW p \in Plates, NEW r \in Roads
      PROVE  Logged(p, r)' = IF p = y /\ r = x THEN Logged(p, r) \cup {pos} ELSE Logged(p, r)
  <2>1. DatabaseLogs'[p][r] = IF p = y /\ r = x THEN Sorted(DatabaseLogs[y][x], pos)
                              ELSE DatabaseLogs[p][r]
    BY <1>1, <1>4, <1>5
  <2> QED
    BY <1>6, <2>1 DEF Logged
<1>8. /\ cur'[s] = [plate |-> y, pos |-> pos]
      /\ \A u \in Sessions \ {s} : cur'[u] = cur[u]
  BY <1>1 DEF WorkInv, TypeOK
<1>9. /\ pc'[s] = "inserted" /\ at'[s] = 0
      /\ \A u \in Sessions \ {s} : pc'[u] = pc[u] /\ at'[u] = at[u]
  BY <1>1 DEF WorkInv, TypeOK
<1>10. Works(s)'
  <2>1. cur'[s] \in [plate : Plates, pos : Positions] /\ cur'[s].pos = pos /\ cur'[s].plate = y
    BY <1>4, <1>8
  <2>2. camera'[s].road = x /\ camera'[s] \in Cameras
    BY <1>1, <1>3 DEF x
  <2>3. pos \in InLog(DatabaseLogs'[y][x])
    <3>1. ASSUME NEW p \in Plates, NEW r \in Roads, p = y, r = x PROVE pos \in Logged(p, r)'
      BY <1>7, <3>1
    <3> QED
      BY <1>4, <3>1 DEF Logged
  <2>4. (cur[s].pos \in Logged(cur[s].plate, camera[s].road))'
    BY <2>1, <2>2, <2>3 DEF Logged
  <2> QED
    BY <1>9, <2>1, <2>2, <2>4 DEF Works
<1>11. ASSUME NEW u \in Sessions \ {s} PROVE Works(u)'
  <2>1. Works(u) /\ pc[u] \in {"read", "inserted"}
    BY <1>2 DEF WorkInv, AtWork
  <2>2. CASE pc[u] = "read"
    BY <1>1, <1>9, <2>1, <2>2 DEF Works, IsCamera
  <2>3. CASE pc[u] = "inserted"
    <3>1. cur[u].plate \in Plates /\ camera[u].road \in Roads
      BY <2>3, CandidateTyped
    <3>2. cur[u].pos \in Logged(cur[u].plate, camera[u].road)
      BY <2>1, <2>3 DEF Works
    <3>3. cur[u].pos \in Logged(cur[u].plate, camera[u].road)'
      <4>1. ASSUME NEW p \in Plates, NEW r \in Roads, NEW a \in Logged(p, r)
            PROVE  a \in Logged(p, r)'
        BY <1>7
      <4>2. cur[u].pos \in InLog(DatabaseLogs'[cur[u].plate][camera[u].road])
        BY <3>1, <3>2, <4>1 DEF Logged
      <4> QED
        BY <1>1, <1>8, <4>2 DEF Logged
    <3> QED
      BY <1>1, <1>8, <1>9, <2>1, <2>3, <3>3 DEF Works, IsCamera
  <2> QED
    BY <2>1, <2>2, <2>3
<1>12. AtWork'
  BY <1>10, <1>11 DEF AtWork
<1>13. cur'[s].plate = y /\ cur'[s].pos = pos
  BY <1>8
<1>14. \A p \in Plates, r \in Roads :
         Logged(p, r)' = IF p = y /\ r = x THEN Logged(p, r) \cup {cur'[s].pos}
                         ELSE Logged(p, r)
  BY <1>7, <1>13
<1> QED
  BY <1>1, <1>2, <1>3, <1>4, <1>8, <1>12, <1>13, <1>14 DEF x, y

\* The scan stops at the first position after its place that needs a ticket.
LEMMA ScanStops ==
  ASSUME WorkInv, NEW s \in Sessions, Scan(s)
  PROVE  /\ pc[s] \in {"inserted", "scan"} /\ at[s] \in Nat
         /\ UNCHANGED <<role, camera, DatabaseLogs, TicketSent, sentLock>>
         /\ \A u \in Sessions \ {s} : pc'[u] = pc[u] /\ cur'[u] = cur[u] /\ at'[u] = at[u]
         /\ \/ /\ pc'[s] = "read"
               /\ \A k \in at[s] + 1..Len(Log(s)) : ~NeedsTicket(s, k)
            \/ /\ pc'[s] = "ticket" /\ cur'[s] = cur[s]
               /\ at'[s] \in at[s] + 1..Len(Log(s)) /\ NeedsTicket(s, at'[s])
               /\ \A k \in at[s] + 1..Len(Log(s)) : NeedsTicket(s, k) => at'[s] <= k
<1> DEFINE found == {k \in at[s] + 1..Len(Log(s)) : NeedsTicket(s, k)}
<1>1. pc[s] \in {"inserted", "scan"}
  BY DEF Scan
<1>2. at[s] \in Nat /\ Len(Log(s)) \in Nat
  BY <1>1, CandidateTyped DEF WorkInv, TypeOK
<1>3. UNCHANGED <<role, camera, DatabaseLogs, TicketSent, sentLock>>
  BY DEF Scan, sessVars, ticketVars
<1>4. /\ pc \in [Sessions -> {"read", "inserted", "scan", "ticket", "send"}]
      /\ DOMAIN cur = Sessions /\ DOMAIN at = Sessions
  BY DEF WorkInv, TypeOK
<1>5. CASE found = {}
  <2>1. /\ pc' = [pc EXCEPT ![s] = "read"] /\ cur' = [cur EXCEPT ![s] = None]
        /\ at' = [at EXCEPT ![s] = 0]
    BY <1>5 DEF Scan
  <2>2. \A k \in at[s] + 1..Len(Log(s)) : ~NeedsTicket(s, k)
    BY <1>5
  <2>3. /\ pc'[s] = "read"
        /\ \A u \in Sessions \ {s} : pc'[u] = pc[u] /\ cur'[u] = cur[u] /\ at'[u] = at[u]
    BY <1>4, <2>1
  <2> QED
    BY <1>1, <1>2, <1>3, <2>2, <2>3
<1>6. CASE found # {}
  <2>1. /\ pc' = [pc EXCEPT ![s] = "ticket"] /\ at' = [at EXCEPT ![s] = Min(found)]
        /\ cur' = cur
    BY <1>6 DEF Scan
  <2>2. Min(found) \in found /\ \A k \in found : Min(found) <= k
    <3>1. found \subseteq Nat
      BY <1>2
    <3> HIDE DEF found
    <3> QED
      BY <1>6, <3>1, MinProperties
  <2>3. /\ pc'[s] = "ticket" /\ at'[s] = Min(found)
        /\ \A u \in Sessions \ {s} : pc'[u] = pc[u] /\ cur'[u] = cur[u] /\ at'[u] = at[u]
    BY <1>4, <2>1
  <2>4. /\ at'[s] \in at[s] + 1..Len(Log(s)) /\ NeedsTicket(s, at'[s])
        /\ \A k \in at[s] + 1..Len(Log(s)) : NeedsTicket(s, k) => at'[s] <= k
    BY <2>2, <2>3
  <2> QED
    BY <1>1, <1>2, <1>3, <2>1, <2>3, <2>4
<1> QED
  BY <1>5, <1>6

\* The steps of a scan keep the work of the sessions.
LEMMA ScanWork ==
  ASSUME WorkInv, NEW s \in Sessions, Scan(s) \/ MarkDays(s) \/ Send(s)
  PROVE  AtWork'
<1>1. CASE Scan(s)
  <2>1. \A u \in Sessions \ {s} : Works(u)'
    BY <1>1, ScanStops, WorksStays DEF WorkInv, AtWork
  <2>2. Works(s) /\ UNCHANGED <<role, camera, DatabaseLogs>>
    BY <1>1, ScanStops DEF WorkInv, AtWork
  <2>3. ASSUME pc'[s] = "read" PROVE Works(s)'
    BY <2>2, <2>3 DEF Works, IsCamera
  <2>4. ASSUME pc'[s] = "ticket", cur'[s] = cur[s],
               at'[s] \in at[s] + 1..Len(Log(s)), NeedsTicket(s, at'[s])
        PROVE  Works(s)'
    <3>1. at[s] \in Nat /\ Len(Log(s)) \in Nat /\ pc[s] # "read"
      BY <1>1, CandidateTyped DEF Scan, WorkInv, TypeOK
    <3>2. at'[s] \in 1..Len(Log(s)) /\ Log(s)' = Log(s)
      BY <2>2, <2>4, <3>1 DEF Log
    <3>3. NeedsTicket(s, at[s])'
      BY <2>2, <2>4, <3>2 DEF NeedsTicket, Candidate
    <3>4. Logged(cur[s].plate, camera[s].road)' = Logged(cur[s].plate, camera[s].road)
      BY <2>2, <2>4 DEF Logged
    <3> QED
      BY <2>2, <2>4, <3>1, <3>2, <3>3, <3>4 DEF Works, IsCamera
  <2> QED
    BY <1>1, <2>1, <2>3, <2>4, ScanStops DEF AtWork
<1>2. CASE MarkDays(s) \/ Send(s)
  <2>1. /\ UNCHANGED <<role, camera, cur, at, DatabaseLogs>>
        /\ \A u \in Sessions \ {s} : pc'[u] = pc[u]
        /\ \/ pc'[s] = "scan"
           \/ pc[s] = "ticket" /\ pc'[s] = "send"
    BY <1>2 DEF MarkDays, Send, sessVars, WorkInv, TypeOK
  <2>2. \A u \in Sessions \ {s} : Works(u)'
    BY <2>1, WorksStays DEF WorkInv, AtWork
  <2>3. Works(s) /\ pc[s] \in {"ticket", "send"}
    BY <1>2 DEF MarkDays, Send, WorkInv, AtWork
  <2>4. /\ Log(s)' = Log(s)
        /\ Logged(cur[s].plate, camera[s].road)' = Logged(cur[s].plate, camera[s].road)
    BY <2>1 DEF Log, Logged
  <2>5. NeedsTicket(s, at[s]) => NeedsTicket(s, at[s])'
    BY <2>1, <2>4 DEF NeedsTicket, Candidate
  <2>6. Works(s)'
    BY <2>1, <2>3, <2>4, <2>5 DEF Works, IsCamera
  <2> QED
    BY <2>2, <2>6 DEF AtWork
<1> QED
  BY <1>1, <1>2

\* Each step keeps the invariant of the sessions.
LEMMA WorkNext == WorkInv /\ [Next]_vars => WorkInv'
<1> SUFFICES ASSUME WorkInv, [Next]_vars PROVE WorkInv'
  OBVIOUS
<1> USE DEF sessVars, scanVars, ticketVars, outVars, history
<1>1. CASE UNCHANGED vars
  <2>1. TypeOK'
    BY <1>1 DEF WorkInv, TypeOK, vars
  <2>2. AtWork'
    BY <1>1, WorkUndisturbed DEF vars
  <2>3. SenderLocks' /\ ListenersHold'
    BY <1>1 DEF WorkInv, SenderLocks, ListenersHold, vars
  <2> QED
    BY <2>1, <2>2, <2>3 DEF WorkInv
<1>2. CASE Stop
  <2>1. UNCHANGED <<role, camera, pc, cur, at, DatabaseLogs, sentLock, listener, held>>
    BY <1>2 DEF Stop
  <2>2. TypeOK'
    BY <1>2 DEF WorkInv, TypeOK, Stop
  <2>3. AtWork'
    BY <2>1, WorkUndisturbed
  <2>4. SenderLocks' /\ ListenersHold'
    BY <2>1 DEF WorkInv, SenderLocks, ListenersHold
  <2> QED
    BY <2>2, <2>3, <2>4 DEF WorkInv
<1>3. ASSUME NEW s \in Sessions, ReadFails(s) \/ SessionGone(s) PROVE WorkInv'
  <2>1. UNCHANGED <<role, camera, pc, cur, at, DatabaseLogs, sentLock, listener, held>>
    BY <1>3 DEF ReadFails, SessionGone
  <2>2. TypeOK'
    BY <1>3, SessionTyped
  <2>3. AtWork'
    BY <2>1, WorkUndisturbed
  <2>4. SenderLocks' /\ ListenersHold'
    BY <2>1 DEF WorkInv, SenderLocks, ListenersHold
  <2> QED
    BY <2>2, <2>3, <2>4 DEF WorkInv
<1>4. ASSUME NEW s \in Sessions,
             \/ \E c \in Peers[s].cameras : RegisterCamera(s, c)
             \/ \E roads \in Peers[s].dispatchers : RegisterDispatcher(s, roads)
      PROVE  WorkInv'
  <2>1. TypeOK' /\ AtWork'
    BY <1>4, SessionTyped, RegisterWork
  <2>2. SenderLocks'
    BY <1>4 DEF RegisterCamera, RegisterDispatcher, WorkInv, SenderLocks
  <2>3. ListenersHold'
    <3>1. /\ role[s] = "unknown" /\ role'[s] # "unknown" /\ held' = held
          /\ \A u \in Sessions \ {s} : role'[u] = role[u]
          /\ \A u \in Sessions \ {s}, r \in Roads : listener'[u][r] = listener[u][r]
          /\ \A r \in Roads : listener'[s][r] = listener[s][r] \/ listener'[s][r] \in {"wait", "off"}
      BY <1>4 DEF RegisterCamera, RegisterDispatcher, WorkInv, TypeOK
    <3> QED
      BY <3>1 DEF WorkInv, ListenersHold
  <2> QED
    BY <2>1, <2>2, <2>3 DEF WorkInv
<1>5. ASSUME NEW s \in Sessions, NEW m \in Peers[s].messages,
             Insert(s, m.plate, m.timestamp)
      PROVE  WorkInv'
  <2>1. TypeOK' /\ AtWork'
    BY <1>5, PlateTyped, InsertWork
  <2>2. SenderLocks' /\ ListenersHold'
    BY <1>5 DEF Insert, WorkInv, TypeOK, SenderLocks, ListenersHold
  <2> QED
    BY <2>1, <2>2 DEF WorkInv
<1>6. ASSUME NEW s \in Sessions, Scan(s) \/ MarkDays(s) \/ Send(s) PROVE WorkInv'
  <2>1. TypeOK' /\ AtWork'
    BY <1>6, PlateTyped, ScanWork
  <2>2. ListenersHold'
    BY <1>6 DEF Scan, MarkDays, Send, WorkInv, ListenersHold
  <2>3. SenderLocks'
    <3>1. CASE Scan(s)
      BY <3>1, ScanStops DEF WorkInv, SenderLocks
    <3>2. CASE MarkDays(s)
      BY <3>2 DEF MarkDays, WorkInv, TypeOK, SenderLocks
    <3>3. CASE Send(s)
      BY <3>3 DEF Send, WorkInv, TypeOK, SenderLocks
    <3> QED
      BY <1>6, <3>1, <3>2, <3>3
  <2> QED
    BY <2>1, <2>2, <2>3 DEF WorkInv
<1>7. ASSUME NEW s \in Sessions, NEW r \in Roads,
             \/ ListenerTake(s, r) \/ ListenerWrites(s, r)
             \/ ListenerFails(s, r) \/ ListenerEnds(s, r)
      PROVE  WorkInv'
  <2>1. UNCHANGED <<role, camera, pc, cur, at, DatabaseLogs, sentLock>>
    BY <1>7 DEF ListenerTake, ListenerWrites, ListenerFails, ListenerEnds
  <2>2. TypeOK' /\ AtWork' /\ SenderLocks'
    BY <1>7, <2>1, ListenerTyped, WorkUndisturbed DEF WorkInv, SenderLocks
  <2>3. ListenersHold'
    <3>1. role[s] # "unknown"
      BY <1>7 DEF ListenerTake, ListenerWrites, ListenerFails, ListenerEnds, WorkInv, ListenersHold
    <3>2. \A u \in Sessions, q \in Roads :
            (u # s \/ q # r) => listener'[u][q] = listener[u][q] /\ held'[u][q] = held[u][q]
      BY <1>7 DEF ListenerTake, ListenerWrites, ListenerFails, ListenerEnds, WorkInv, TypeOK
    <3>3. listener'[s][r] = "write" <=> held'[s][r] \in Tickets
      <4>1. CASE ListenerTake(s, r)
        <5>1. Head(DispatcherChan[r]) \in Tickets
          <6>1. DispatcherChan[r] \in Seq(Tickets) /\ DispatcherChan[r] # <<>>
            BY <4>1 DEF ListenerTake, WorkInv, TypeOK
          <6> QED
            BY <6>1
        <5> QED
          BY <4>1, <5>1 DEF ListenerTake, WorkInv, TypeOK
      <4>2. CASE ListenerWrites(s, r)
        BY <4>2, NoneAssumption DEF ListenerWrites, WorkInv, TypeOK
      <4>3. CASE ListenerFails(s, r)
        BY <4>3, NoneAssumption DEF ListenerFails, WorkInv, TypeOK
      <4>4. CASE ListenerEnds(s, r)
        BY <4>4 DEF ListenerEnds, WorkInv, TypeOK, ListenersHold
      <4> QED
        BY <1>7, <4>1, <4>2, <4>3, <4>4
    <3> QED
      BY <2>1, <3>1, <3>2, <3>3 DEF WorkInv, ListenersHold
  <2> QED
    BY <2>2, <2>3 DEF WorkInv
<1> QED
  BY <1>1, <1>2, <1>3, <1>4, <1>5, <1>6, <1>7 DEF Next, Ticketing

\* Logs, marks, channels and listeners hold what their types say, a camera at
\* work has logged its position, and a ticket is sent with the lock held.
THEOREM WorkInvariant == Spec => []WorkInv
<1>1. Init => WorkInv
  BY WorkInit
<1>2. WorkInv /\ [Next]_vars => WorkInv'
  BY WorkNext
<1> QED
  BY <1>1, <1>2, PTL DEF Spec

----------------------------------------------------------------------------
(* Tickets *)

\* Only MarkDays issues tickets and marks days.
LEMMA OthersIssueNothing ==
  ASSUME [Next]_vars, \A s \in Sessions : ~MarkDays(s)
  PROVE  UNCHANGED <<issued, TicketSent>>
<1> USE DEF ticketVars
<1>1. CASE UNCHANGED vars
  BY <1>1 DEF vars
<1>2. CASE Stop
  BY <1>2 DEF Stop
<1>3. ASSUME NEW s \in Sessions, ReadFails(s) \/ SessionGone(s) \/ Scan(s) \/ Send(s)
      PROVE  UNCHANGED <<issued, TicketSent>>
  BY <1>3 DEF ReadFails, SessionGone, Scan, Send
<1>4. ASSUME NEW s \in Sessions, NEW c, RegisterCamera(s, c) \/ RegisterDispatcher(s, c)
      PROVE  UNCHANGED <<issued, TicketSent>>
  BY <1>4 DEF RegisterCamera, RegisterDispatcher
<1>5. ASSUME NEW s \in Sessions, NEW m, Insert(s, m.plate, m.timestamp)
      PROVE  UNCHANGED <<issued, TicketSent>>
  BY <1>5 DEF Insert
<1>6. ASSUME NEW s \in Sessions, NEW r \in Roads,
             \/ ListenerTake(s, r) \/ ListenerWrites(s, r)
             \/ ListenerFails(s, r) \/ ListenerEnds(s, r)
      PROVE  UNCHANGED <<issued, TicketSent>>
  BY <1>6 DEF ListenerTake, ListenerWrites, ListenerFails, ListenerEnds
<1> QED
  BY <1>1, <1>2, <1>3, <1>4, <1>5, <1>6, Zenon DEF Next, Ticketing

\* Only an insertion changes a log.
LEMMA LogsChange ==
  ASSUME [Next]_vars
  PROVE  \/ UNCHANGED DatabaseLogs
         \/ \E s \in Sessions : \E m \in Peers[s].messages : Insert(s, m.plate, m.timestamp)
<1>1. CASE UNCHANGED vars
  BY <1>1 DEF vars
<1>2. CASE Stop
  BY <1>2 DEF Stop
<1>3. ASSUME NEW s \in Sessions, ReadFails(s) \/ SessionGone(s) \/ Ticketing(s)
      PROVE  UNCHANGED DatabaseLogs
  BY <1>3 DEF ReadFails, SessionGone, Ticketing, Scan, MarkDays, Send
<1>4. ASSUME NEW s \in Sessions, NEW c, RegisterCamera(s, c) \/ RegisterDispatcher(s, c)
      PROVE  UNCHANGED DatabaseLogs
  BY <1>4 DEF RegisterCamera, RegisterDispatcher
<1>5. ASSUME NEW s \in Sessions, NEW r \in Roads,
             \/ ListenerTake(s, r) \/ ListenerWrites(s, r)
             \/ ListenerFails(s, r) \/ ListenerEnds(s, r)
      PROVE  UNCHANGED DatabaseLogs
  BY <1>5 DEF ListenerTake, ListenerWrites, ListenerFails, ListenerEnds
<1> QED
  BY <1>1, <1>2, <1>3, <1>4, <1>5, Zenon DEF Next

\* A session at work is changed by the steps of its own scan only.
LEMMA OthersWork ==
  ASSUME WorkInv, [Next]_vars, NEW u \in Sessions, pc[u] # "read",
         ~(Scan(u) \/ MarkDays(u) \/ Send(u))
  PROVE  camera'[u] = camera[u] /\ pc'[u] = pc[u] /\ cur'[u] = cur[u] /\ at'[u] = at[u]
<1> DEFINE Same == camera'[u] = camera[u] /\ pc'[u] = pc[u] /\ cur'[u] = cur[u] /\ at'[u] = at[u]
<1> USE DEF sessVars, scanVars
<1>1. ASSUME UNCHANGED vars PROVE Same
  BY <1>1 DEF vars
<1>2. ASSUME Stop PROVE Same
  BY <1>2 DEF Stop
<1>3. ASSUME NEW s \in Sessions, ReadFails(s) \/ SessionGone(s) PROVE Same
  BY <1>3 DEF ReadFails, SessionGone
<1>4. ASSUME NEW s \in Sessions, Ticketing(s) PROVE Same
  <2>1. s # u
    BY <1>4 DEF Ticketing
  <2>2. CASE Scan(s)
    BY <2>1, <2>2, ScanStops
  <2>3. CASE MarkDays(s) \/ Send(s)
    BY <2>1, <2>3 DEF MarkDays, Send, WorkInv, TypeOK
  <2> QED
    BY <1>4, <2>2, <2>3 DEF Ticketing
<1>5. ASSUME NEW s \in Sessions, NEW c, RegisterCamera(s, c) \/ RegisterDispatcher(s, c) PROVE Same
  BY <1>5 DEF RegisterCamera, RegisterDispatcher, Request, WorkInv, TypeOK
<1>6. ASSUME NEW s \in Sessions, NEW m \in Peers[s].messages,
             Insert(s, m.plate, m.timestamp)
      PROVE  Same
  BY <1>6 DEF Insert, Request, WorkInv, TypeOK
<1>7. ASSUME NEW s \in Sessions, NEW r \in Roads,
             \/ ListenerTake(s, r) \/ ListenerWrites(s, r)
             \/ ListenerFails(s, r) \/ ListenerEnds(s, r)
      PROVE  Same
  BY <1>7 DEF ListenerTake, ListenerWrites, ListenerFails, ListenerEnds
<1> HIDE DEF Same
<1>8. Same
  BY <1>1, <1>2, <1>3, <1>4, <1>5, <1>6, <1>7 DEF Next
<1> QED
  BY <1>8 DEF Same

\* No position leaves a log.
LEMMA LogsGrow ==
  ASSUME WorkInv, [Next]_vars
  PROVE  \A p \in Plates, r \in Roads : Logged(p, r) \subseteq Logged(p, r)'
<1>1. CASE UNCHANGED DatabaseLogs
  BY <1>1 DEF Logged
<1>2. ASSUME NEW s \in Sessions, NEW m \in Peers[s].messages,
             Insert(s, m.plate, m.timestamp)
      PROVE  \A p \in Plates, r \in Roads : Logged(p, r) \subseteq Logged(p, r)'
  BY <1>2, InsertWork
<1> QED
  BY <1>1, <1>2, LogsChange

\* A ticket is issued for days none of which is marked, and marks them.
LEMMA MarkStep ==
  ASSUME WorkInv, NEW s \in Sessions, MarkDays(s), NEW t, t = Candidate(s, at[s])
  PROVE  /\ pc[s] = "ticket" /\ sentLock = {} /\ DatabaseLogs' = DatabaseLogs
         /\ t \in Tickets /\ t.plate = cur[s].plate /\ t.road = camera[s].road
         /\ t.pos1.timestamp <= t.pos2.timestamp
         /\ Days(t) \subseteq Nat /\ Days(t) # {}
         /\ TicketSent \in [Plates -> SUBSET Nat] /\ issued \in Seq(Tickets)
         /\ UNCHANGED <<camera, cur, at>>
         /\ \/ /\ Days(t) \cap TicketSent[t.plate] # {}
               /\ pc' = [pc EXCEPT ![s] = "scan"] /\ UNCHANGED <<TicketSent, issued>>
            \/ /\ Days(t) \cap TicketSent[t.plate] = {}
               /\ pc' = [pc EXCEPT ![s] = "send"]
               /\ TicketSent' = [TicketSent EXCEPT ![t.plate] = @ \cup Days(t)]
               /\ issued' = Append(issued, t)
<1>1. pc[s] = "ticket" /\ at[s] \in 1..Len(Log(s))
  BY DEF MarkDays, WorkInv, AtWork, Works
<1>2. /\ t \in Tickets /\ t.plate = cur[s].plate /\ t.road = camera[s].road
      /\ t.pos1.timestamp <= t.pos2.timestamp
      /\ Days(t) \subseteq Nat /\ Days(t) # {}
  BY <1>1, CandidateTyped
<1>3. TicketSent \in [Plates -> SUBSET Nat] /\ issued \in Seq(Tickets)
  BY DEF WorkInv, TypeOK
<1>4. \/ /\ Days(t) \cap TicketSent[t.plate] # {}
         /\ pc' = [pc EXCEPT ![s] = "scan"] /\ UNCHANGED <<TicketSent, issued>>
      \/ /\ Days(t) \cap TicketSent[t.plate] = {}
         /\ pc' = [pc EXCEPT ![s] = "send"]
         /\ TicketSent' = [TicketSent EXCEPT ![t.plate] = @ \cup Days(t)]
         /\ issued' = Append(issued, t)
  BY DEF MarkDays, HasTicketFor
<1>5. sentLock = {} /\ UNCHANGED <<camera, cur, at, DatabaseLogs>>
  BY DEF MarkDays, sessVars
<1> QED
  BY <1>1, <1>2, <1>3, <1>4, <1>5

\* The elements of a sequence that got one more.
LEMMA Appended ==
  ASSUME NEW S, NEW q \in Seq(S), NEW t \in S
  PROVE  /\ Append(q, t) \in Seq(S)
         /\ DOMAIN q = 1..Len(q) /\ DOMAIN Append(q, t) = 1..(Len(q) + 1)
         /\ Len(q) \in Nat /\ Len(Append(q, t)) = Len(q) + 1
         /\ \A i \in 1..Len(q) : Append(q, t)[i] = q[i] /\ i \in 1..(Len(q) + 1) /\ i # Len(q) + 1
         /\ Append(q, t)[Len(q) + 1] = t
         /\ \A i \in 1..(Len(q) + 1) : i \in 1..Len(q) \/ i = Len(q) + 1
OBVIOUS

\* A ticket is issued for two logged positions and a speed above the limit.
IsTrue(t) ==
  /\ {t.pos1, t.pos2} \subseteq Logged(t.plate, t.road)
  /\ \E c \in Cameras :
       /\ c.road = t.road
       /\ 2 * Miles(t.pos1, t.pos2) * 3600 >=
            (2 * c.limit + 1) * (t.pos2.timestamp - t.pos1.timestamp)

\* TicketsAreTrue, ticket by ticket.
LEMMA TicketsAreTrueMeans ==
  ASSUME WorkInv
  PROVE  TicketsAreTrue <=> \A i \in DOMAIN issued : IsTrue(issued[i])
<1>1. ASSUME NEW i \in DOMAIN issued, NEW t, t = issued[i],
             NEW log, log = DatabaseLogs[t.plate][t.road]
      PROVE  {log[k] : k \in DOMAIN log} = Logged(t.plate, t.road)
  <2>1. t \in Tickets
    <3>1. issued \in Seq(Tickets)
      BY DEF WorkInv, TypeOK
    <3> QED
      BY <1>1, <3>1
  <2>2. t.plate \in Plates /\ t.road \in Roads
    BY <2>1 DEF Tickets
  <2>3. log \in Seq(Positions)
    BY <1>1, <2>2 DEF WorkInv, TypeOK
  <2>4. DOMAIN log = 1..Len(log)
    BY <2>3
  <2> QED
    BY <1>1, <2>4 DEF Logged, InLog
<1> DEFINE Body(i) ==
             LET t == issued[i]
                 log == DatabaseLogs[t.plate][t.road]
                 dt == t.pos2.timestamp - t.pos1.timestamp
             IN  /\ {t.pos1, t.pos2} \subseteq {log[k] : k \in DOMAIN log}
                 /\ \E c \in Cameras :
                      /\ c.road = t.road
                      /\ 2 * Miles(t.pos1, t.pos2) * 3600 >= (2 * c.limit + 1) * dt
<1>2. ASSUME NEW i \in DOMAIN issued PROVE Body(i) <=> IsTrue(issued[i])
  <2> DEFINE t == issued[i]
             log == DatabaseLogs[t.plate][t.road]
             fast == \E c \in Cameras :
                       /\ c.road = t.road
                       /\ 2 * Miles(t.pos1, t.pos2) * 3600 >=
                            (2 * c.limit + 1) * (t.pos2.timestamp - t.pos1.timestamp)
  <2>1. {log[k] : k \in DOMAIN log} = Logged(t.plate, t.road)
    BY <1>1
  <2>2. Body(i) <=> {t.pos1, t.pos2} \subseteq {log[k] : k \in DOMAIN log} /\ fast
    BY Zenon
  <2>3. IsTrue(issued[i]) <=> {t.pos1, t.pos2} \subseteq Logged(t.plate, t.road) /\ fast
    BY Zenon DEF IsTrue
  <2> HIDE DEF fast, log, t, Body
  <2> QED
    BY <2>1, <2>2, <2>3, Zenon
<1>3. TicketsAreTrue <=> \A i \in DOMAIN issued : Body(i)
  BY Zenon DEF TicketsAreTrue
<1> HIDE DEF Body
<1> QED
  BY <1>2, <1>3, Zenon

\* The ticket that a session asks for is true.
LEMMA CandidateIsTrue ==
  ASSUME WorkInv, NEW s \in Sessions, pc[s] = "ticket", NEW t, t = Candidate(s, at[s])
  PROVE  IsTrue(t)
<1> DEFINE k == at[s]
           c == camera[s]
           dm == Abs(t.pos2.mile - t.pos1.mile)
           dt == t.pos2.timestamp - t.pos1.timestamp
<1>1. k \in 1..Len(Log(s)) /\ NeedsTicket(s, k) /\ c \in Cameras
  BY DEF WorkInv, AtWork, Works
<1>2. /\ t.plate = cur[s].plate /\ t.road = c.road
      /\ t.pos1.timestamp <= t.pos2.timestamp
      /\ \/ t.pos1 = cur[s].pos /\ t.pos2 = Log(s)[k]
         \/ t.pos1 = Log(s)[k] /\ t.pos2 = cur[s].pos
      /\ cur[s].pos \in Positions /\ Log(s)[k] \in Positions
  BY <1>1, CandidateTyped
<1>3. {t.pos1, t.pos2} \subseteq Logged(t.plate, t.road)
  <2>1. cur[s].pos \in Logged(t.plate, t.road)
    BY <1>2 DEF WorkInv, AtWork, Works
  <2>2. Log(s)[k] \in Logged(t.plate, t.road)
    BY <1>1, <1>2 DEF Logged, InLog, Log
  <2> QED
    BY <1>2, <2>1, <2>2
<1>4. /\ t.pos1.mile \in Nat /\ t.pos2.mile \in Nat
      /\ t.pos1.timestamp \in Nat /\ t.pos2.timestamp \in Nat /\ c.limit \in Nat
  BY <1>1, <1>2, InputsTyped
<1>5. dt \in Nat /\ dm \in Nat /\ dm = Miles(t.pos1, t.pos2)
  BY <1>2, <1>4 DEF Abs, Miles
<1>6. OverLimit(t.pos1, t.pos2, c.limit)
  BY <1>1 DEF NeedsTicket
<1>7. ~(\/ SpeedRounded(dm, dt) < c.limit
        \/ SpeedRounded(dm, dt) = c.limit /\ PrecisionBelowHalf(dm, dt))
  BY <1>6, Zenon DEF OverLimit
<1> HIDE DEF dm, dt, c
<1>8. 2 * dm * 3600 >= (2 * c.limit + 1) * dt
  BY <1>4, <1>5, <1>7, OverLimitIsTooFast
<1>9. 2 * Miles(t.pos1, t.pos2) * 3600 >= (2 * c.limit + 1) * dt
  BY <1>5, <1>8, Zenon
<1>10. /\ c \in Cameras /\ c.road = t.road
       /\ 2 * Miles(t.pos1, t.pos2) * 3600 >=
            (2 * c.limit + 1) * (t.pos2.timestamp - t.pos1.timestamp)
  BY <1>1, <1>2, <1>9 DEF dt
<1> QED
  BY <1>3, <1>10 DEF IsTrue

\* A ticket stays true, for no position leaves a log.
LEMMA TrueStays ==
  ASSUME WorkInv, [Next]_vars, NEW t \in Tickets, IsTrue(t)
  PROVE  IsTrue(t)'
<1>1. t.plate \in Plates /\ t.road \in Roads
  BY DEF Tickets
<1>2. Logged(t.plate, t.road) \subseteq Logged(t.plate, t.road)'
  BY <1>1, LogsGrow
<1>3. {t.pos1, t.pos2} \subseteq Logged(t.plate, t.road)'
  BY <1>2 DEF IsTrue
<1> QED
  BY <1>3 DEF IsTrue

\* Each step keeps the tickets true, and to one on a day.
LEMMA TicketNext == WorkInv /\ WorkInv' /\ TicketInv /\ [Next]_vars => TicketInv'
<1> SUFFICES ASSUME WorkInv, WorkInv', TicketInv, [Next]_vars PROVE TicketInv'
  OBVIOUS
<1>1. /\ issued \in Seq(Tickets) /\ DOMAIN issued = 1..Len(issued)
      /\ \A i \in DOMAIN issued : issued[i] \in Tickets /\ issued[i].plate \in Plates
  <2>1. issued \in Seq(Tickets)
    BY DEF WorkInv, TypeOK
  <2>2. \A t \in Tickets : t.plate \in Plates
    BY DEF Tickets
  <2> QED
    BY <2>1, <2>2
<1>2. \A i \in DOMAIN issued : IsTrue(issued[i])
  BY TicketsAreTrueMeans DEF TicketInv
<1>3. \A i \in DOMAIN issued : \A t : t = issued[i] => IsTrue(t)'
  BY <1>1, <1>2, TrueStays
<1>4. CASE \A s \in Sessions : ~MarkDays(s)
  <2>1. UNCHANGED <<issued, TicketSent>>
    BY <1>4, OthersIssueNothing
  <2>2. IssuedIsMarked' /\ OneTicketPerDay'
    BY <2>1 DEF TicketInv, IssuedIsMarked, OneTicketPerDay
  <2>3. (\A i \in DOMAIN issued : IsTrue(issued[i]))'
    BY <1>3, <2>1
  <2>4. TicketsAreTrue'
    BY <2>3, TicketsAreTrueMeans, PTL
  <2> QED
    BY <2>2, <2>4 DEF TicketInv
<1>5. ASSUME NEW s \in Sessions, MarkDays(s) PROVE TicketInv'
  <2> DEFINE t == Candidate(s, at[s])
  <2>1. /\ pc[s] = "ticket" /\ t \in Tickets /\ t.plate \in Plates
        /\ TicketSent \in [Plates -> SUBSET Nat]
        /\ \/ UNCHANGED <<TicketSent, issued>>
           \/ /\ Days(t) \cap TicketSent[t.plate] = {}
              /\ TicketSent' = [TicketSent EXCEPT ![t.plate] = @ \cup Days(t)]
              /\ issued' = Append(issued, t)
    BY <1>5, MarkStep DEF Tickets
  <2>2. IsTrue(t)
    BY <2>1, CandidateIsTrue
  <2>3. ASSUME NEW x, x = t PROVE IsTrue(x)'
    BY <2>1, <2>2, <2>3, TrueStays
  <2> HIDE DEF t
  <2>4. CASE UNCHANGED <<TicketSent, issued>>
    <3>1. IssuedIsMarked' /\ OneTicketPerDay'
      BY <2>4 DEF TicketInv, IssuedIsMarked, OneTicketPerDay
    <3>2. (\A i \in DOMAIN issued : IsTrue(issued[i]))'
      BY <1>3, <2>4
    <3>3. TicketsAreTrue'
      BY <3>2, TicketsAreTrueMeans, PTL
    <3> QED
      BY <3>1, <3>3 DEF TicketInv
  <2>5. CASE /\ Days(t) \cap TicketSent[t.plate] = {}
             /\ TicketSent' = [TicketSent EXCEPT ![t.plate] = @ \cup Days(t)]
             /\ issued' = Append(issued, t)
    <3> DEFINE n == Len(issued)
    <3>1. /\ DOMAIN issued' = 1..(n + 1) /\ issued'[n + 1] = t
          /\ \A i \in 1..n : issued'[i] = issued[i] /\ i \in 1..(n + 1)
          /\ \A i \in 1..(n + 1) : i \in 1..n \/ i = n + 1
      <4>1. issued' = Append(issued, t) /\ issued \in Seq(Tickets) /\ t \in Tickets
        BY <1>1, <2>1, <2>5
      <4> QED
        BY <4>1, Appended
    <3>2. DOMAIN issued = 1..n /\ n \in Nat
      BY <1>1
    <3> HIDE DEF n
    <3>3. \A p \in Plates : /\ TicketSent[p] \subseteq TicketSent'[p]
                            /\ p = t.plate => Days(t) \subseteq TicketSent'[p]
      BY <2>1, <2>5
    <3>4. \A i \in 1..n : /\ issued[i].plate \in Plates
                          /\ Days(issued[i]) \subseteq TicketSent[issued[i].plate]
      BY <1>1, <3>2 DEF TicketInv, IssuedIsMarked
    <3>5. ASSUME NEW i \in DOMAIN issued'
          PROVE  Days(issued'[i]) \subseteq TicketSent'[issued'[i].plate]
      <4>1. CASE i \in 1..n
        BY <3>1, <3>3, <3>4, <4>1
      <4>2. CASE i = n + 1
        BY <2>1, <3>1, <3>3, <4>2
      <4> QED
        BY <3>1, <4>1, <4>2
    <3>6. IssuedIsMarked'
      BY <3>5 DEF IssuedIsMarked, Days
    <3>7. ASSUME NEW i \in 1..n, issued[i].plate = t.plate
          PROVE  Days(issued[i]) \cap Days(t) = {}
      BY <2>5, <3>4, <3>7
    <3>8. ASSUME NEW i \in DOMAIN issued', NEW j \in DOMAIN issued', i # j,
                 issued'[i].plate = issued'[j].plate
          PROVE  Days(issued'[i]) \cap Days(issued'[j]) = {}
      <4>1. CASE i \in 1..n /\ j \in 1..n
        BY <3>1, <3>2, <3>8, <4>1 DEF TicketInv, OneTicketPerDay
      <4>2. CASE i \in 1..n /\ j = n + 1
        BY <3>1, <3>7, <3>8, <4>2
      <4>3. CASE i = n + 1 /\ j \in 1..n
        BY <3>1, <3>7, <3>8, <4>3
      <4> QED
        BY <3>1, <3>8, <4>1, <4>2, <4>3
    <3>9. OneTicketPerDay'
      BY <3>8 DEF OneTicketPerDay, Days
    <3>10. (\A i \in DOMAIN issued : IsTrue(issued[i]))'
      BY <1>3, <2>3, <3>1, <3>2
    <3>11. TicketsAreTrue'
      BY <3>10, TicketsAreTrueMeans, PTL
    <3> QED
      BY <3>6, <3>9, <3>11 DEF TicketInv
  <2> QED
    BY <2>1, <2>4, <2>5
<1> QED
  BY <1>4, <1>5

\* The first state has no tickets.
LEMMA TicketInit == Init => TicketInv
<1> SUFFICES ASSUME Init PROVE TicketInv
  OBVIOUS
<1>1. issued = <<>>
  BY DEF Init
<1>2. DOMAIN issued = {}
  BY <1>1
<1> QED
  BY <1>2 DEF TicketInv, IssuedIsMarked, OneTicketPerDay, TicketsAreTrue

\* Tickets are true and marked, and there is one on a day.
THEOREM TicketInvariant == Spec => []TicketInv
<1>1. Init => TicketInv
  BY TicketInit
<1>2. WorkInv /\ WorkInv' /\ TicketInv /\ [Next]_vars => TicketInv'
  BY TicketNext
<1> QED
  BY <1>1, <1>2, WorkInvariant, PTL DEF Spec

\* No plate gets two tickets that share a day: SendTicket checks and marks the
\* days under one lock, and no camera sees another's marks half done.
THEOREM OneADay == Spec => []OneTicketPerDay
<1>1. TicketInv => OneTicketPerDay
  BY DEF TicketInv
<1> QED
  BY <1>1, TicketInvariant, PTL

\* No driver is fined who was not too fast: the speed of an issued ticket is
\* half a mile per hour above the limit of a camera of the road.
THEOREM TicketsTrue == Spec => []TicketsAreTrue
<1>1. TicketInv => TicketsAreTrue
  BY DEF TicketInv
<1> QED
  BY <1>1, TicketInvariant, PTL

----------------------------------------------------------------------------
(* No ticket is missed *)

\* A pair that is too fast needs a ticket for every camera of the road, and the
\* ticket goes from the first to the second.
LEMMA TooFastNeedsTicket ==
  ASSUME NEW a \in Positions, NEW b \in Positions, NEW c \in Cameras,
         TooFast(c.road, a, b)
  PROVE  /\ a # b /\ a.timestamp < b.timestamp
         /\ OverLimit(a, b, c.limit)
<1> DEFINE dm == Abs(b.mile - a.mile)
           dt == b.timestamp - a.timestamp
<1>1. /\ a.mile \in Nat /\ b.mile \in Nat
      /\ a.timestamp \in Nat /\ b.timestamp \in Nat /\ c.limit \in Nat
  BY InputsTyped
<1>2. /\ dt > 0 /\ Miles(a, b) * 3600 < 65536 * dt
      /\ 2 * Miles(a, b) * 3600 >= (2 * c.limit + 1) * dt
  BY DEF TooFast
<1>3. dt \in Nat /\ dm \in Nat /\ Miles(a, b) = dm
  BY <1>1, <1>2 DEF Abs, Miles
<1>4. a # b /\ a.timestamp < b.timestamp
  BY <1>1, <1>2
<1> HIDE DEF dm, dt
<1>5. ~(\/ SpeedRounded(dm, dt) < c.limit
        \/ SpeedRounded(dm, dt) = c.limit /\ PrecisionBelowHalf(dm, dt))
  BY <1>1, <1>2, <1>3, TooFastIsOverLimit
<1>6. OverLimit(a, b, c.limit)
  BY <1>5, Zenon DEF OverLimit, dm, dt
<1> QED
  BY <1>4, <1>6

\* The scan asks for a ticket at each position that is too fast with its own.
LEMMA ScanAsks ==
  ASSUME WorkInv, NEW s \in Sessions, pc[s] # "read", NEW k \in 1..Len(Log(s)),
         NEW a \in Positions, NEW b \in Positions, TooFast(camera[s].road, a, b),
         (cur[s].pos = a /\ Log(s)[k] = b) \/ (cur[s].pos = b /\ Log(s)[k] = a)
  PROVE  /\ NeedsTicket(s, k)
         /\ Candidate(s, k) = TicketFor(cur[s].plate, camera[s].road, a, b)
<1>1. camera[s] \in Cameras
  BY DEF WorkInv, AtWork, Works
<1>2. a # b /\ a.timestamp < b.timestamp /\ OverLimit(a, b, camera[s].limit)
  BY <1>1, TooFastNeedsTicket
<1>3. a.timestamp \in Nat /\ b.timestamp \in Nat
  BY InputsTyped
<1>4. /\ Candidate(s, k) = TicketFor(cur[s].plate, camera[s].road, a, b)
      /\ Candidate(s, k).pos1 = a /\ Candidate(s, k).pos2 = b
  BY <1>2, <1>3 DEF Candidate, TicketFor
<1> QED
  BY <1>2, <1>4 DEF NeedsTicket

\* What is logged are positions.
LogsTyped == \A p \in Plates, r \in Roads : Logged(p, r) \subseteq Positions

\* It follows from the types of the logs.
LEMMA LoggedTyped == WorkInv => LogsTyped
<1> SUFFICES ASSUME WorkInv, NEW p \in Plates, NEW r \in Roads
             PROVE  Logged(p, r) \subseteq Positions
  BY DEF LogsTyped
<1>1. DatabaseLogs[p][r] \in Seq(Positions)
  BY DEF WorkInv, TypeOK
<1> QED
  BY <1>1 DEF Logged, InLog

\* No mark is removed.
LEMMA MarksGrow ==
  ASSUME WorkInv, [Next]_vars, NEW p \in Plates
  PROVE  TicketSent[p] \subseteq TicketSent'[p]
<1>1. ASSUME NEW s \in Sessions, MarkDays(s) PROVE TicketSent[p] \subseteq TicketSent'[p]
  <2>1. PICK t : t = Candidate(s, at[s])
    OBVIOUS
  <2>2. /\ TicketSent \in [Plates -> SUBSET Nat]
        /\ \/ UNCHANGED TicketSent
           \/ TicketSent' = [TicketSent EXCEPT ![t.plate] = @ \cup Days(t)]
    BY <1>1, <2>1, MarkStep
  <2> QED
    BY <2>2
<1> QED
  BY <1>1, OthersIssueNothing

\* A step that leaves a session and its log alone leaves it waiting.
LEMMA AwaitsStays ==
  ASSUME NEW u \in Sessions, NEW p, NEW r, NEW a, NEW b, Awaits(u, p, r, a, b),
         camera'[u] = camera[u], pc'[u] = pc[u], cur'[u] = cur[u], at'[u] = at[u],
         DatabaseLogs' = DatabaseLogs
  PROVE  Awaits(u, p, r, a, b)'
<1>1. Log(u)' = Log(u)
  BY DEF Log
<1> QED
  BY <1>1 DEF Awaits

\* A session that has just inserted its position waits for all pairs with it.
FreshAwaits ==
  \A u \in Sessions, p \in Plates, r \in Roads, a, b \in Positions :
    (/\ pc[u] = "inserted" /\ at[u] = 0 /\ cur[u].plate = p /\ camera[u].road = r
     /\ a \in Logged(p, r) /\ b \in Logged(p, r) /\ cur[u].pos \in {a, b})
    => Awaits(u, p, r, a, b)

\* Its scan has the whole log before it.
LEMMA InsertedAwaits == FreshAwaits
<1> SUFFICES ASSUME NEW u \in Sessions, NEW p \in Plates, NEW r \in Roads,
                    NEW a \in Positions, NEW b \in Positions,
                    pc[u] = "inserted", at[u] = 0, cur[u].plate = p, camera[u].road = r,
                    a \in Logged(p, r), b \in Logged(p, r), cur[u].pos \in {a, b}
             PROVE  Awaits(u, p, r, a, b)
  BY DEF FreshAwaits
<1>1. Logged(p, r) = {Log(u)[k] : k \in 1..Len(Log(u))}
  BY DEF Logged, InLog, Log
<1>2. ASSUME NEW x \in Logged(p, r)
      PROVE  \E k \in 1..Len(Log(u)) : k > at[u] /\ Log(u)[k] = x
  BY <1>1
<1>3. CASE cur[u].pos = a
  BY <1>2, <1>3 DEF Awaits
<1>4. CASE cur[u].pos = b
  BY <1>2, <1>4 DEF Awaits
<1> QED
  BY <1>3, <1>4

\* The step of a scan keeps a session waiting or gives the pair its ticket.
LEMMA ScanCovers ==
  ASSUME WorkInv, [Next]_vars, NEW s \in Sessions, Scan(s) \/ MarkDays(s) \/ Send(s),
         NEW p \in Plates, NEW r \in Roads, NEW a \in Positions, NEW b \in Positions,
         TooFast(r, a, b), Awaits(s, p, r, a, b)
  PROVE  Ticketed(p, r, a, b)' \/ Awaits(s, p, r, a, b)'
<1>1. PICK k \in 1..Len(Log(s)) :
        /\ k > at[s] \/ (pc[s] = "ticket" /\ k = at[s])
        /\ \/ cur[s].pos = a /\ Log(s)[k] = b
           \/ cur[s].pos = b /\ Log(s)[k] = a
  BY DEF Awaits
<1>2. pc[s] # "read" /\ cur[s].plate = p /\ camera[s].road = r
  BY DEF Awaits
<1>3. NeedsTicket(s, k) /\ Candidate(s, k) = TicketFor(p, r, a, b)
  BY <1>1, <1>2, ScanAsks
<1>4. at[s] \in Nat /\ Len(Log(s)) \in Nat
  BY <1>2, CandidateTyped DEF WorkInv, TypeOK
<1>5. CASE Scan(s)
  <2>1. k \in at[s] + 1..Len(Log(s))
    BY <1>1, <1>4, <1>5 DEF Scan
  <2>2. /\ pc'[s] = "ticket" /\ cur'[s] = cur[s] /\ at'[s] \in Nat /\ at'[s] <= k
        /\ UNCHANGED <<camera, DatabaseLogs>>
    BY <1>3, <1>4, <1>5, <2>1, ScanStops
  <2>3. Log(s)' = Log(s)
    BY <2>2 DEF Log
  <2>4. k > at'[s] \/ k = at'[s]
    BY <2>2
  <2> QED
    BY <1>1, <1>2, <2>2, <2>3, <2>4 DEF Awaits
<1>6. CASE Send(s)
  <2>1. /\ pc[s] = "send" /\ pc'[s] = "scan" /\ UNCHANGED <<cur, at, camera, DatabaseLogs>>
    BY <1>6 DEF Send, sessVars, WorkInv, TypeOK
  <2>2. Log(s)' = Log(s)
    BY <2>1 DEF Log
  <2> QED
    BY <1>1, <1>2, <2>1, <2>2 DEF Awaits
<1>7. CASE MarkDays(s)
  <2>1. PICK t : t = Candidate(s, at[s])
    OBVIOUS
  <2>2. /\ UNCHANGED <<cur, at, camera, DatabaseLogs>> /\ pc'[s] \in {"scan", "send"}
    BY <1>7, MarkStep DEF WorkInv, TypeOK
  <2>3. Log(s)' = Log(s)
    BY <2>2 DEF Log
  <2>4. CASE k > at[s]
    BY <1>1, <1>2, <2>2, <2>3, <2>4 DEF Awaits
  <2>5. CASE k = at[s]
    <3>1. t = TicketFor(p, r, a, b) /\ t.plate = p
      BY <1>2, <1>3, <1>7, <2>1, <2>5, MarkStep
    <3>2. Days(t) \cap TicketSent'[p] # {}
      <4>1. /\ Days(t) # {} /\ TicketSent \in [Plates -> SUBSET Nat]
            /\ \/ Days(t) \cap TicketSent[p] # {} /\ UNCHANGED TicketSent
               \/ TicketSent' = [TicketSent EXCEPT ![p] = @ \cup Days(t)]
        BY <1>7, <2>1, <3>1, MarkStep
      <4> QED
        BY <4>1
    <3> QED
      BY <3>1, <3>2 DEF Ticketed
  <2> QED
    BY <1>1, <2>4, <2>5
<1> QED
  BY <1>5, <1>6, <1>7

\* Each step keeps the pairs covered.
LEMMA CoveredNext == WorkInv /\ WorkInv' /\ Covered /\ [Next]_vars => Covered'
<1> SUFFICES ASSUME WorkInv, WorkInv', Covered, [Next]_vars,
                    NEW p \in Plates, NEW r \in Roads,
                    NEW a \in Logged(p, r)', NEW b \in Logged(p, r)', TooFast(r, a, b)
             PROVE  Ticketed(p, r, a, b)' \/ \E s \in Sessions : Awaits(s, p, r, a, b)'
  BY DEF Covered
<1>1. /\ a \in Positions /\ b \in Positions
  <2>1. LogsTyped'
    BY LoggedTyped, PTL
  <2> QED
    BY <2>1 DEF LogsTyped
<1>2. Ticketed(p, r, a, b) => Ticketed(p, r, a, b)'
  <2>1. TicketSent[p] \subseteq TicketSent'[p]
    BY MarksGrow
  <2>2. PICK D : D = Days(TicketFor(p, r, a, b))
    OBVIOUS
  <2> QED
    BY <2>1, <2>2 DEF Ticketed
<1>3. a # b
  <2>1. a.timestamp \in Nat /\ b.timestamp \in Nat /\ b.timestamp - a.timestamp > 0
    BY <1>1, InputsTyped DEF TooFast
  <2> QED
    BY <2>1
<1>4. FreshAwaits'
  BY InsertedAwaits, PTL
<1>5. ASSUME NEW u \in Sessions, pc'[u] = "inserted", at'[u] = 0, cur'[u].plate = p,
             camera'[u].road = r, cur'[u].pos = a \/ cur'[u].pos = b
      PROVE  Awaits(u, p, r, a, b)'
  BY <1>1, <1>4, <1>5 DEF FreshAwaits
<1>6. ASSUME NEW s \in Sessions, NEW m \in Peers[s].messages,
             Insert(s, m.plate, m.timestamp)
      PROVE  Ticketed(p, r, a, b)' \/ \E u \in Sessions : Awaits(u, p, r, a, b)'
  <2>1. /\ pc[s] = "read" /\ \A u \in Sessions : pc[u] \in {"read", "inserted"}
        /\ UNCHANGED camera
        /\ pc'[s] = "inserted" /\ at'[s] = 0 /\ cur'[s].plate = m.plate
        /\ \A u \in Sessions \ {s} : pc'[u] = pc[u] /\ at'[u] = at[u] /\ cur'[u] = cur[u]
        /\ Logged(p, r)' = IF p = m.plate /\ r = camera[s].road
                           THEN Logged(p, r) \cup {cur'[s].pos} ELSE Logged(p, r)
    <3>1. /\ pc[s] = "read" /\ \A u \in Sessions : pc[u] \in {"read", "inserted"}
          /\ UNCHANGED camera /\ cur'[s].plate = m.plate
          /\ pc' = [pc EXCEPT ![s] = "inserted"] /\ at' = [at EXCEPT ![s] = 0]
          /\ \A u \in Sessions \ {s} : cur'[u] = cur[u]
          /\ Logged(p, r)' = IF p = m.plate /\ r = camera[s].road
                             THEN Logged(p, r) \cup {cur'[s].pos} ELSE Logged(p, r)
      BY <1>6, InsertWork
    <3>2. DOMAIN pc = Sessions /\ DOMAIN at = Sessions
      BY DEF WorkInv, TypeOK
    <3> QED
      BY <3>1, <3>2
  <2>2. CASE a \in Logged(p, r) /\ b \in Logged(p, r)
    <3>1. CASE Ticketed(p, r, a, b)
      BY <1>2, <3>1
    <3>2. CASE \E u \in Sessions : Awaits(u, p, r, a, b)
      <4>1. PICK u \in Sessions : Awaits(u, p, r, a, b)
        BY <3>2
      <4>2. /\ u # s /\ pc[u] = "inserted" /\ cur[u].plate = p /\ camera[u].road = r
            /\ cur[u].pos = a \/ cur[u].pos = b
        BY <2>1, <4>1 DEF Awaits
      <4>3. at[u] = 0
        BY <4>2 DEF WorkInv, AtWork, Works
      <4>4. /\ pc'[u] = "inserted" /\ at'[u] = 0 /\ cur'[u].plate = p /\ camera'[u].road = r
            /\ cur'[u].pos = a \/ cur'[u].pos = b
        BY <2>1, <4>2, <4>3
      <4>5. Awaits(u, p, r, a, b)'
        BY <1>5, <4>4
      <4> QED
        BY <4>5
    <3> QED
      BY <2>2, <3>1, <3>2 DEF Covered
  <2>3. CASE ~(a \in Logged(p, r) /\ b \in Logged(p, r))
    <3>1. /\ p = m.plate /\ r = camera[s].road
          /\ cur'[s].pos = a \/ cur'[s].pos = b
      BY <2>1, <2>3
    <3>2. /\ pc'[s] = "inserted" /\ at'[s] = 0 /\ cur'[s].plate = p /\ camera'[s].road = r
      BY <2>1, <3>1
    <3>3. Awaits(s, p, r, a, b)'
      BY <1>5, <3>1, <3>2
    <3> QED
      BY <3>3
  <2> QED
    BY <2>2, <2>3
<1>7. CASE DatabaseLogs' = DatabaseLogs
  <2>1. a \in Logged(p, r) /\ b \in Logged(p, r)
    BY <1>7 DEF Logged
  <2>2. CASE Ticketed(p, r, a, b)
    BY <1>2, <2>2
  <2>3. CASE \E u \in Sessions : Awaits(u, p, r, a, b)
    <3>1. PICK u \in Sessions : Awaits(u, p, r, a, b)
      BY <2>3
    <3>2. CASE Scan(u) \/ MarkDays(u) \/ Send(u)
      BY <1>1, <3>1, <3>2, ScanCovers
    <3>3. CASE ~(Scan(u) \/ MarkDays(u) \/ Send(u))
      <4>1. pc[u] # "read"
        BY <3>1 DEF Awaits
      <4>2. camera'[u] = camera[u] /\ pc'[u] = pc[u] /\ cur'[u] = cur[u] /\ at'[u] = at[u]
        BY <1>7, <3>3, <4>1, OthersWork
      <4>3. Awaits(u, p, r, a, b)'
        BY <1>7, <3>1, <4>2, AwaitsStays
      <4> QED
        BY <4>3
    <3> QED
      BY <3>2, <3>3
  <2> QED
    BY <2>1, <2>2, <2>3 DEF Covered
<1> QED
  BY <1>6, <1>7, LogsChange

\* The first state has no positions.
LEMMA CoveredInit == Init => Covered
<1> SUFFICES ASSUME Init, NEW p \in Plates, NEW r \in Roads PROVE Logged(p, r) = {}
  BY DEF Covered
<1>1. DatabaseLogs[p][r] = <<>>
  BY DEF Init
<1>2. Len(DatabaseLogs[p][r]) = 0
  BY <1>1
<1> QED
  BY <1>2 DEF Logged, InLog

\* Each pair that is too fast has a ticket or a session that will see to it.
THEOREM CoveredInvariant == Spec => []Covered
<1>1. Init => Covered
  BY CoveredInit
<1>2. WorkInv /\ WorkInv' /\ Covered /\ [Next]_vars => Covered'
  BY CoveredNext
<1> QED
  BY <1>1, <1>2, WorkInvariant, PTL DEF Spec

\* Once the plate messages for a plate are done, each pair that is too fast has
\* a ticket on one of its days: a camera inserts its position before it scans,
\* so of two cameras at the same time the later one sees the position of the
\* other.
THEOREM NoneMissed == Spec => []NoTicketMissed
<1>1. WorkInv /\ Covered => NoTicketMissed
  <2> SUFFICES ASSUME WorkInv, Covered, NEW p \in Plates,
                      \A s \in Sessions : pc[s] # "read" => cur[s].plate # p,
                      NEW r \in Roads, NEW i \in DOMAIN DatabaseLogs[p][r],
                      NEW j \in DOMAIN DatabaseLogs[p][r],
                      TooFast(r, DatabaseLogs[p][r][i], DatabaseLogs[p][r][j])
               PROVE  Ticketed(p, r, DatabaseLogs[p][r][i], DatabaseLogs[p][r][j])
    BY DEF NoTicketMissed, Ticketed
  <2>1. DatabaseLogs[p][r] \in Seq(Positions)
    BY DEF WorkInv, TypeOK
  <2>2. DOMAIN DatabaseLogs[p][r] = 1..Len(DatabaseLogs[p][r])
    BY <2>1
  <2>3. DatabaseLogs[p][r][i] \in Logged(p, r) /\ DatabaseLogs[p][r][j] \in Logged(p, r)
    BY <2>2 DEF Logged, InLog
  <2>4. \A s \in Sessions, a, b \in Logged(p, r) : ~Awaits(s, p, r, a, b)
    BY DEF Awaits
  <2> QED
    BY <2>3, <2>4 DEF Covered
<1> QED
  BY <1>1, WorkInvariant, CoveredInvariant, PTL

----------------------------------------------------------------------------
(* No ticket is dropped or doubled on its way *)

\* TicketsConserved, with its places one by one.
LEMMA ConservedMeans == Conserved <=> TicketsConserved
<1> DEFINE places == <<Sending, InChans, Holding, delivered, lost>>
           Disjoint == \A j, k \in 1..5 : j # k => places[j] \cap places[k] = {}
           Roadwise == \A r \in Roads : \A t \in InChan(r) : t.road = r
<1>1. /\ places[1] = Sending /\ places[2] = InChans /\ places[3] = Holding
      /\ places[4] = delivered /\ places[5] = lost
  OBVIOUS
<1>2. TicketsConserved <=> Issued = UNION {places[k] : k \in 1..5} /\ Disjoint /\ Roadwise
  BY Zenon DEF TicketsConserved, Issued, InChans
<1> HIDE DEF places
<1>3. UNION {places[k] : k \in 1..5} = Sending \cup InChans \cup Holding \cup delivered \cup lost
  BY <1>1
<1>4. Disjoint <=>
        /\ Sending \cap InChans = {} /\ Sending \cap Holding = {} /\ Sending \cap delivered = {}
        /\ Sending \cap lost = {} /\ InChans \cap Holding = {} /\ InChans \cap delivered = {}
        /\ InChans \cap lost = {} /\ Holding \cap delivered = {} /\ Holding \cap lost = {}
        /\ delivered \cap lost = {}
  <2>1. \A k \in 1..5 : k = 1 \/ k = 2 \/ k = 3 \/ k = 4 \/ k = 5
    OBVIOUS
  <2>2. 1 \in 1..5 /\ 2 \in 1..5 /\ 3 \in 1..5 /\ 4 \in 1..5 /\ 5 \in 1..5
    OBVIOUS
  <2> QED
    BY <1>1, <2>1, <2>2
<1> HIDE DEF Disjoint, Roadwise
<1> QED
  BY <1>2, <1>3, <1>4 DEF Conserved, Roadwise

\* What is about to be sent depends on the senders and the logs.
LEMMA SendingStays ==
  ASSUME DatabaseLogs' = DatabaseLogs,
         \A u \in Sessions : pc'[u] = "send" <=> pc[u] = "send",
         \A u \in Sessions : pc[u] = "send" =>
           camera'[u] = camera[u] /\ cur'[u] = cur[u] /\ at'[u] = at[u]
  PROVE  Sending' = Sending
<1>1. ASSUME NEW u \in Sessions, pc[u] = "send"
      PROVE  Candidate(u, at[u])' = Candidate(u, at[u])
  BY <1>1 DEF Candidate, TicketFor, Log
<1> QED
  BY <1>1 DEF Sending

\* The steps that do not move a ticket.
Still == UNCHANGED <<issued, DispatcherChan, held, delivered, lost, Sending>>

\* All but five actions do not.
LEMMA StillNext ==
  ASSUME WorkInv, [Next]_vars,
         \A s \in Sessions : ~MarkDays(s) /\ ~Send(s),
         \A s \in Sessions, r \in Roads :
           ~ListenerTake(s, r) /\ ~ListenerWrites(s, r) /\ ~ListenerFails(s, r)
  PROVE  Still
<1> DEFINE Kept == UNCHANGED <<issued, DispatcherChan, held, delivered, lost>>
<1> USE DEF sessVars, scanVars, ticketVars, outVars, history
<1>1. ASSUME UNCHANGED vars PROVE Still
  <2>1. Kept /\ UNCHANGED <<pc, camera, cur, at, DatabaseLogs>>
    BY <1>1 DEF vars
  <2>2. Sending' = Sending
    BY <2>1, SendingStays
  <2> QED
    BY <2>1, <2>2 DEF Still
<1>2. ASSUME NEW s \in Sessions, NEW r \in Roads, ListenerEnds(s, r) PROVE Still
  <2>1. Kept /\ UNCHANGED <<pc, camera, cur, at, DatabaseLogs>>
    BY <1>2 DEF ListenerEnds
  <2>2. Sending' = Sending
    BY <2>1, SendingStays
  <2> QED
    BY <2>1, <2>2 DEF Still
<1>3. ASSUME NEW s \in Sessions, ReadFails(s) \/ SessionGone(s) PROVE Still
  <2>1. Kept /\ UNCHANGED <<pc, camera, cur, at, DatabaseLogs>>
    BY <1>3 DEF ReadFails, SessionGone
  <2>2. Sending' = Sending
    BY <2>1, SendingStays
  <2> QED
    BY <2>1, <2>2 DEF Still
<1>4. ASSUME NEW s \in Sessions, NEW c, RegisterCamera(s, c) \/ RegisterDispatcher(s, c)
      PROVE  Still
  <2>1. /\ Kept /\ UNCHANGED <<pc, cur, at, DatabaseLogs>> /\ pc[s] = "read"
        /\ \A u \in Sessions \ {s} : camera'[u] = camera[u]
    BY <1>4 DEF RegisterCamera, RegisterDispatcher, Request, WorkInv, TypeOK
  <2>2. Sending' = Sending
    BY <2>1, SendingStays
  <2> QED
    BY <2>1, <2>2 DEF Still
<1>5. ASSUME NEW s \in Sessions, NEW m \in Peers[s].messages,
             Insert(s, m.plate, m.timestamp)
      PROVE  Still
  <2>1. Kept
    BY <1>5 DEF Insert
  <2>2. \A u \in Sessions : pc[u] # "send" /\ pc'[u] # "send"
    <3>1. /\ \A u \in Sessions : pc[u] \in {"read", "inserted"}
          /\ pc' = [pc EXCEPT ![s] = "inserted"]
      BY <1>5, InsertWork
    <3>2. DOMAIN pc = Sessions
      BY DEF WorkInv, TypeOK
    <3> QED
      BY <3>1, <3>2
  <2>3. Sending = {} /\ Sending' = {}
    BY <2>2 DEF Sending
  <2> QED
    BY <2>1, <2>3 DEF Still
<1>6. ASSUME NEW s \in Sessions, Scan(s) PROVE Still
  <2>1. Kept
    BY <1>6 DEF Scan
  <2>2. /\ UNCHANGED <<camera, DatabaseLogs>> /\ pc[s] # "send" /\ pc'[s] # "send"
        /\ \A u \in Sessions \ {s} : pc'[u] = pc[u] /\ cur'[u] = cur[u] /\ at'[u] = at[u]
    BY <1>6, ScanStops
  <2>3. Sending' = Sending
    BY <2>2, SendingStays
  <2> QED
    BY <2>1, <2>3 DEF Still
<1>7. ASSUME Stop PROVE Still
  <2>1. Kept /\ UNCHANGED <<pc, camera, cur, at, DatabaseLogs>>
    BY <1>7 DEF Stop
  <2>2. Sending' = Sending
    BY <2>1, SendingStays
  <2> QED
    BY <2>1, <2>2 DEF Still
<1> QED
  BY <1>1, <1>2, <1>3, <1>4, <1>5, <1>6, <1>7 DEF Next, Ticketing

\* A step that moves no ticket.
LEMMA StillTransit ==
  ASSUME TransitInv, Still
  PROVE  TransitInv'
<1>1. UNCHANGED <<issued, DispatcherChan, held, delivered, lost, Sending>>
  BY DEF Still
<1>2. /\ Issued' = Issued /\ InChans' = InChans /\ Holding' = Holding
      /\ \A r \in Roads : InChan(r)' = InChan(r)
  BY <1>1 DEF Issued, InChans, InChan, Holding
<1>3. Conserved'
  BY <1>1, <1>2 DEF TransitInv, Conserved
<1>4. NoneDoubled'
  BY <1>1 DEF TransitInv, NoneDoubled
<1> QED
  BY <1>3, <1>4 DEF TransitInv

\* A ticket is issued: it was in no place, and is about to be sent.
LEMMA MarkTransit ==
  ASSUME WorkInv, TicketInv, TransitInv, NEW s \in Sessions, MarkDays(s)
  PROVE  TransitInv'
<1>1. PICK t : t = Candidate(s, at[s])
  OBVIOUS
<1>2. /\ pc[s] = "ticket" /\ sentLock = {} /\ UNCHANGED <<DatabaseLogs, camera, cur, at>>
      /\ t \in Tickets /\ Days(t) # {} /\ issued \in Seq(Tickets)
      /\ \/ pc' = [pc EXCEPT ![s] = "scan"] /\ UNCHANGED <<TicketSent, issued>>
         \/ /\ Days(t) \cap TicketSent[t.plate] = {}
            /\ pc' = [pc EXCEPT ![s] = "send"] /\ issued' = Append(issued, t)
  BY <1>1, MarkStep
<1>3. UNCHANGED <<DispatcherChan, held, delivered, lost>> /\ DOMAIN pc = Sessions
  BY DEF MarkDays, outVars, history, WorkInv, TypeOK
<1>4. CASE pc' = [pc EXCEPT ![s] = "scan"] /\ UNCHANGED <<TicketSent, issued>>
  <2>1. \A u \in Sessions : pc'[u] = "send" <=> pc[u] = "send"
    BY <1>2, <1>3, <1>4
  <2>2. Sending' = Sending
    BY <1>2, <2>1, SendingStays
  <2>3. Still
    BY <1>3, <1>4, <2>2 DEF Still
  <2> QED
    BY <2>3, StillTransit
<1>5. CASE /\ Days(t) \cap TicketSent[t.plate] = {}
           /\ pc' = [pc EXCEPT ![s] = "send"] /\ issued' = Append(issued, t)
  <2>1. t \notin Issued
    BY <1>2, <1>5 DEF Issued, TicketInv, IssuedIsMarked
  <2>2. Issued' = Issued \cup {t}
    <3>1. /\ DOMAIN issued = 1..Len(issued) /\ DOMAIN issued' = 1..(Len(issued) + 1)
          /\ \A i \in 1..Len(issued) : issued'[i] = issued[i] /\ i \in 1..(Len(issued) + 1)
          /\ issued'[Len(issued) + 1] = t /\ Len(issued) + 1 \in 1..(Len(issued) + 1)
          /\ \A i \in 1..(Len(issued) + 1) : i \in 1..Len(issued) \/ i = Len(issued) + 1
      BY <1>2, <1>5, Appended
    <3> QED
      BY <3>1 DEF Issued
  <2>3. \A u \in Sessions : pc[u] # "send"
    BY <1>2 DEF WorkInv, SenderLocks
  <2>4. Sending = {}
    BY <2>3 DEF Sending
  <2>5. \A u \in Sessions : pc'[u] = "send" <=> u = s
    BY <1>3, <1>5, <2>3
  <2>6. Candidate(s, at[s])' = t
    BY <1>1, <1>2 DEF Candidate, TicketFor, Log
  <2>7. Sending' = {t}
    BY <2>5, <2>6 DEF Sending
  <2>8. /\ InChans' = InChans /\ Holding' = Holding
        /\ \A r \in Roads : InChan(r)' = InChan(r)
    BY <1>3 DEF InChans, InChan, Holding
  <2>9. Conserved'
    BY <1>3, <2>1, <2>2, <2>4, <2>7, <2>8 DEF TransitInv, Conserved
  <2>10. NoneDoubled'
    BY <1>3 DEF TransitInv, NoneDoubled
  <2> QED
    BY <2>9, <2>10 DEF TransitInv
<1> QED
  BY <1>2, <1>4, <1>5

\* A ticket is sent: it goes to the channel of its road.
LEMMA SendTransit ==
  ASSUME WorkInv, TransitInv, NEW s \in Sessions, Send(s)
  PROVE  TransitInv'
<1>1. PICK t : t = Candidate(s, at[s])
  OBVIOUS
<1>2. PICK r : r = camera[s].road
  OBVIOUS
<1>3. /\ pc[s] = "send" /\ pc' = [pc EXCEPT ![s] = "scan"] /\ DOMAIN pc = Sessions
      /\ DispatcherChan' = [DispatcherChan EXCEPT ![r] = Append(@, t)]
      /\ UNCHANGED <<issued, held, delivered, lost>>
  BY <1>1, <1>2 DEF Send, Enqueue, outVars, history, WorkInv, TypeOK
<1>4. t \in Tickets /\ t.road = r /\ r \in Roads
  <2>1. at[s] \in 1..Len(Log(s)) /\ pc[s] # "read"
    BY <1>3 DEF WorkInv, AtWork, Works
  <2> QED
    BY <1>1, <1>2, <2>1, CandidateTyped
<1>5. \A u \in Sessions : pc[u] = "send" <=> u = s
  <2>1. sentLock = {s} /\ \A u \in Sessions : pc[u] = "send" => sentLock = {u}
    BY <1>3 DEF WorkInv, SenderLocks
  <2>2. \A u \in Sessions : {u} = {s} => u = s
    BY Zenon
  <2> QED
    BY <1>3, <2>1, <2>2
<1>6. Sending = {t}
  BY <1>1, <1>5 DEF Sending
<1>7. \A u \in Sessions : pc'[u] # "send"
  BY <1>3, <1>5
<1>8. Sending' = {}
  BY <1>7 DEF Sending
<1>9. PICK c : c = DispatcherChan[r]
  OBVIOUS
<1>10. c \in Seq(Tickets) /\ DispatcherChan \in [Roads -> Seq(Tickets)]
  BY <1>4, <1>9 DEF WorkInv, TypeOK
<1>11. PICK d : d = Append(c, t)
  OBVIOUS
<1>12. /\ DOMAIN c = 1..Len(c) /\ DOMAIN d = 1..(Len(c) + 1) /\ Len(d) = Len(c) + 1
       /\ \A i \in 1..Len(c) : d[i] = c[i] /\ i \in 1..(Len(c) + 1)
       /\ d[Len(c) + 1] = t /\ Len(c) + 1 \in 1..(Len(c) + 1)
       /\ \A i \in 1..(Len(c) + 1) : i \in 1..Len(c) \/ i = Len(c) + 1
  BY <1>4, <1>10, <1>11, Appended
<1>13. /\ DispatcherChan'[r] = d
       /\ \A q \in Roads \ {r} : DispatcherChan'[q] = DispatcherChan[q]
  BY <1>3, <1>4, <1>9, <1>10, <1>11
<1>14. /\ InChan(r)' = InChan(r) \cup {t}
       /\ \A q \in Roads \ {r} : InChan(q)' = InChan(q)
  <2>1. {d[k] : k \in DOMAIN d} = {c[k] : k \in DOMAIN c} \cup {t}
    BY <1>12
  <2> QED
    BY <1>9, <1>13, <2>1 DEF InChan
<1>15. InChans' = InChans \cup {t}
  BY <1>4, <1>14 DEF InChans
<1>16. Issued' = Issued /\ Holding' = Holding
  BY <1>3 DEF Issued, Holding
<1>17. \A q \in Roads : \A x \in InChan(q)' : x.road = q
  BY <1>4, <1>14 DEF TransitInv, Conserved
<1>18. Conserved'
  BY <1>3, <1>6, <1>8, <1>15, <1>16, <1>17 DEF TransitInv, Conserved
<1>19. t \notin InChan(r)
  BY <1>4, <1>6 DEF TransitInv, Conserved, InChans
<1>20. ASSUME NEW q \in Roads, NEW j \in 1..Len(DispatcherChan'[q]),
              NEW k \in 1..Len(DispatcherChan'[q]), DispatcherChan'[q][j] = DispatcherChan'[q][k]
       PROVE  j = k
  <2>1. CASE q # r
    BY <1>13, <1>20, <2>1 DEF TransitInv, NoneDoubled
  <2>2. CASE q = r
    <3>1. \A i \in 1..Len(c) : c[i] # t
      BY <1>9, <1>12, <1>19 DEF InChan
    <3>2. \A i, l \in 1..Len(c) : c[i] = c[l] => i = l
      BY <1>4, <1>9 DEF TransitInv, NoneDoubled
    <3>3. j \in 1..(Len(c) + 1) /\ k \in 1..(Len(c) + 1) /\ d[j] = d[k]
      BY <1>12, <1>13, <1>20, <2>2
    <3>4. CASE j \in 1..Len(c) /\ k \in 1..Len(c)
      BY <1>12, <3>2, <3>3, <3>4
    <3>5. CASE j = Len(c) + 1 /\ k = Len(c) + 1
      BY <3>5
    <3>6. CASE (j \in 1..Len(c) /\ k = Len(c) + 1) \/ (k \in 1..Len(c) /\ j = Len(c) + 1)
      BY <1>12, <3>1, <3>3, <3>6
    <3> QED
      BY <1>12, <3>3, <3>4, <3>5, <3>6
  <2> QED
    BY <2>1, <2>2
<1>21. NoneDoubled'
  BY <1>3, <1>20 DEF TransitInv, NoneDoubled
<1> QED
  BY <1>18, <1>21 DEF TransitInv

\* A listener takes the first ticket of a channel.
LEMMA TakeTransit ==
  ASSUME WorkInv, TransitInv, NEW s \in Sessions, NEW r \in Roads, ListenerTake(s, r)
  PROVE  TransitInv'
<1>1. PICK c : c = DispatcherChan[r]
  OBVIOUS
<1>2. PICK h : h = Head(c)
  OBVIOUS
<1>3. PICK d : d = Tail(c)
  OBVIOUS
<1>4. c \in Seq(Tickets) /\ c # <<>> /\ DispatcherChan \in [Roads -> Seq(Tickets)]
  BY <1>1 DEF ListenerTake, WorkInv, TypeOK
<1>5. /\ listener[s][r] = "wait" /\ held' = [held EXCEPT ![s][r] = h]
      /\ DispatcherChan' = [DispatcherChan EXCEPT ![r] = d]
      /\ UNCHANGED <<pc, camera, cur, at, DatabaseLogs, issued, delivered, lost>>
  BY <1>1, <1>2, <1>3 DEF ListenerTake, sessVars, scanVars, history
<1>6. held \in [Sessions -> [Roads -> Tickets \cup {None}]]
  BY DEF WorkInv, TypeOK
<1>7. /\ Len(c) \in Nat /\ Len(c) > 0 /\ DOMAIN c = 1..Len(c) /\ c[1] = h /\ h \in Tickets
      /\ Len(d) = Len(c) - 1 /\ DOMAIN d = 1..(Len(c) - 1)
      /\ \A i \in 1..(Len(c) - 1) : d[i] = c[i + 1] /\ i + 1 \in 1..Len(c) /\ i + 1 # 1
  BY <1>2, <1>3, <1>4
<1>8. \A i, l \in 1..Len(c) : c[i] = c[l] => i = l
  BY <1>1 DEF TransitInv, NoneDoubled
<1>9. /\ DispatcherChan'[r] = d
      /\ \A q \in Roads \ {r} : DispatcherChan'[q] = DispatcherChan[q]
  BY <1>4, <1>5
<1>10. {d[k] : k \in DOMAIN d} = {c[k] : k \in DOMAIN c} \ {h}
  <2>1. ASSUME NEW k \in DOMAIN d PROVE d[k] \in {c[i] : i \in DOMAIN c} \ {h}
    BY <1>7, <1>8
  <2>2. ASSUME NEW k \in DOMAIN c, c[k] # h PROVE \E i \in DOMAIN d : d[i] = c[k]
    <3>1. k \in 1..Len(c) /\ k # 1
      BY <1>7, <2>2
    <3>2. k - 1 \in 1..(Len(c) - 1) /\ (k - 1) + 1 = k
      BY <1>7, <3>1
    <3>3. d[k - 1] = c[k]
      BY <1>7, <3>2
    <3> QED
      BY <1>7, <3>2, <3>3
  <2> QED
    BY <2>1, <2>2
<1>11. /\ InChan(r)' = InChan(r) \ {h} /\ h \in InChan(r)
       /\ \A q \in Roads \ {r} : InChan(q)' = InChan(q)
  <2>1. h \in {c[k] : k \in DOMAIN c}
    BY <1>7
  <2> QED
    BY <1>1, <1>9, <1>10, <2>1 DEF InChan
<1>12. h.road = r /\ \A q \in Roads \ {r} : h \notin InChan(q)
  BY <1>11 DEF TransitInv, Conserved
<1>13. InChans' = InChans \ {h} /\ h \in InChans
  BY <1>11, <1>12 DEF InChans
<1>14. held[s][r] = None
  BY <1>5, <1>6 DEF WorkInv, ListenersHold
<1>15. /\ held'[s][r] = h
       /\ \A u \in Sessions, q \in Roads : (u # s \/ q # r) => held'[u][q] = held[u][q]
  BY <1>5, <1>6
<1>16. h # None
  BY <1>7, NoneAssumption
<1>17. Holding' = Holding \cup {h}
  BY <1>14, <1>15, <1>16 DEF Holding
<1>18. Sending' = Sending
  BY <1>5, SendingStays
<1>19. Issued' = Issued
  BY <1>5 DEF Issued
<1>20. \A q \in Roads : \A x \in InChan(q)' : x.road = q
  BY <1>11 DEF TransitInv, Conserved
<1>21. Conserved'
  BY <1>5, <1>13, <1>17, <1>18, <1>19, <1>20 DEF TransitInv, Conserved
<1>22. \A u \in Sessions, q \in Roads : held[u][q] # h
  BY <1>13, <1>16 DEF TransitInv, Conserved, Holding
<1>23. ASSUME NEW q \in Roads, NEW j \in 1..Len(DispatcherChan'[q]),
              NEW k \in 1..Len(DispatcherChan'[q]), DispatcherChan'[q][j] = DispatcherChan'[q][k]
       PROVE  j = k
  <2>1. CASE q # r
    BY <1>9, <1>23, <2>1 DEF TransitInv, NoneDoubled
  <2>2. CASE q = r
    <3>1. j \in 1..(Len(c) - 1) /\ k \in 1..(Len(c) - 1) /\ d[j] = d[k]
      BY <1>7, <1>9, <1>23, <2>2
    <3>2. c[j + 1] = c[k + 1] /\ j + 1 \in 1..Len(c) /\ k + 1 \in 1..Len(c)
      BY <1>7, <3>1
    <3>3. j + 1 = k + 1
      BY <1>8, <3>2
    <3> QED
      BY <3>1, <3>3
  <2> QED
    BY <2>1, <2>2
<1>24. ASSUME NEW u \in Sessions, NEW v \in Sessions, NEW q \in Roads, held'[u][q] \in Tickets
       PROVE  held'[u][q].road = q /\ (held'[u][q] = held'[v][q] => u = v)
  BY <1>12, <1>15, <1>22, <1>24 DEF TransitInv, NoneDoubled
<1>25. NoneDoubled'
  BY <1>23, <1>24 DEF NoneDoubled
<1> QED
  BY <1>21, <1>25 DEF TransitInv

\* A listener writes its ticket, or fails to.
LEMMA WriteTransit ==
  ASSUME WorkInv, TransitInv, NEW s \in Sessions, NEW r \in Roads,
         ListenerWrites(s, r) \/ ListenerFails(s, r)
  PROVE  TransitInv'
<1>1. PICK h : h = held[s][r]
  OBVIOUS
<1>2. h \in Tickets /\ h # None
  BY <1>1, NoneAssumption DEF ListenerWrites, ListenerFails, WorkInv, ListenersHold
<1>3. /\ held' = [held EXCEPT ![s][r] = None]
      /\ UNCHANGED <<pc, camera, cur, at, DatabaseLogs, issued, DispatcherChan>>
      /\ \/ delivered' = delivered \cup {h} /\ lost' = lost
         \/ delivered' = delivered /\ lost' = lost \cup {h}
  BY <1>1 DEF ListenerWrites, ListenerFails, sessVars, scanVars
<1>4. held \in [Sessions -> [Roads -> Tickets \cup {None}]]
  BY DEF WorkInv, TypeOK
<1>5. /\ held'[s][r] = None
      /\ \A u \in Sessions, q \in Roads : (u # s \/ q # r) => held'[u][q] = held[u][q]
  BY <1>3, <1>4
<1>6. \A u \in Sessions, q \in Roads : (u # s \/ q # r) => held[u][q] # h
  <2> SUFFICES ASSUME NEW u \in Sessions, NEW q \in Roads, held[u][q] = h
               PROVE  u = s /\ q = r
    OBVIOUS
  <2>1. q = r
    BY <1>1, <1>2 DEF TransitInv, NoneDoubled
  <2>2. held[s][r] \in Tickets /\ held[s][r] = held[u][r]
    BY <1>1, <1>2, <2>1
  <2>3. s = u
    BY <2>2 DEF TransitInv, NoneDoubled
  <2> QED
    BY <2>1, <2>3
<1>7. Holding' = Holding \ {h} /\ h \in Holding
  BY <1>1, <1>2, <1>5, <1>6 DEF Holding
<1>8. Sending' = Sending
  BY <1>3, SendingStays
<1>9. /\ Issued' = Issued /\ InChans' = InChans
      /\ \A q \in Roads : InChan(q)' = InChan(q)
  BY <1>3 DEF Issued, InChans, InChan
<1>10. Conserved'
  BY <1>3, <1>7, <1>8, <1>9 DEF TransitInv, Conserved
<1>11. None \notin Tickets
  BY NoneAssumption
<1>12. ASSUME NEW u \in Sessions, NEW v \in Sessions, NEW q \in Roads, held'[u][q] \in Tickets
       PROVE  held'[u][q].road = q /\ (held'[u][q] = held'[v][q] => u = v)
  BY <1>5, <1>11, <1>12 DEF TransitInv, NoneDoubled
<1>13. NoneDoubled'
  BY <1>3, <1>12 DEF TransitInv, NoneDoubled
<1> QED
  BY <1>10, <1>13 DEF TransitInv

\* Each step keeps the tickets in one place each.
LEMMA TransitNext == WorkInv /\ TicketInv /\ TransitInv /\ [Next]_vars => TransitInv'
<1> SUFFICES ASSUME WorkInv, TicketInv, TransitInv, [Next]_vars PROVE TransitInv'
  OBVIOUS
<1>1. ASSUME NEW s \in Sessions, MarkDays(s) \/ Send(s) PROVE TransitInv'
  BY <1>1, MarkTransit, SendTransit
<1>2. ASSUME NEW s \in Sessions, NEW r \in Roads,
             ListenerTake(s, r) \/ ListenerWrites(s, r) \/ ListenerFails(s, r)
      PROVE  TransitInv'
  BY <1>2, TakeTransit, WriteTransit
<1>3. CASE /\ \A s \in Sessions : ~MarkDays(s) /\ ~Send(s)
           /\ \A s \in Sessions, r \in Roads :
                ~ListenerTake(s, r) /\ ~ListenerWrites(s, r) /\ ~ListenerFails(s, r)
  BY <1>3, StillNext, StillTransit
<1> QED
  BY <1>1, <1>2, <1>3

\* The first state has no tickets.
LEMMA TransitInit == Init => TransitInv
<1> SUFFICES ASSUME Init PROVE TransitInv
  OBVIOUS
<1>1. /\ issued = <<>> /\ delivered = {} /\ lost = {}
      /\ \A r \in Roads : DispatcherChan[r] = <<>>
      /\ \A s \in Sessions : pc[s] = "read"
      /\ \A s \in Sessions, r \in Roads : held[s][r] = None
  BY DEF Init
<1>2. /\ DOMAIN issued = {}
      /\ \A r \in Roads : DOMAIN DispatcherChan[r] = {} /\ Len(DispatcherChan[r]) = 0
  BY <1>1
<1>3. Issued = {} /\ Sending = {} /\ Holding = {} /\ \A r \in Roads : InChan(r) = {}
  BY <1>1, <1>2 DEF Issued, Sending, Holding, InChan
<1>4. InChans = {}
  BY <1>3 DEF InChans
<1>5. Conserved
  BY <1>1, <1>3, <1>4 DEF Conserved
<1>6. NoneDoubled
  BY <1>1, <1>2, NoneAssumption DEF NoneDoubled
<1> QED
  BY <1>5, <1>6 DEF TransitInv

\* No ticket is dropped or doubled.
THEOREM TransitInvariant == Spec => []TransitInv
<1>1. Init => TransitInv
  BY TransitInit
<1>2. WorkInv /\ TicketInv /\ TransitInv /\ [Next]_vars => TransitInv'
  BY TransitNext
<1> QED
  BY <1>1, <1>2, WorkInvariant, TicketInvariant, PTL DEF Spec

\* A ticket that was issued is about to be sent, in the channel of its road, at
\* a listener, delivered, or lost by a write that failed, in one of them only:
\* sends and listeners drop and double no ticket.
THEOREM Conservation == Spec => []TicketsConserved
<1>1. TransitInv => TicketsConserved
  BY ConservedMeans DEF TransitInv
<1> QED
  BY <1>1, TransitInvariant, PTL
=============================================================================
