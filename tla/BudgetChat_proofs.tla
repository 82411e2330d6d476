-------------------------- MODULE BudgetChat_proofs --------------------------
(***************************************************************************)
(* Proofs about BudgetChat, for any sessions, names, lines and capacity of *)
(* the channel, in three layers, each of which uses the ones before it:    *)
(* who is in the room, what the channel tells of it, and what the peers    *)
(* know of it.                                                             *)
(***************************************************************************)
EXTENDS BudgetChat, TLAPS

----------------------------------------------------------------------------
(* The room *)

\* Where the goroutines of a session are together, and when it has a name.
Phases ==
  \A s \in Sessions :
    /\ main[s] = "name" => name[s] = None
    /\ main[s] \in {"name", "join", "list"} => reader[s] = "off"
    /\ main[s] = "run" => reader[s] # "off"
    /\ main[s] = "leave" => reader[s] = "done"
    /\ main[s] = "gone" => reader[s] \in {"off", "done"}
    /\ main[s] \in {"join", "list", "run", "leave"} => name[s] \in Names

\* register and leave hold the lock until their event is in the channel, and
\* register until its list is written.
LockHeld == \A s \in Sessions : main[s] \in {"join", "list", "leave"} => usersLock = {s}

\* Nobody takes the name of a session that is leaving before its event is sent.
LeaverIsOut == \A s \in Sessions : main[s] = "leave" => users[name[s]] = None

\* The looper works on an event, and writes to nobody when it does not.
LooperWorks == /\ looper \in {"lock", "send"} => current \in Events
               /\ looper # "send" => pending = {}

RoomInv == TypeOK /\ Phases /\ LockHeld /\ LeaverIsOut /\ LooperWorks /\ RoomIsMembers

\* The room is empty at the start.
LEMMA RoomInit == Init => RoomInv
<1> SUFFICES ASSUME Init PROVE RoomInv
  OBVIOUS
<1>1. \A s \in Sessions : said[s] <= MaxLines[s]
  BY BoundsAssumption DEF Init
<1>2. event \in Seq(Events) /\ Len(event) <= EventCap
  BY BoundsAssumption DEF Init
<1>3. TypeOK
  BY <1>1, <1>2 DEF Init, TypeOK
<1> QED
  BY <1>3, NoneAssumption DEF Init, RoomInv, Phases, LockHeld, LeaverIsOut,
     LooperWorks, RoomIsMembers

----------------------------------------------------------------------------
\* The types.
LEMMA TypesKept ==
  ASSUME RoomInv, [Next]_vars
  PROVE  TypeOK'
<1> USE DEF RoomInv, TypeOK
<1>1. CASE UNCHANGED vars
  BY <1>1 DEF vars, sessVars, roomVars, looperVars
<1>2. CASE Stop \/ LooperEnds \/ LooperUnlock
  BY <1>2 DEF Stop, LooperEnds, LooperUnlock, sessVars, roomVars, looperVars
<1>3. CASE LooperTake
  <2>1. event # <<>> /\ current' = Head(event) /\ event' = Tail(event)
    BY <1>3 DEF LooperTake
  <2>2. /\ current' \in Events /\ event' \in Seq(Events)
        /\ Len(event') <= EventCap
    BY <2>1, BoundsAssumption
  <2>3. current'.user \in Names /\ current'.type \in {"join", "message", "leave"}
    BY <2>2 DEF Events
  <2>4. last' \in [Names -> {"join", "message", "leave"}]
    BY <1>3, <2>3 DEF LooperTake
  <2> QED
    BY <1>3, <2>2, <2>4 DEF LooperTake, sessVars, roomVars
<1>4. CASE LooperLock
  <2>1. Hearers(current) \in SUBSET Sessions
    BY DEF Hearers, Members
  <2> QED
    BY <1>4, <2>1 DEF LooperLock, sessVars, roomVars
<1>5. ASSUME NEW s \in Sessions, LooperSend(s) PROVE TypeOK'
  <2>1. view' \in [Sessions -> SUBSET Names]
    <3>1. current \in Events
      BY <1>5 DEF LooperSend, LooperWorks
    <3>2. Heard(view[s], current) \in SUBSET Names
      BY <3>1 DEF Heard, Events
    <3> QED
      BY <1>5, <3>2 DEF LooperSend
  <2> QED
    BY <1>5, <2>1 DEF LooperSend, sessVars, roomVars
<1>6. ASSUME NEW s \in Sessions, LooperSendFails(s) \/ PeerLeaves(s) \/ NameFails(s)
      PROVE  TypeOK'
  BY <1>6 DEF LooperSendFails, PeerLeaves, NameFails, TurnAway, sessVars, roomVars,
     looperVars
<1>7. ASSUME NEW s \in Sessions, NEW n \in Names, Register(s, n) PROVE TypeOK'
  <2>1. /\ main' \in [Sessions -> {"name", "join", "list", "run", "leave", "gone"}]
        /\ name' \in [Sessions -> Names \cup {None}]
        /\ users' \in [Names -> Sessions \cup {None}]
        /\ usersLock' \in SUBSET Sessions /\ \A t, u \in usersLock' : t = u
        /\ ok' \in SUBSET Sessions
    <3>1. CASE users[n] # None
      BY <1>7, <3>1 DEF Register, TurnAway, roomVars
    <3>2. CASE users[n] = None
      <4>1. /\ main' = [main EXCEPT ![s] = "join"] /\ name' = [name EXCEPT ![s] = n]
            /\ users' = [users EXCEPT ![n] = s] /\ usersLock' = {s} /\ ok' = ok
        BY <1>7, <3>2 DEF Register
      <4> QED
        BY <4>1
    <3> QED
      BY <3>1, <3>2
  <2> QED
    BY <1>7, <2>1 DEF Register, looperVars
<1>8. ASSUME NEW s \in Sessions, NEW type \in {"join", "message", "leave"},
             name[s] \in Names, SendEvent(s, type)
      PROVE  event' \in Seq(Events) /\ Len(event') <= EventCap
  <2>1. [type |-> type, user |-> name[s]] \in Events
    BY <1>8 DEF Events
  <2> QED
    BY <1>8, <2>1, BoundsAssumption DEF SendEvent, HasRoom
<1>9. ASSUME NEW s \in Sessions, SendJoin(s) \/ SendLeave(s) \/ Say(s) PROVE TypeOK'
  <2>1. name[s] \in Names
    BY <1>9 DEF SendJoin, SendLeave, Say, Phases
  <2>2. event' \in Seq(Events) /\ Len(event') <= EventCap /\ last' = last
    BY <1>8, <1>9, <2>1 DEF SendJoin, SendLeave, Say, SendEvent
  <2> QED
    BY <1>9, <2>2 DEF SendJoin, SendLeave, Say, LockFreed, sessVars, roomVars, looperVars
<1>10. ASSUME NEW s \in Sessions, SendList(s) \/ SendListFails(s) \/ ReaderEnds(s)
       PROVE  TypeOK'
  <2>1. Others(s) \in SUBSET Names
    BY DEF Others
  <2> QED
    <3>1. CASE SendList(s)
      BY <2>1, <3>1 DEF SendList, looperVars
    <3>2. CASE SendListFails(s) \/ ReaderEnds(s)
      BY <3>2 DEF SendListFails, ReaderEnds, roomVars, looperVars
    <3> QED
      BY <1>10, <3>1, <3>2
<1>11. ASSUME NEW s \in Sessions, ReadLine(s) PROVE TypeOK'
  <2>1. said' \in [Sessions -> Nat] /\ \A t \in Sessions : said'[t] <= MaxLines[t]
    <3>1. said' = [said EXCEPT ![s] = @ + 1] /\ said[s] < MaxLines[s]
      BY <1>11 DEF ReadLine
    <3>2. said' \in [Sessions -> Nat]
      BY <3>1
    <3>3. ASSUME NEW t \in Sessions PROVE said'[t] <= MaxLines[t]
      <4>1. said[t] \in Nat /\ MaxLines[t] \in Nat /\ said[t] <= MaxLines[t]
        BY BoundsAssumption
      <4>2. said'[t] = said[t] \/ (t = s /\ said'[t] = said[t] + 1)
        BY <3>1
      <4> QED
        BY <3>1, <4>1, <4>2
    <3> QED
      BY <3>2, <3>3
  <2> QED
    BY <1>11, <2>1 DEF ReadLine, roomVars, looperVars
<1>12. ASSUME NEW s \in Sessions, Leave(s) PROVE TypeOK'
  <2>1. users' \in [Names -> Sessions \cup {None}]
    BY <1>12 DEF Leave, UsersWithout
  <2> QED
    BY <1>12, <2>1 DEF Leave, looperVars
<1> QED
  BY <1>1, <1>2, <1>3, <1>4, <1>5, <1>6, <1>7, <1>9, <1>10, <1>11, <1>12
     DEF Next, Looping, Running

\* A session that may change only its own state keeps the room what it is.
LEMMA RoomKept ==
  ASSUME RoomInv, [Next]_vars
  PROVE  RoomInv'
<1> USE DEF RoomInv
<1>t. TypeOK'
  BY TypesKept
<1>1. CASE Stop \/ LooperEnds \/ LooperUnlock \/ LooperTake \/ LooperLock \/ UNCHANGED vars
  <2>1. UNCHANGED <<sessVars, roomVars>>
    BY <1>1 DEF Stop, LooperEnds, LooperUnlock, LooperTake, LooperLock, vars
  <2>2. LooperWorks'
    <3>1. CASE LooperTake
      <4>1. current' \in Events
        BY <3>1 DEF LooperTake, TypeOK
      <4> QED
        BY <3>1, <4>1 DEF LooperTake, LooperWorks
    <3> QED
      BY <1>1, <3>1 DEF Stop, LooperEnds, LooperUnlock, LooperLock, vars, looperVars,
         LooperWorks
  <2> QED
    BY <1>t, <2>1, <2>2 DEF sessVars, roomVars, Phases, LockHeld, LeaverIsOut, RoomIsMembers
<1>2. ASSUME NEW s \in Sessions, LooperSend(s) \/ LooperSendFails(s) \/ PeerLeaves(s)
      PROVE  RoomInv'
  <2>1. UNCHANGED <<sessVars, roomVars>> /\ LooperWorks'
    BY <1>2 DEF LooperSend, LooperSendFails, PeerLeaves, looperVars, LooperWorks
  <2> QED
    BY <1>t, <2>1 DEF sessVars, roomVars, Phases, LockHeld, LeaverIsOut, RoomIsMembers
<1>3. ASSUME NEW s \in Sessions, NameFails(s) PROVE RoomInv'
  BY <1>t, <1>3, NoneAssumption DEF NameFails, TurnAway, looperVars, roomVars, TypeOK,
     Phases, LockHeld, LeaverIsOut, LooperWorks, RoomIsMembers
<1>4. ASSUME NEW s \in Sessions, NEW n \in Names, Register(s, n) PROVE RoomInv'
  <2>1. CASE users[n] # None
    <3>1. /\ main' = [main EXCEPT ![s] = "gone"] /\ main[s] = "name"
          /\ UNCHANGED <<reader, name, users, usersLock, looper, current, pending>>
      BY <1>4, <2>1 DEF Register, TurnAway, looperVars, roomVars
    <3>2. Phases' /\ LockHeld' /\ LeaverIsOut' /\ LooperWorks'
      BY <3>1 DEF TypeOK, Phases, LockHeld, LeaverIsOut, LooperWorks
    <3>3. RoomIsMembers'
      BY <3>1, NoneAssumption DEF TypeOK, Phases, RoomIsMembers
    <3> QED
      BY <1>t, <3>2, <3>3
  <2>2. CASE users[n] = None
    <3> USE <1>4, <2>2 DEF Register, looperVars
    <3>1. Phases'
      BY DEF TypeOK, Phases
    <3>2. usersLock = {} /\ \A t \in Sessions : main[t] \notin {"join", "list", "leave"}
      BY DEF Lockable, LockHeld
    <3>3. LockHeld' /\ LeaverIsOut'
      BY <3>2 DEF TypeOK, LockHeld, LeaverIsOut
    <3>4. RoomIsMembers'
      BY NoneAssumption DEF TypeOK, Phases, RoomIsMembers
    <3> QED
      BY <1>t, <3>1, <3>3, <3>4 DEF LooperWorks
  <2> QED
    BY <2>1, <2>2
<1>5. ASSUME NEW s \in Sessions,
             \/ SendJoin(s) \/ SendList(s) \/ SendListFails(s) \/ ReadLine(s) \/ Say(s)
             \/ ReaderEnds(s) \/ SendLeave(s)
      PROVE  RoomInv'
  <2> USE <1>5 DEF SendJoin, SendList, SendListFails, ReadLine, Say, ReaderEnds, SendLeave,
         sessVars, roomVars, looperVars
  <2>1. users' = users /\ name' = name /\ LooperWorks'
    BY DEF LooperWorks
  <2>2. Phases'
    BY DEF TypeOK, Phases
  <2>3. LockHeld'
    <3>1. ASSUME NEW t \in Sessions, main[s] \in {"join", "list", "leave"},
                 main[t] \in {"join", "list", "leave"}
          PROVE  t = s
      <4>1. usersLock = {s} /\ usersLock = {t}
        BY <3>1 DEF LockHeld
      <4> QED
        BY <4>1
    <3>2. CASE SendJoin(s) \/ ReadLine(s) \/ Say(s) \/ ReaderEnds(s)
      BY <3>2 DEF TypeOK, LockHeld
    <3>3. CASE SendList(s) \/ SendListFails(s) \/ SendLeave(s)
      <4>1. \A t \in Sessions : main'[t] \notin {"join", "list", "leave"}
        BY <3>1, <3>3 DEF TypeOK
      <4> QED
        BY <4>1 DEF LockHeld
    <3> QED
      BY <3>2, <3>3
  <2>4. LeaverIsOut'
    BY <2>1 DEF TypeOK, LeaverIsOut
  <2>5. RoomIsMembers'
    BY <2>1 DEF TypeOK, Phases, LeaverIsOut, RoomIsMembers
  <2> QED
    BY <1>t, <2>1, <2>2, <2>3, <2>4, <2>5
<1>6. ASSUME NEW s \in Sessions, Leave(s) PROVE RoomInv'
  <2> USE <1>6 DEF Leave, looperVars
  <2>1. name[s] \in Names /\ users' = [users EXCEPT ![name[s]] = None]
    BY DEF Phases, UsersWithout
  <2>2. usersLock = {} /\ \A t \in Sessions : main[t] \notin {"join", "list", "leave"}
    BY DEF Lockable, LockHeld
  <2>3. Phases' /\ LockHeld' /\ LeaverIsOut' /\ LooperWorks'
    BY <2>1, <2>2 DEF TypeOK, Phases, LockHeld, LeaverIsOut, LooperWorks, ReaderOver
  <2>4. RoomIsMembers'
    BY <2>1, NoneAssumption DEF TypeOK, Phases, RoomIsMembers, ReaderOver
  <2> QED
    BY <1>t, <2>3, <2>4
<1> QED
  BY <1>1, <1>2, <1>3, <1>4, <1>5, <1>6 DEF Next, Looping, Running

\* Types, phases, lock and room agree in every state.
THEOREM RoomInvariant == Spec => []RoomInv
<1> QED
  BY RoomInit, RoomKept, PTL DEF Spec

\* The map of the chat room holds exactly the sessions that have registered and
\* not left, each under its own name, however register, leave and the looper
\* interleave.
THEOREM RoomHolds == Spec => []RoomIsMembers
<1>1. RoomInv => RoomIsMembers
  BY DEF RoomInv
<1> QED
  BY RoomInvariant, <1>1, PTL

----------------------------------------------------------------------------
(* The channel *)

\* The sessions of the room as the events tell it: a user is in it from its
\* join on, until its leave.
Announced(s) == \/ main[s] \in {"list", "run", "leave"}
                \/ main[s] = "gone" /\ reader[s] = "off"
Present(n) == \E s \in Sessions : name[s] = n /\ Announced(s)

\* The last event about a name tells whether it is present.
LastTold ==
  \A n \in Names : \A i \in 0..Len(event) :
    About(n, i) /\ (\A k \in (i + 1)..Len(event) : event[k].user # n) =>
      (TypeAt(n, i) = "leave" <=> ~Present(n))

\* An event that changes who is in the room, and those about a name.
Moves(e, n) == e.user = n /\ e.type # "message"
NoMove(n) == \A k \in 1..Len(event) : ~Moves(event[k], n)

\* The last join or leave in the channel tells whether the name is present ...
LastMoveTold ==
  \A n \in Names : \A i \in 1..Len(event) :
    Moves(event[i], n) /\ (\A k \in (i + 1)..Len(event) : ~Moves(event[k], n)) =>
      (event[i].type = "join" <=> Present(n))

\* ... and if there is none, the one that the looper works on.
CurrentTold ==
  looper \in {"lock", "send"} => \A n \in Names :
    Moves(current, n) /\ NoMove(n) => (current.type = "join" <=> Present(n))

ChannelInv == JoinMessagesLeave /\ LastTold /\ LastMoveTold /\ CurrentTold

\* What an event of a session says of its name is news: nobody else holds it.
LEMMA SoleHolder ==
  ASSUME RoomInv, NEW s \in Sessions, main[s] \in {"join", "run", "leave"},
         NEW t \in Sessions, name[t] = name[s], Announced(t)
  PROVE  t = s
<1> USE DEF RoomInv, Announced
<1>1. name[s] \in Names
  BY DEF Phases
<1>2. CASE main[t] = "leave" /\ main[s] \in {"join", "leave"}
  <2>1. usersLock = {s} /\ usersLock = {t}
    BY <1>2 DEF LockHeld
  <2> QED
    BY <2>1
<1>3. CASE main[t] = "leave" /\ main[s] = "run"
  BY <1>1, <1>3, NoneAssumption DEF LeaverIsOut, RoomIsMembers
<1>4. CASE main[t] # "leave" /\ main[s] = "leave"
  BY <1>1, <1>4, NoneAssumption DEF LeaverIsOut, RoomIsMembers
<1>5. CASE main[t] # "leave" /\ main[s] # "leave"
  <2>1. users[name[s]] = s /\ users[name[s]] = t
    BY <1>1, <1>5 DEF RoomIsMembers
  <2> QED
    BY <2>1
<1> QED
  BY <1>2, <1>3, <1>4, <1>5

\* A join makes its name present, a leave makes it absent.
LEMMA JoinEntersLeaveExits ==
  ASSUME RoomInv, NEW s \in Sessions, NEW u \in Names, u = name[s]
  PROVE  /\ SendJoin(s) => /\ ~Present(u) /\ Present(u)'
                           /\ \A n \in Names \ {u} : Present(n)' <=> Present(n)
         /\ SendLeave(s) => /\ Present(u) /\ ~Present(u)'
                            /\ \A n \in Names \ {u} : Present(n)' <=> Present(n)
<1>1. ASSUME SendJoin(s)
      PROVE  /\ ~Present(u) /\ Present(u)'
             /\ \A n \in Names \ {u} : Present(n)' <=> Present(n)
  <2> USE <1>1 DEF SendJoin, RoomInv
  <2>1. ~Present(u)
    <3> SUFFICES ASSUME NEW t \in Sessions, name[t] = name[s], Announced(t) PROVE FALSE
      BY DEF Present
    <3>1. t = s
      BY SoleHolder
    <3> QED
      BY <3>1 DEF Announced
  <2>2. \A t \in Sessions : t # s => (Announced(t)' <=> Announced(t))
    BY DEF Announced, TypeOK
  <2>3. Announced(s)'
    BY DEF Announced, TypeOK
  <2> QED
    BY <2>1, <2>2, <2>3 DEF Present
<1>2. ASSUME SendLeave(s)
      PROVE  /\ Present(u) /\ ~Present(u)'
             /\ \A n \in Names \ {u} : Present(n)' <=> Present(n)
  <2> USE <1>2 DEF SendLeave, RoomInv
  <2>1. Present(u)
    BY DEF Present, Announced
  <2>2. \A t \in Sessions : t # s => (Announced(t)' <=> Announced(t))
    BY DEF Announced, TypeOK
  <2>3. ~Announced(s)'
    BY DEF Announced, TypeOK, Phases
  <2>4. \A t \in Sessions : name[t] = name[s] /\ Announced(t) => t = s
    BY SoleHolder
  <2> QED
    BY <2>1, <2>2, <2>3, <2>4 DEF Present
<1> QED
  BY <1>1, <1>2

\* No other step changes who is present.
LEMMA OthersStay ==
  ASSUME RoomInv, [Next]_vars, \A s \in Sessions : ~SendJoin(s) /\ ~SendLeave(s)
  PROVE  \A n \in Names : Present(n)' <=> Present(n)
<1> USE DEF RoomInv
<1>1. CASE UNCHANGED sessVars
  BY <1>1 DEF Present, Announced, sessVars
<1>2. ASSUME NEW s \in Sessions, NameFails(s) \/ \E n \in Names : Register(s, n)
      PROVE  \A m \in Names : Present(m)' <=> Present(m)
  <2>1. /\ \A t \in Sessions : t # s => name'[t] = name[t] /\ (Announced(t)' <=> Announced(t))
        /\ ~Announced(s)
        /\ name'[s] = None \/ ~Announced(s)'
    <3>1. CASE NameFails(s)
      BY <3>1 DEF NameFails, TurnAway, TypeOK, Phases, Announced
    <3>2. ASSUME NEW n \in Names, Register(s, n)
          PROVE  /\ \A t \in Sessions : t # s => name'[t] = name[t] /\ (Announced(t)' <=> Announced(t))
                 /\ ~Announced(s)
                 /\ name'[s] = None \/ ~Announced(s)'
      BY <3>2 DEF Register, TurnAway, TypeOK, Phases, Announced
    <3> QED
      BY <1>2, <3>1, <3>2
  <2> QED
    BY <2>1, NoneAssumption DEF Present
<1>3. ASSUME NEW s \in Sessions,
             \/ SendList(s) \/ SendListFails(s) \/ ReadLine(s) \/ Say(s) \/ ReaderEnds(s)
             \/ Leave(s)
      PROVE  \A m \in Names : Present(m)' <=> Present(m)
  <2>1. name' = name
    BY <1>3 DEF SendList, SendListFails, ReadLine, Say, ReaderEnds, Leave
  <2>2. \A t \in Sessions : Announced(t)' <=> Announced(t)
    BY <1>3 DEF SendList, SendListFails, ReadLine, Say, ReaderEnds, Leave, ReaderOver,
       TypeOK, Phases, Announced
  <2> QED
    BY <2>1, <2>2 DEF Present
<1> QED
  <2>1. CASE UNCHANGED sessVars
    BY <1>1, <2>1
  <2>2. CASE ~UNCHANGED sessVars
    <3>1. \E s \in Sessions :
            \/ NameFails(s) \/ \E n \in Names : Register(s, n)
            \/ SendList(s) \/ SendListFails(s) \/ ReadLine(s) \/ Say(s) \/ ReaderEnds(s)
            \/ Leave(s)
      BY <2>2 DEF Next, Looping, Running, Stop, LooperEnds, LooperTake, LooperLock,
         LooperUnlock, LooperSend, LooperSendFails, PeerLeaves, vars
    <3> QED
      BY <1>2, <1>3, <3>1
  <2> QED
    BY <2>1, <2>2

\* An event that fits to whether its name is present goes to the end of the
\* channel.
LEMMA AppendKeeps ==
  ASSUME RoomInv, ChannelInv, NEW n \in Names, NEW type \in {"join", "message", "leave"},
         event' = Append(event, [type |-> type, user |-> n]),
         UNCHANGED <<last, looper, current>>,
         type = "join" <=> ~Present(n),
         type = "leave" <=> ~Present(n)',
         \A m \in Names \ {n} : Present(m)' <=> Present(m)
  PROVE  ChannelInv'
<1> DEFINE L == Len(event)
<1>1. event \in Seq(Events) /\ L \in Nat
  BY DEF RoomInv, TypeOK
<1>2. /\ Len(event') = L + 1
      /\ \A k \in 1..L : event'[k] = event[k]
      /\ event'[L + 1].type = type /\ event'[L + 1].user = n
      /\ DOMAIN event' = 1..(L + 1) /\ DOMAIN event = 1..L
  BY <1>1
<1>3. \A m \in Names : \A i \in 0..L : /\ About(m, i)' <=> About(m, i)
                                       /\ TypeAt(m, i)' = TypeAt(m, i)
  BY <1>1, <1>2 DEF About, TypeAt
<1> HIDE DEF L
<1>4. JoinMessagesLeave'
  <2> SUFFICES ASSUME NEW m \in Names, NEW j \in DOMAIN event', NEW i \in 0..(j - 1),
                      event'[j].user = m, About(m, i)',
                      \A k \in (i + 1)..(j - 1) : event'[k].user # m
               PROVE  event'[j].type = "join" <=> TypeAt(m, i)' = "leave"
    BY Zenon DEF JoinMessagesLeave
  <2>0. j \in 1..(L + 1) /\ j \in Nat
    BY <1>1, <1>2
  <2>1. i \in 0..L /\ About(m, i) /\ TypeAt(m, i)' = TypeAt(m, i)
    BY <1>1, <1>3, <2>0
  <2>2. \A k \in (i + 1)..(j - 1) : event[k].user # m
    BY <1>1, <1>2, <2>0
  <2>3. CASE j \in 1..L
    BY <1>2, <2>1, <2>2, <2>3 DEF JoinMessagesLeave, ChannelInv
  <2>4. CASE j = L + 1
    <3>1. m = n /\ event'[j].type = type
      BY <1>2, <2>4
    <3>2. \A k \in (i + 1)..L : event[k].user # m
      BY <1>1, <2>2, <2>4
    <3>3. TypeAt(m, i) = "leave" <=> ~Present(n)
      BY <2>1, <3>1, <3>2 DEF LastTold, ChannelInv, L
    <3> QED
      BY <2>1, <3>1, <3>3
  <2>5. j \in 1..L \/ j = L + 1
    BY <1>1, <2>0
  <2> QED
    BY <2>3, <2>4, <2>5
<1>5. LastTold'
  <2> SUFFICES ASSUME NEW m \in Names, NEW i \in 0..(L + 1), About(m, i)',
                      \A k \in (i + 1)..(L + 1) : event'[k].user # m
               PROVE  TypeAt(m, i)' = "leave" <=> ~Present(m)'
    BY <1>2 DEF LastTold
  <2>1. CASE i = L + 1
    <3>1. m = n /\ TypeAt(m, i)' = type
      BY <1>1, <1>2, <2>1 DEF About, TypeAt
    <3> QED
      BY <3>1
  <2>2. CASE i \in 0..L
    <3>1. m # n
      BY <1>1, <1>2, <2>2
    <3>2. \A k \in (i + 1)..L : event[k].user # m
      BY <1>1, <1>2, <2>2
    <3>3. TypeAt(m, i) = "leave" <=> ~Present(m)
      BY <1>3, <2>2, <3>2 DEF LastTold, ChannelInv, L
    <3> QED
      BY <1>3, <2>2, <3>1, <3>3
  <2> QED
    BY <1>1, <2>1, <2>2
<1>6. LastMoveTold'
  <2> SUFFICES ASSUME NEW m \in Names, NEW i \in 1..(L + 1), Moves(event'[i], m),
                      \A k \in (i + 1)..(L + 1) : ~Moves(event'[k], m)
               PROVE  event'[i].type = "join" <=> Present(m)'
    BY <1>2 DEF LastMoveTold, Moves
  <2>1. CASE i = L + 1
    BY <1>2, <2>1 DEF Moves
  <2>2. CASE i \in 1..L
    <3>1. m # n \/ type = "message"
      BY <1>1, <1>2, <2>2 DEF Moves
    <3>2. Moves(event[i], m) /\ \A k \in (i + 1)..L : ~Moves(event[k], m)
      BY <1>1, <1>2, <2>2
    <3>3. event[i].type = "join" <=> Present(m)
      BY <2>2, <3>2 DEF LastMoveTold, ChannelInv, L
    <3>4. Present(m)' <=> Present(m)
      BY <3>1
    <3> QED
      BY <1>2, <2>2, <3>3, <3>4
  <2>3. i \in 1..L \/ i = L + 1
    BY <1>1
  <2> QED
    BY <2>1, <2>2, <2>3
<1>7. CurrentTold'
  <2> SUFFICES ASSUME looper \in {"lock", "send"}, NEW m \in Names, Moves(current, m),
                      NoMove(m)'
               PROVE  current.type = "join" <=> Present(m)'
    BY DEF CurrentTold, Moves
  <2>1. \A k \in 1..(L + 1) : ~Moves(event'[k], m)
    BY <1>2 DEF NoMove, Moves
  <2>2. NoMove(m)
    BY <1>1, <1>2, <2>1 DEF NoMove, L
  <2>3. m # n \/ type = "message"
    BY <1>1, <1>2, <2>1 DEF Moves
  <2>4. Present(m)' <=> Present(m)
    BY <2>3
  <2> QED
    BY <2>2, <2>4 DEF CurrentTold, ChannelInv
<1> QED
  BY <1>4, <1>5, <1>6, <1>7 DEF ChannelInv

\* The looper takes the first event of the channel.
LEMMA TakeKeeps ==
  ASSUME RoomInv, ChannelInv, LooperTake, \A m \in Names : Present(m)' <=> Present(m)
  PROVE  ChannelInv'
<1> DEFINE L == Len(event)
<1>1. event \in Seq(Events) /\ L \in Nat \ {0}
  BY DEF RoomInv, TypeOK, LooperTake
<1>2. /\ Len(event') = L - 1 /\ DOMAIN event' = 1..(L - 1) /\ DOMAIN event = 1..L
      /\ \A k \in 1..(L - 1) : event'[k] = event[k + 1]
      /\ current' = event[1]
  BY <1>1 DEF LooperTake
<1>3. current' \in Events /\ current'.user \in Names
  <2>1. current' \in Events
    BY <1>1, <1>2
  <2> QED
    BY <2>1 DEF Events
<1>4. last' = [last EXCEPT ![event[1].user] = event[1].type]
  BY <1>2 DEF LooperTake
<1>5. last \in [Names -> {"join", "message", "leave"}]
  BY DEF RoomInv, TypeOK
<1> HIDE DEF L
\* The place in the channel of what is at i now.
<1> DEFINE was(m, i) == IF i = 0 /\ event[1].user # m THEN 0 ELSE i + 1
<1>6. ASSUME NEW m \in Names, NEW i \in 0..(L - 1), About(m, i)'
      PROVE  /\ was(m, i) \in 0..L /\ About(m, was(m, i))
             /\ TypeAt(m, i)' = TypeAt(m, was(m, i))
  <2>1. CASE i = 0
    BY <1>1, <1>2, <1>3, <1>4, <1>5, <2>1 DEF About, TypeAt
  <2>2. CASE i # 0
    BY <1>1, <1>2, <1>6, <2>2 DEF About, TypeAt
  <2> QED
    BY <2>1, <2>2
<1>7. JoinMessagesLeave'
  <2> SUFFICES ASSUME NEW m \in Names, NEW j \in 1..(L - 1), NEW i \in 0..(j - 1),
                      event'[j].user = m, About(m, i)',
                      \A k \in (i + 1)..(j - 1) : event'[k].user # m
               PROVE  event'[j].type = "join" <=> TypeAt(m, i)' = "leave"
    BY <1>2 DEF JoinMessagesLeave
  <2>1. /\ was(m, i) \in 0..j /\ About(m, was(m, i))
        /\ TypeAt(m, i)' = TypeAt(m, was(m, i))
    BY <1>1, <1>6
  <2>2. j + 1 \in 1..L /\ event[j + 1] = event'[j] /\ event[j + 1].user = m
    BY <1>1, <1>2
  <2>3. \A k \in (was(m, i) + 1)..j : event[k].user # m
    <3> SUFFICES ASSUME NEW k \in (was(m, i) + 1)..j PROVE event[k].user # m
      OBVIOUS
    <3>1. CASE k = 1
      BY <1>1, <2>1, <3>1
    <3>2. CASE k # 1
      <4>1. k - 1 \in (i + 1)..(j - 1) /\ k - 1 \in 1..(L - 1)
        BY <1>1, <2>1, <3>2
      <4>2. event'[k - 1] = event[k]
        BY <1>1, <1>2, <4>1
      <4> QED
        BY <4>1, <4>2
    <3> QED
      BY <3>1, <3>2
  <2> HIDE DEF was
  <2>4. event[j + 1].type = "join" <=> TypeAt(m, was(m, i)) = "leave"
    <3>1. j + 1 \in DOMAIN event /\ (j + 1) - 1 = j
      BY <1>1, <1>2, <2>2
    <3> QED
      BY <2>1, <2>2, <2>3, <3>1 DEF JoinMessagesLeave, ChannelInv
  <2> QED
    BY <2>1, <2>2, <2>4
<1>8. LastTold'
  <2> SUFFICES ASSUME NEW m \in Names, NEW i \in 0..(L - 1), About(m, i)',
                      \A k \in (i + 1)..(L - 1) : event'[k].user # m
               PROVE  TypeAt(m, i)' = "leave" <=> ~Present(m)'
    BY <1>2 DEF LastTold
  <2>1. /\ was(m, i) \in 0..L /\ About(m, was(m, i))
        /\ TypeAt(m, i)' = TypeAt(m, was(m, i))
    BY <1>1, <1>6
  <2>2. \A k \in (was(m, i) + 1)..L : event[k].user # m
    <3> SUFFICES ASSUME NEW k \in (was(m, i) + 1)..L PROVE event[k].user # m
      OBVIOUS
    <3>1. CASE k = 1
      BY <1>1, <2>1, <3>1
    <3>2. CASE k # 1
      <4>1. k - 1 \in (i + 1)..(L - 1) /\ k - 1 \in 1..(L - 1)
        BY <1>1, <2>1, <3>2
      <4>2. event'[k - 1] = event[k]
        BY <1>1, <1>2, <4>1
      <4> QED
        BY <4>1, <4>2
    <3> QED
      BY <3>1, <3>2
  <2> HIDE DEF was
  <2>3. TypeAt(m, was(m, i)) = "leave" <=> ~Present(m)
    BY <2>1, <2>2 DEF LastTold, ChannelInv, L
  <2> QED
    BY <2>1, <2>3
<1>9. LastMoveTold'
  <2> SUFFICES ASSUME NEW m \in Names, NEW i \in 1..(L - 1), Moves(event'[i], m),
                      \A k \in (i + 1)..(L - 1) : ~Moves(event'[k], m)
               PROVE  event'[i].type = "join" <=> Present(m)'
    BY <1>2 DEF LastMoveTold, Moves
  <2>1. i + 1 \in 1..L /\ event[i + 1] = event'[i]
    BY <1>1, <1>2
  <2>2. \A k \in (i + 2)..L : ~Moves(event[k], m)
    <3> SUFFICES ASSUME NEW k \in (i + 2)..L PROVE ~Moves(event[k], m)
      OBVIOUS
    <3>1. k - 1 \in (i + 1)..(L - 1) /\ k - 1 \in 1..(L - 1)
      BY <1>1
    <3>2. event'[k - 1] = event[k]
      BY <1>1, <1>2, <3>1
    <3> QED
      BY <3>1, <3>2
  <2>3. event[i + 1].type = "join" <=> Present(m)
    BY <1>1, <2>1, <2>2 DEF LastMoveTold, ChannelInv, L
  <2> QED
    BY <2>1, <2>3
<1>10. CurrentTold'
  <2> SUFFICES ASSUME NEW m \in Names, Moves(event[1], m), NoMove(m)'
               PROVE  event[1].type = "join" <=> Present(m)'
    BY <1>2 DEF CurrentTold, Moves
  <2>1. \A k \in 2..L : ~Moves(event[k], m)
    <3> SUFFICES ASSUME NEW k \in 2..L PROVE ~Moves(event[k], m)
      OBVIOUS
    <3>1. k - 1 \in 1..(L - 1)
      BY <1>1
    <3>2. event'[k - 1] = event[k]
      BY <1>1, <1>2, <3>1
    <3> QED
      BY <1>2, <3>1, <3>2 DEF NoMove, Moves
  <2> QED
    BY <1>1, <2>1 DEF LastMoveTold, ChannelInv, L
<1> QED
  BY <1>7, <1>8, <1>9, <1>10 DEF ChannelInv

\* There is no event at the start.
LEMMA ChannelInit == Init => ChannelInv
<1> SUFFICES ASSUME Init PROVE ChannelInv
  OBVIOUS
<1>1. Len(event) = 0 /\ DOMAIN event = {} /\ looper = "take"
  BY DEF Init
<1>2. \A n \in Names : last[n] = "leave" /\ ~Present(n)
  BY DEF Init, Present, Announced
<1>3. LastTold
  BY <1>1, <1>2 DEF LastTold, TypeAt
<1> QED
  BY <1>1, <1>3 DEF ChannelInv, JoinMessagesLeave, LastMoveTold, CurrentTold

\* Every step keeps the channel true to the room.
LEMMA ChannelKept ==
  ASSUME RoomInv, ChannelInv, [Next]_vars
  PROVE  ChannelInv'
<1>1. ASSUME NEW s \in Sessions, SendJoin(s) \/ SendLeave(s) \/ Say(s) PROVE ChannelInv'
  <2>1. name[s] \in Names
    BY <1>1 DEF SendJoin, SendLeave, Say, RoomInv, Phases, TypeOK
  <2>2. UNCHANGED <<last, looper, current>>
    BY <1>1 DEF SendJoin, SendLeave, Say, SendEvent, looperVars
  <2>3. CASE SendJoin(s)
    <3>1. event' = Append(event, [type |-> "join", user |-> name[s]])
      BY <2>3 DEF SendJoin, SendEvent
    <3>2. ASSUME NEW u \in Names, u = name[s]
          PROVE  /\ ~Present(u) /\ Present(u)'
                 /\ \A n \in Names \ {u} : Present(n)' <=> Present(n)
      BY <2>3, <3>2, JoinEntersLeaveExits
    <3> QED
      BY <2>1, <2>2, <2>3, <3>1, <3>2, AppendKeeps
  <2>4. CASE SendLeave(s)
    <3>1. event' = Append(event, [type |-> "leave", user |-> name[s]])
      BY <2>4 DEF SendLeave, SendEvent
    <3>2. ASSUME NEW u \in Names, u = name[s]
          PROVE  /\ Present(u) /\ ~Present(u)'
                 /\ \A n \in Names \ {u} : Present(n)' <=> Present(n)
      BY <2>4, <3>2, JoinEntersLeaveExits
    <3> QED
      BY <2>1, <2>2, <2>4, <3>1, <3>2, AppendKeeps
  <2>5. CASE Say(s)
    <3>1. event' = Append(event, [type |-> "message", user |-> name[s]])
      BY <2>5 DEF Say, SendEvent
    <3>2. Present(name[s])
      BY <2>5 DEF Say, Present, Announced, RoomInv, Phases, TypeOK
    <3>3. \A n \in Names : Present(n)' <=> Present(n)
      <4>1. name' = name /\ \A t \in Sessions : Announced(t)' <=> Announced(t)
        BY <2>5 DEF Say, Announced, RoomInv, TypeOK
      <4> QED
        BY <4>1 DEF Present
    <3> QED
      BY <2>1, <2>2, <3>1, <3>2, <3>3, AppendKeeps
  <2> QED
    BY <1>1, <2>3, <2>4, <2>5
<1>2. CASE \A s \in Sessions : ~SendJoin(s) /\ ~SendLeave(s) /\ ~Say(s)
  <2>1. \A n \in Names : Present(n)' <=> Present(n)
    BY <1>2, OthersStay
  <2>2. CASE LooperTake
    BY <2>1, <2>2, TakeKeeps
  <2>3. CASE ~LooperTake
    <3>1. event' = event /\ last' = last
      BY <1>2, <2>3 DEF Next, Looping, Running, Stop, LooperEnds, LooperLock, LooperUnlock,
         LooperSend, LooperSendFails, PeerLeaves, NameFails, Register, SendList,
         SendListFails, ReadLine, ReaderEnds, Leave, vars
    <3>2. looper' \in {"lock", "send"} => looper \in {"lock", "send"} /\ current' = current
      BY <1>2, <2>3 DEF Next, Looping, Running, Stop, LooperEnds, LooperLock, LooperUnlock,
         LooperSend, LooperSendFails, PeerLeaves, NameFails, Register, SendList,
         SendListFails, ReadLine, ReaderEnds, Leave, vars, looperVars
    <3>3. JoinMessagesLeave' /\ LastTold' /\ LastMoveTold'
      BY <2>1, <3>1 DEF ChannelInv, JoinMessagesLeave, LastTold, LastMoveTold, About, TypeAt,
         Moves
    <3>4. CurrentTold'
      BY <2>1, <3>1, <3>2 DEF ChannelInv, CurrentTold, NoMove, Moves
    <3> QED
      BY <3>3, <3>4 DEF ChannelInv
  <2> QED
    BY <2>2, <2>3
<1> QED
  BY <1>1, <1>2

\* What the channel tells of the room is true in every state.
THEOREM ChannelInvariant == Spec => []ChannelInv
<1> QED
  BY RoomInvariant, ChannelInit, ChannelKept, PTL DEF Spec

\* Whatever sessions come and go under it, the events of a name are a join,
\* messages and a leave, again and again.
THEOREM EventsInTurn == Spec => []JoinMessagesLeave
<1>1. ChannelInv => JoinMessagesLeave
  BY DEF ChannelInv
<1> QED
  BY ChannelInvariant, <1>1, PTL

----------------------------------------------------------------------------
(* The peers *)

\* The looper will write its event to the session.
ToHear(s) == looper = "lock" \/ s \in pending

\* Nobody hears of itself.
HearsOfOthers == /\ \A s \in pending : name[s] # current.user
                 /\ \A s \in Sessions : main[s] = "run" => name[s] \notin view[s]

\* A peer knows of a name what is true of it, unless an event that tells it is
\* still under way.
ViewsFollow ==
  \A s \in Sessions \cap ok : main[s] = "run" => \A n \in Names \ {name[s]} :
    NoMove(n) /\ ~(ToHear(s) /\ Moves(current, n)) => (n \in view[s] <=> Present(n))

ViewInv == HearsOfOthers /\ ViewsFollow

\* Nobody has seen anyone at the start.
LEMMA ViewInit == Init => ViewInv
BY DEF Init, ViewInv, HearsOfOthers, ViewsFollow

\* When nobody is in the middle of register or leave, the map has who is present.
LEMMA MapIsPresence ==
  ASSUME RoomInv, NEW n \in Names,
         \A t \in Sessions : name[t] = n => main[t] \notin {"join", "leave"}
  PROVE  users[n] # None <=> Present(n)
BY NoneAssumption DEF RoomInv, TypeOK, RoomIsMembers, Present, Announced

\* The looper takes an event, for everybody, and locks, for all that run.
LEMMA LooperViews ==
  ASSUME RoomInv, ViewInv, LooperTake \/ LooperLock \/ LooperUnlock \/ LooperEnds
  PROVE  ViewInv'
<1> USE DEF ViewInv, RoomInv
<1>1. /\ UNCHANGED <<sessVars, roomVars, ok, view>> /\ UNCHANGED <<main, reader, name, users>>
  BY DEF LooperTake, LooperLock, LooperUnlock, LooperEnds, sessVars, roomVars
<1>2. \A n \in Names : Present(n)' <=> Present(n)
  BY <1>1 DEF Present, Announced
<1>3. HearsOfOthers'
  <2>1. CASE LooperLock
    BY <1>1, <2>1 DEF LooperLock, HearsOfOthers, Hearers
  <2>2. CASE ~LooperLock
    <3>1. pending' = {}
      BY <2>2 DEF LooperTake, LooperUnlock, LooperEnds, LooperWorks
    <3> QED
      BY <1>1, <3>1 DEF HearsOfOthers
  <2> QED
    BY <2>1, <2>2
<1>4. ViewsFollow'
  <2> SUFFICES ASSUME NEW s \in Sessions, s \in ok, main[s] = "run",
                      NEW n \in Names, n # name[s], NoMove(n)',
                      ~(ToHear(s)' /\ Moves(current', n))
               PROVE  n \in view[s] <=> Present(n)
    BY <1>1, <1>2 DEF ViewsFollow, Moves
  <2>1. CASE LooperTake
    <3>1. /\ event \in Seq(Events) /\ event # <<>> /\ event' = Tail(event)
          /\ current' = event[1] /\ looper = "take" /\ looper' = "lock"
      BY <2>1 DEF LooperTake, TypeOK
    <3>2. Len(event) \in Nat \ {0} /\ Len(event') = Len(event) - 1
      BY <3>1
    <3>3. ~Moves(event[1], n)
      BY <3>1 DEF ToHear
    <3>4. NoMove(n)
      <4> SUFFICES ASSUME NEW k \in 1..Len(event) PROVE ~Moves(event[k], n)
        BY DEF NoMove
      <4>1. CASE k = 1
        BY <3>3, <4>1
      <4>2. CASE k # 1
        <5>1. k - 1 \in 1..Len(event') /\ event'[k - 1] = event[k]
          BY <3>1, <3>2, <4>2
        <5> QED
          BY <5>1 DEF NoMove, Moves
      <4> QED
        BY <4>1, <4>2
    <3>5. ~ToHear(s)
      BY <3>1 DEF ToHear, LooperWorks
    <3> QED
      BY <3>4, <3>5 DEF ViewsFollow
  <2>2. CASE LooperLock
    <3>1. event' = event /\ current' = current /\ pending' = Hearers(current)
      BY <2>2 DEF LooperLock
    <3>2. s \in Members
      <4>1. name[s] \in Names /\ users[name[s]] = s /\ s # None
        BY NoneAssumption DEF Phases, RoomIsMembers
      <4> QED
        BY <4>1 DEF Members
    <3>3. ~Moves(current, n)
      BY <3>1, <3>2 DEF ToHear, Hearers, Moves
    <3>4. NoMove(n)
      BY <3>1 DEF NoMove, Moves
    <3> QED
      BY <3>3, <3>4 DEF ViewsFollow
  <2>3. CASE LooperUnlock \/ LooperEnds
    <3>1. ~ToHear(s) /\ event' = event
      BY <2>3 DEF LooperUnlock, LooperEnds, ToHear, LooperWorks
    <3>2. NoMove(n)
      BY <3>1 DEF NoMove, Moves
    <3> QED
      BY <3>1, <3>2 DEF ViewsFollow
  <2> QED
    BY <2>1, <2>2, <2>3
<1> QED
  BY <1>3, <1>4

\* The looper writes its event to a session; what the event says is true if no
\* later one follows.
LEMMA WriteViews ==
  ASSUME RoomInv, ChannelInv, ViewInv, NEW w \in Sessions, LooperSend(w) \/ LooperSendFails(w)
  PROVE  ViewInv'
<1> USE DEF ViewInv, RoomInv
<1>1. /\ UNCHANGED <<sessVars, roomVars, ok>> /\ UNCHANGED <<main, reader, name, users>>
      /\ UNCHANGED <<event, looper, current>>
      /\ looper = "send" /\ w \in pending /\ pending' = pending \ {w}
      /\ \A s \in Sessions \ {w} : view'[s] = view[s]
      /\ LooperSend(w) => view'[w] = Heard(view[w], current)
      /\ LooperSendFails(w) => w \notin ok /\ view'[w] = view[w]
  BY DEF LooperSend, LooperSendFails, sessVars, roomVars, CanWrite, TypeOK
<1>2. \A n \in Names : /\ Present(n)' <=> Present(n)
                       /\ NoMove(n)' <=> NoMove(n)
  BY <1>1 DEF Present, Announced, NoMove, Moves
<1>3. current \in Events
  BY <1>1 DEF LooperWorks
<1>4. HearsOfOthers'
  <2>1. \A n \in Names : n # current.user => (n \in Heard(view[w], current) <=> n \in view[w])
    BY <1>3 DEF Heard, Events
  <2>2. name[w] # current.user
    BY <1>1 DEF HearsOfOthers
  <2>3. main[w] = "run" => name[w] \notin view'[w]
    <3>1. main[w] = "run" => name[w] \in Names /\ name[w] \notin view[w]
      BY DEF HearsOfOthers, Phases
    <3> QED
      BY <1>1, <2>1, <2>2, <3>1
  <2> QED
    BY <1>1, <2>3 DEF HearsOfOthers
<1>5. ViewsFollow'
  <2> SUFFICES ASSUME NEW s \in Sessions, s \in ok, main[s] = "run",
                      NEW n \in Names, n # name[s], NoMove(n),
                      ~(ToHear(s)' /\ Moves(current, n))
               PROVE  n \in view'[s] <=> Present(n)
    BY <1>1, <1>2 DEF ViewsFollow, Moves
  <2>1. CASE s # w
    <3>1. ToHear(s)' <=> ToHear(s)
      BY <1>1, <2>1 DEF ToHear
    <3> QED
      BY <1>1, <2>1, <3>1 DEF ViewsFollow
  <2>2. CASE s = w /\ ~Moves(current, n)
    <3>1. n \in view[s] <=> Present(n)
      BY <2>2 DEF ViewsFollow
    <3>2. n \in Heard(view[w], current) <=> n \in view[w]
      BY <1>3, <2>2 DEF Heard, Events, Moves
    <3> QED
      BY <1>1, <2>2, <3>1, <3>2
  <2>3. CASE s = w /\ Moves(current, n)
    <3>1. current.type = "join" <=> Present(n)
      BY <1>1, <2>3 DEF ChannelInv, CurrentTold
    <3>2. n \in Heard(view[w], current) <=> current.type = "join"
      BY <1>3, <2>3 DEF Heard, Events, Moves
    <3> QED
      BY <1>1, <2>3, <3>1, <3>2
  <2> QED
    BY <2>1, <2>2, <2>3
<1> QED
  BY <1>4, <1>5

\* An event is sent, which is then under way to everybody.
LEMMA SendViews ==
  ASSUME RoomInv, ViewInv, NEW x \in Sessions, SendJoin(x) \/ SendLeave(x) \/ Say(x)
  PROVE  ViewInv'
<1> USE DEF ViewInv, RoomInv
<1>1. /\ UNCHANGED <<name, looper, current, pending, ok, view>>
      /\ \A s \in Sessions : main'[s] = "run" => main[s] = "run"
  BY DEF SendJoin, SendLeave, Say, looperVars, TypeOK
<1>2. HearsOfOthers'
  BY <1>1 DEF HearsOfOthers
<1>3. name[x] \in Names
  BY DEF SendJoin, SendLeave, Say, Phases, TypeOK
<1>4. PICK type \in {"join", "message", "leave"} :
        /\ event' = Append(event, [type |-> type, user |-> name[x]])
        /\ type = "message" <=> Say(x)
  <2>1. CASE Say(x)
    BY <2>1 DEF Say, SendEvent
  <2>2. CASE SendJoin(x) /\ ~Say(x)
    BY <2>2 DEF SendJoin, SendEvent
  <2>3. CASE SendLeave(x) /\ ~Say(x)
    BY <2>3 DEF SendLeave, SendEvent
  <2> QED
    BY <2>1, <2>2, <2>3
<1>5. /\ event \in Seq(Events) /\ Len(event) \in Nat /\ Len(event') = Len(event) + 1
      /\ \A k \in 1..Len(event) : event'[k] = event[k]
      /\ event'[Len(event) + 1] = [type |-> type, user |-> name[x]]
  BY <1>4 DEF TypeOK
<1>6. ASSUME NEW n \in Names, NoMove(n)' PROVE NoMove(n) /\ (Present(n)' <=> Present(n))
  <2>1. \A k \in 1..(Len(event) + 1) : ~Moves(event'[k], n)
    BY <1>5, <1>6 DEF NoMove, Moves
  <2>2. NoMove(n)
    BY <1>5, <2>1 DEF NoMove
  <2>3. n # name[x] \/ Say(x)
    BY <1>4, <1>5, <2>1 DEF Moves
  <2>4. CASE Say(x)
    <3>1. name' = name /\ \A t \in Sessions : Announced(t)' <=> Announced(t)
      BY <2>4 DEF Say, Announced, TypeOK
    <3> QED
      BY <2>2, <3>1 DEF Present
  <2>5. CASE n # name[x] /\ ~Say(x)
    <3>1. ASSUME NEW u \in Names, u = name[x]
          PROVE  \A m \in Names \ {u} : Present(m)' <=> Present(m)
      BY <2>5, <3>1, JoinEntersLeaveExits
    <3> QED
      BY <1>3, <2>2, <2>5, <3>1
  <2> QED
    BY <2>3, <2>4, <2>5
<1>7. ViewsFollow'
  <2> SUFFICES ASSUME NEW s \in Sessions, s \in ok, main[s] = "run",
                      NEW n \in Names, n # name[s], NoMove(n)',
                      ~(ToHear(s) /\ Moves(current, n))
               PROVE  n \in view[s] <=> Present(n)'
    BY <1>1 DEF ViewsFollow, Moves, ToHear
  <2> QED
    BY <1>6 DEF ViewsFollow
<1> QED
  BY <1>2, <1>7

\* The list of register is what is true, since nobody else holds the lock.
LEMMA ListViews ==
  ASSUME RoomInv, ViewInv, NEW x \in Sessions, SendList(x)
  PROVE  ViewInv'
<1> USE DEF ViewInv, RoomInv
<1>1. /\ UNCHANGED <<name, users, event, looper, current, pending, ok>>
      /\ \A s \in Sessions \ {x} : main'[s] = main[s] /\ view'[s] = view[s]
      /\ view'[x] = Others(x) /\ main[x] = "list"
  BY DEF SendList, looperVars, TypeOK
<1>2. name[x] \in Names /\ users[name[x]] = x /\ x # None
  BY <1>1, NoneAssumption DEF Phases, RoomIsMembers
<1>3. \A n \in Names : Present(n)' <=> Present(n)
  <2>1. \A t \in Sessions : Announced(t)' <=> Announced(t)
    BY <1>1 DEF SendList, Announced, TypeOK
  <2> QED
    BY <1>1, <2>1 DEF Present
<1>4. HearsOfOthers'
  <2>1. name[x] \notin Others(x)
    BY <1>2 DEF Others
  <2> QED
    BY <1>1, <2>1 DEF HearsOfOthers
<1>5. ASSUME NEW n \in Names, n # name[x] PROVE n \in Others(x) <=> Present(n)
  <2>1. \A t \in Sessions : main[t] \notin {"join", "leave"}
    <3> SUFFICES ASSUME NEW t \in Sessions, main[t] \in {"join", "leave"} PROVE FALSE
      OBVIOUS
    <3>1. usersLock = {t} /\ usersLock = {x}
      BY <1>1 DEF LockHeld
    <3>2. t = x
      BY <3>1
    <3> QED
      BY <1>1, <3>2
  <2>2. users[n] # x
    BY <1>5 DEF RoomIsMembers
  <2> QED
    BY <2>1, <2>2, MapIsPresence DEF Others
<1>6. ViewsFollow'
  <2> SUFFICES ASSUME NEW s \in Sessions, s \in ok, main'[s] = "run",
                      NEW n \in Names, n # name[s], NoMove(n),
                      ~(ToHear(s) /\ Moves(current, n))
               PROVE  n \in view'[s] <=> Present(n)
    BY <1>1, <1>3 DEF ViewsFollow, Moves, ToHear, NoMove
  <2>1. CASE s = x
    BY <1>1, <1>5, <2>1
  <2>2. CASE s # x
    BY <1>1, <2>2 DEF ViewsFollow
  <2> QED
    BY <2>1, <2>2
<1> QED
  BY <1>4, <1>6

\* Every other step concerns neither the channel nor the looper nor a view.
LEMMA OtherViews ==
  ASSUME RoomInv, ViewInv, UNCHANGED <<event, looper, current, pending, view>>,
         ok' \subseteq ok,
         \A s \in Sessions : main'[s] = "run" => main[s] = "run" /\ name'[s] = name[s],
         \A s \in pending : name'[s] = name[s],
         \A n \in Names : Present(n)' <=> Present(n)
  PROVE  ViewInv'
<1>1. HearsOfOthers'
  BY DEF ViewInv, HearsOfOthers
<1>2. ViewsFollow'
  <2> SUFFICES ASSUME NEW s \in Sessions, s \in ok, main[s] = "run",
                      NEW n \in Names, n # name[s], NoMove(n),
                      ~(ToHear(s) /\ Moves(current, n))
               PROVE  n \in view[s] <=> Present(n)
    BY DEF ViewsFollow, Moves, ToHear, NoMove
  <2> QED
    BY DEF ViewInv, ViewsFollow
<1> QED
  BY <1>1, <1>2 DEF ViewInv

\* Every step keeps what the peers know true.
LEMMA ViewKept ==
  ASSUME RoomInv, ChannelInv, ViewInv, [Next]_vars
  PROVE  ViewInv'
<1>1. CASE LooperTake \/ LooperLock \/ LooperUnlock \/ LooperEnds
  BY <1>1, LooperViews
<1>2. CASE \E s \in Sessions : LooperSend(s) \/ LooperSendFails(s)
  BY <1>2, WriteViews
<1>3. CASE \E s \in Sessions : SendJoin(s) \/ SendLeave(s) \/ Say(s)
  BY <1>3, SendViews
<1>4. CASE \E s \in Sessions : SendList(s)
  BY <1>4, ListViews
<1>5. CASE ~(\E s \in Sessions : SendJoin(s) \/ SendLeave(s) \/ Say(s))
  <2>1. \A n \in Names : Present(n)' <=> Present(n)
    BY <1>5, OthersStay
  <2>2. CASE Stop \/ UNCHANGED vars
    BY <2>1, <2>2, OtherViews DEF Stop, vars, sessVars, looperVars
  <2>3. ASSUME NEW s \in Sessions,
               \/ NameFails(s) \/ SendListFails(s) \/ ReadLine(s) \/ ReaderEnds(s)
               \/ Leave(s) \/ PeerLeaves(s)
        PROVE  ViewInv'
    <3>1. /\ UNCHANGED <<event, looper, current, pending, view, name>> /\ ok' \subseteq ok
          /\ \A t \in Sessions : main'[t] = "run" => main[t] = "run"
      BY <2>3 DEF NameFails, TurnAway, SendListFails, ReadLine, ReaderEnds, Leave, PeerLeaves,
         sessVars, looperVars, RoomInv, TypeOK
    <3> QED
      BY <2>1, <3>1, OtherViews
  <2>4. ASSUME NEW s \in Sessions, NEW m \in Names, Register(s, m) PROVE ViewInv'
    <3>1. /\ UNCHANGED <<event, looper, current, pending, view>> /\ ok' \subseteq ok
          /\ \A t \in Sessions : main'[t] = "run" => main[t] = "run" /\ name'[t] = name[t]
          /\ pending = {}
      BY <2>4 DEF Register, TurnAway, Lockable, looperVars, RoomInv, TypeOK, LooperWorks
    <3> QED
      BY <2>1, <3>1, OtherViews
  <2> QED
    BY <1>1, <1>2, <1>4, <1>5, <2>2, <2>3, <2>4 DEF Next, Looping, Running
<1> QED
  BY <1>3, <1>5

\* What the peers know follows the room in every state.
THEOREM ViewInvariant == Spec => []ViewInv
<1> QED
  BY RoomInvariant, ChannelInvariant, ViewInit, ViewKept, PTL DEF Spec

\* When the looper has nothing to do and nobody enters or leaves, every peer
\* that can be written to knows who is in the room.
THEOREM ViewsAgree == Spec => []ViewsConverge
<1>1. RoomInv /\ ViewInv => ViewsConverge
  <2> SUFFICES ASSUME RoomInv, ViewInv, looper = "take", event = <<>>, usersLock = {},
                      NEW s \in Members \cap ok, main[s] = "run"
               PROVE  view[s] = Others(s)
    BY DEF ViewsConverge
  <2> USE DEF RoomInv, ViewInv
  <2>1. s \in Sessions /\ view[s] \subseteq Names /\ Others(s) \subseteq Names
    BY DEF TypeOK, Others
  <2>2. name[s] \in Names /\ users[name[s]] = s
    BY <2>1 DEF Phases, RoomIsMembers
  <2>3. name[s] \notin view[s] /\ name[s] \notin Others(s)
    BY <2>1, <2>2 DEF HearsOfOthers, Others
  <2>4. ASSUME NEW n \in Names, n # name[s] PROVE n \in view[s] <=> n \in Others(s)
    <3>1. NoMove(n) /\ ~ToHear(s)
      BY DEF NoMove, ToHear, LooperWorks
    <3>2. n \in view[s] <=> Present(n)
      BY <2>1, <2>4, <3>1 DEF ViewsFollow
    <3>3. \A t \in Sessions : main[t] \notin {"join", "leave"}
      BY DEF LockHeld
    <3>4. users[n] # s
      BY <2>1, <2>4 DEF RoomIsMembers
    <3>5. users[n] # None <=> Present(n)
      BY <3>3, MapIsPresence
    <3> QED
      BY <3>2, <3>4, <3>5 DEF Others
  <2> HIDE DEF RoomInv, ViewInv
  <2>5. \A n \in Names : n \in view[s] <=> n \in Others(s)
    BY <2>3, <2>4
  <2> QED
    BY <2>1, <2>5
<1> QED
  BY RoomInvariant, ViewInvariant, <1>1, PTL
=============================================================================
