----------------------------- MODULE BudgetChat -----------------------------
(***************************************************************************)
(* The chat room of 3-budget-chat.  A session registers a name, then a     *)
(* reader goroutine turns the peer's lines into events, and when it ends   *)
(* the session leaves.  The looper takes the events from one channel and   *)
(* writes them to the users.                                               *)
(*                                                                         *)
(* register and leave hold usersLock while they send their event on the    *)
(* channel, which may be full, and register also while it writes to its    *)
(* peer; the looper holds the read lock while it writes to the users.      *)
(***************************************************************************)
EXTENDS Naturals, Sequences, FiniteSets

CONSTANTS Sessions,   \* the accepted connections
          Names,      \* valid names of users
          EventCap,   \* capacity of the event channel, 100 in the code
          MaxLines,   \* bound on the lines of each peer
          None

ASSUME BoundsAssumption == EventCap \in Nat \ {0} /\ MaxLines \in [Sessions -> Nat]
ASSUME NoneAssumption == None \notin Sessions \cup Names

VARIABLES
  main,       \* per session: "name", "join" and "list" (in register, with the
              \* lock), "run", "leave" (in leave, with the lock), "gone"
  reader,     \* the reader goroutine: "off", "read", "say", "done"
  name,       \* the name of a session
  users,      \* name -> session or None
  usersLock,  \* the session that holds the write lock, a set with at most one
  event,      \* the channel: records [type, user]
  looper,     \* "take", "lock", "send" (with the read lock), "done"
  current,    \* the event that the looper works on
  pending,    \* the sessions that it still has to write to
  ok,         \* sessions with a working connection
  stopping,   \* the server's context is done
  said,       \* per session, lines of the peer so far
  last,       \* history: per name, the type of the last event that was taken
  view        \* history: whom the peer of a session believes to be in the room

sessVars == <<main, reader, name>>
roomVars == <<users, usersLock>>
looperVars == <<looper, current, pending>>
vars == <<sessVars, roomVars, event, looperVars, ok, stopping, said, last, view>>

Init ==
  /\ main = [s \in Sessions |-> "name"]
  /\ reader = [s \in Sessions |-> "off"]
  /\ name = [s \in Sessions |-> None]
  /\ users = [n \in Names |-> None]
  /\ usersLock = {}
  /\ event = <<>>
  /\ looper = "take" /\ current = None /\ pending = {}
  /\ ok = Sessions
  /\ stopping = FALSE
  /\ said = [s \in Sessions |-> 0]
  /\ last = [n \in Names |-> "leave"]
  /\ view = [s \in Sessions |-> {}]

----------------------------------------------------------------------------
\* The sessions in the map, and the names of the others than s.
Members == {users[n] : n \in Names} \ {None}
Others(s) == {n \in Names : users[n] \notin {None, s}}

\* usersLock.Lock: neither a writer nor the looper, which reads, has it.
Lockable == usersLock = {} /\ looper # "send"

HasRoom == Len(event) < EventCap

\* s sends an event on the channel.
SendEvent(s, type) ==
  /\ HasRoom
  /\ event' = Append(event, [type |-> type, user |-> name[s]])
  /\ UNCHANGED last

\* readMessage returns a line, and sendMessage writes one.
CanRead(s) == s \in ok
CanWrite(s) == s \in ok

\* sendError always returns an error: run returns it and the connection is closed.
TurnAway(s) ==
  /\ main' = [main EXCEPT ![s] = "gone"]
  /\ ok' = ok \ {s}

----------------------------------------------------------------------------
(* A session *)

\* No name comes, or one that is not valid, or the peer is gone.
NameFails(s) ==
  /\ main[s] = "name"
  /\ TurnAway(s)
  /\ UNCHANGED <<reader, name, roomVars, event, looperVars, stopping, said, last, view>>

\* register: the name is taken, or the session enters the map.
Register(s, n) ==
  /\ main[s] = "name" /\ CanRead(s) /\ Lockable
  /\ IF users[n] # None
     THEN /\ TurnAway(s)
          /\ UNCHANGED <<name, roomVars>>
     ELSE /\ name' = [name EXCEPT ![s] = n]
          /\ users' = [users EXCEPT ![n] = s]
          /\ usersLock' = {s}
          /\ main' = [main EXCEPT ![s] = "join"]
          /\ UNCHANGED ok
  /\ UNCHANGED <<reader, event, looperVars, stopping, said, last, view>>

SendJoin(s) ==
  /\ main[s] = "join" /\ SendEvent(s, "join")
  /\ main' = [main EXCEPT ![s] = "list"]
  /\ UNCHANGED <<reader, name, roomVars, looperVars, ok, stopping, said, view>>

\* presentNotif is written; register returns and the reader starts.
SendList(s) ==
  /\ main[s] = "list" /\ CanWrite(s)
  /\ view' = [view EXCEPT ![s] = Others(s)]
  /\ usersLock' = {}
  /\ main' = [main EXCEPT ![s] = "run"]
  /\ reader' = [reader EXCEPT ![s] = "read"]
  /\ UNCHANGED <<name, users, event, looperVars, ok, stopping, said, last>>

\* The write fails: run returns without leave, and the name stays in the map.
SendListFails(s) ==
  /\ main[s] = "list" /\ ~CanWrite(s)
  /\ usersLock' = {}
  /\ main' = [main EXCEPT ![s] = "gone"]
  /\ UNCHANGED <<reader, name, users, event, looperVars, ok, stopping, said, last, view>>

\* A line of the peer, then its event, which waits for room and nothing else.
ReadLine(s) ==
  /\ reader[s] = "read" /\ CanRead(s) /\ said[s] < MaxLines[s]
  /\ reader' = [reader EXCEPT ![s] = "say"]
  /\ said' = [said EXCEPT ![s] = @ + 1]
  /\ UNCHANGED <<main, name, roomVars, event, looperVars, ok, stopping, last, view>>

Say(s) ==
  /\ reader[s] = "say" /\ SendEvent(s, "message")
  /\ reader' = [reader EXCEPT ![s] = "read"]
  /\ UNCHANGED <<main, name, roomVars, looperVars, ok, stopping, said, view>>

\* The read fails: the reader returns and cancels the session's context.
ReaderEnds(s) ==
  /\ reader[s] = "read" /\ ~CanRead(s)
  /\ reader' = [reader EXCEPT ![s] = "done"]
  /\ UNCHANGED <<main, name, roomVars, event, looperVars, ok, stopping, said, last, view>>

\* Mutant: run does not wait for its reader when the context is done.
ContextDone(s) == reader[s] = "done" \/ stopping

\* run has seen the end of its context and waited for the reader.
ReaderOver(s) == reader[s] = "done"

\* Mutant: the name stays in the map.
UsersWith(n) == users

UsersWithout(n) == [users EXCEPT ![n] = None]

\* leave
Leave(s) ==
  /\ main[s] = "run" /\ ReaderOver(s) /\ Lockable
  /\ users' = UsersWithout(name[s])
  /\ usersLock' = {s}
  /\ main' = [main EXCEPT ![s] = "leave"]
  /\ UNCHANGED <<reader, name, event, looperVars, ok, stopping, said, last, view>>

\* Mutant: leave does not unlock.
LockKept == usersLock

LockFreed == {}

SendLeave(s) ==
  /\ main[s] = "leave" /\ SendEvent(s, "leave")
  /\ usersLock' = LockFreed
  /\ main' = [main EXCEPT ![s] = "gone"]
  /\ UNCHANGED <<reader, name, users, looperVars, ok, stopping, said, view>>

----------------------------------------------------------------------------
(* The looper *)

LooperTake ==
  /\ looper = "take" /\ event # <<>>
  /\ current' = Head(event)
  /\ event' = Tail(event)
  /\ last' = [last EXCEPT ![current'.user] = current'.type]
  /\ looper' = "lock"
  /\ UNCHANGED <<sessVars, roomVars, pending, ok, stopping, said, view>>

\* Mutant: a user hears of itself, too.
HearersAll(e) == Members

\* An event is for everybody but the user it is about.
Hearers(e) == {s \in Members : name[s] # e.user}

LooperLock ==
  /\ looper = "lock" /\ usersLock = {}
  /\ pending' = Hearers(current)
  /\ looper' = "send"
  /\ UNCHANGED <<sessVars, roomVars, event, current, ok, stopping, said, last, view>>

\* What the peer knows after an event.
Heard(v, e) == CASE e.type = "join" -> v \cup {e.user}
                 [] e.type = "leave" -> v \ {e.user}
                 [] OTHER -> v

\* The users are written to in the order of the map, which is any order.
LooperSend(s) ==
  /\ looper = "send" /\ s \in pending /\ CanWrite(s)
  /\ view' = [view EXCEPT ![s] = Heard(@, current)]
  /\ pending' = pending \ {s}
  /\ UNCHANGED <<sessVars, roomVars, event, looper, current, ok, stopping, said, last>>

LooperSendFails(s) ==
  /\ looper = "send" /\ s \in pending /\ ~CanWrite(s)
  /\ pending' = pending \ {s}
  /\ UNCHANGED <<sessVars, roomVars, event, looper, current, ok, stopping, said, last, view>>

LooperUnlock ==
  /\ looper = "send" /\ pending = {}
  /\ looper' = "take" /\ current' = None
  /\ UNCHANGED <<sessVars, roomVars, event, pending, ok, stopping, said, last, view>>

LooperEnds ==
  /\ looper = "take" /\ stopping
  /\ looper' = "done"
  /\ UNCHANGED <<sessVars, roomVars, event, current, pending, ok, stopping, said, last, view>>

----------------------------------------------------------------------------
\* The peer closes the connection or it breaks.
PeerLeaves(s) ==
  /\ s \in ok /\ ok' = ok \ {s}
  /\ UNCHANGED <<sessVars, roomVars, event, looperVars, stopping, said, last, view>>

\* A signal cancels the server's context; all connections are closed.
Stop ==
  /\ ~stopping /\ stopping' = TRUE
  /\ ok' = {}
  /\ UNCHANGED <<sessVars, roomVars, event, looperVars, said, last, view>>

Running(s) == SendJoin(s) \/ SendListFails(s) \/ Say(s) \/ ReaderEnds(s) \/ Leave(s)
              \/ SendLeave(s)
Looping == LooperTake \/ LooperLock \/ LooperUnlock
           \/ \E s \in Sessions : LooperSendFails(s)

Next ==
  \/ Stop \/ LooperEnds \/ Looping
  \/ \E s \in Sessions :
       \/ NameFails(s) \/ SendList(s) \/ ReadLine(s) \/ Running(s)
       \/ LooperSend(s) \/ PeerLeaves(s)
       \/ \E n \in Names : Register(s, n)

Spec == Init /\ [][Next]_vars

\* Go runs every goroutine that is not blocked.  Nothing is assumed of peers:
\* neither that they speak nor that they read what is written to them.
Fairness == WF_vars(Looping) /\ \A s \in Sessions : WF_vars(Running(s))

FairSpec == Spec /\ Fairness

----------------------------------------------------------------------------
(* Properties *)

Events == [type : {"join", "message", "leave"}, user : Names]

\* One session at most has the lock, and the channel holds no more than its
\* capacity.
TypeOK ==
  /\ main \in [Sessions -> {"name", "join", "list", "run", "leave", "gone"}]
  /\ reader \in [Sessions -> {"off", "read", "say", "done"}]
  /\ name \in [Sessions -> Names \cup {None}]
  /\ users \in [Names -> Sessions \cup {None}]
  /\ usersLock \in SUBSET Sessions /\ \A s, t \in usersLock : s = t
  /\ event \in Seq(Events) /\ Len(event) <= EventCap
  /\ looper \in {"take", "lock", "send", "done"}
  /\ current \in Events \cup {None} /\ pending \in SUBSET Sessions
  /\ ok \in SUBSET Sessions /\ stopping \in BOOLEAN
  /\ said \in [Sessions -> Nat] /\ \A s \in Sessions : said[s] <= MaxLines[s]
  /\ last \in [Names -> {"join", "message", "leave"}] /\ view \in [Sessions -> SUBSET Names]

\* The room holds exactly the sessions that have registered and not left, each
\* under its own name; besides them only those whose first message failed.
RoomIsMembers ==
  \A s \in Sessions, n \in Names :
    users[n] = s <=> /\ name[s] = n
                     /\ \/ main[s] \in {"join", "list", "run"}
                        \/ main[s] = "gone" /\ reader[s] = "off"

\* The events about a name: those of the channel and, at 0, the last one that
\* the looper has taken.
About(n, i) == i = 0 \/ event[i].user = n
TypeAt(n, i) == IF i = 0 THEN last[n] ELSE event[i].type

\* Whatever sessions come and go under it, the events of a name are those of
\* one user after the other: a join, messages, a leave.  Of two successive
\* ones, the second is a join if and only if the first is a leave.
JoinMessagesLeave ==
  \A n \in Names : \A j \in DOMAIN event : \A i \in 0..(j - 1) :
    /\ event[j].user = n /\ About(n, i)
    /\ \A k \in (i + 1)..(j - 1) : event[k].user # n
    => (event[j].type = "join" <=> TypeAt(n, i) = "leave")

\* When the looper has nothing to do and nobody is about to enter or to leave,
\* every peer that can still be written to knows who is in the room, whatever
\* it has missed or heard twice before its list came.
ViewsConverge ==
  looper = "take" /\ event = <<>> /\ usersLock = {} =>
    \A s \in Members \cap ok : main[s] = "run" => view[s] = Others(s)

\* usersLock is held by a session that waits for room in the full channel, ...
FullChannelBlocks ==
  ~HasRoom /\ \E s \in Sessions : main[s] \in {"join", "leave"}

\* ... or while a write waits for a peer that does not read.
PeerBlocks ==
  \/ looper = "send" /\ pending \cap ok # {}
  \/ \E s \in Sessions : main[s] = "list" /\ s \in ok

\* A session whose connection has ended leaves the room, unless the lock is
\* held over one of the two waits, or its own reader waits for room.
LeaversLeave ==
  \A s \in Sessions :
    main[s] = "run" /\ s \notin ok ~>
      main[s] = "gone" \/ FullChannelBlocks \/ PeerBlocks \/ (~HasRoom /\ reader[s] = "say")
=============================================================================
