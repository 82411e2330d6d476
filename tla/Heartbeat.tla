----------------------------- MODULE Heartbeat -----------------------------
(***************************************************************************)
(* The heartbeats of one session of the speed daemon.  Every WantHeartbeat *)
(* runs HandleHeartBeat in a goroutine of its own, which takes the next    *)
(* heartBeatID and writes until the ID is no longer its own.  The IDs are  *)
(* taken in the order in which the goroutines happen to run, and wrap.     *)
(***************************************************************************)
EXTENDS Naturals, FiniteSets

CONSTANTS Wants,        \* the WantHeartbeat messages, one goroutine each
          HeartBeatIDs  \* the number of values of heartBeatID, a uint8: 2^8

ASSUME IDsAssumption == HeartBeatIDs \in Nat \ {0}

VARIABLES
  heartBeatID,
  beat,       \* per message: "none", "started", "check", "lock" (at
              \* connWriteLock), "write", "sleep", "done"
  interval,   \* per message: 0 or 1, none or some deciseconds
  hbID,       \* per message: the ID that its goroutine took
  taken,      \* history: the messages whose goroutine has taken an ID
  sess,       \* Start: "reading", "ended" (its context is done), "gone"
  sockOpen    \* the connection is open; closed by the closer

beatVars == <<heartBeatID, beat, interval, hbID, taken>>
heartbeatVars == <<beatVars, sess, sockOpen>>

HeartbeatInit ==
  /\ heartBeatID = 0
  /\ beat = [w \in Wants |-> "none"]
  /\ interval = [w \in Wants |-> 0]
  /\ hbID = [w \in Wants |-> 0]
  /\ taken = {}
  /\ sess = "reading" /\ sockOpen = TRUE

BeatGoesTo(w, s) == beat' = [beat EXCEPT ![w] = s]

----------------------------------------------------------------------------
\* HandleRequest of a WantHeartbeat.
WantHeartbeat(w, i) ==
  /\ sess = "reading" /\ beat[w] = "none"
  /\ BeatGoesTo(w, "started")
  /\ interval' = [interval EXCEPT ![w] = i]
  /\ UNCHANGED <<heartBeatID, hbID, taken, sess, sockOpen>>

\* Mutant: the ID stays as it is.
SameHeartBeatID == heartBeatID

NextHeartBeatID == (heartBeatID + 1) % HeartBeatIDs

\* Under heartBeatLock.  A message with no interval has done its work then:
\* the ID of the goroutine before it is no longer the current one.
TakeHeartBeatID(w) ==
  /\ beat[w] = "started"
  /\ heartBeatID' = NextHeartBeatID
  /\ hbID' = [hbID EXCEPT ![w] = NextHeartBeatID]
  /\ taken' = taken \cup {w}
  /\ BeatGoesTo(w, IF interval[w] = 0 THEN "done" ELSE "check")
  /\ UNCHANGED <<interval, sess, sockOpen>>

\* Mutant: the goroutine goes on whatever the ID.
AlwaysCurrent(w) == TRUE

IsCurrent(w) == hbID[w] = heartBeatID

CheckHeartBeatID(w) ==
  /\ beat[w] = "check"
  /\ BeatGoesTo(w, IF IsCurrent(w) THEN "lock" ELSE "done")
  /\ UNCHANGED <<heartBeatID, interval, hbID, taken, sess, sockOpen>>

LockConnWrite(w) ==
  /\ beat[w] = "lock"
  /\ \A v \in Wants : beat[v] # "write"
  /\ BeatGoesTo(w, "write")
  /\ UNCHANGED <<heartBeatID, interval, hbID, taken, sess, sockOpen>>

\* hb.Marshal; it blocks while the peer does not read, with the lock held.
WriteHeartbeat(w) ==
  /\ beat[w] = "write" /\ sockOpen
  /\ BeatGoesTo(w, "sleep")
  /\ UNCHANGED <<heartBeatID, interval, hbID, taken, sess, sockOpen>>

WriteHeartbeatFails(w) ==
  /\ beat[w] = "write" /\ ~sockOpen
  /\ BeatGoesTo(w, "done")
  /\ UNCHANGED <<heartBeatID, interval, hbID, taken, sess, sockOpen>>

\* The select: the timer, or the context, or either of them.
BeatSleeps(w) ==
  /\ beat[w] = "sleep"
  /\ \/ BeatGoesTo(w, "check")
     \/ sess = "ended" /\ BeatGoesTo(w, "done")
  /\ UNCHANGED <<heartBeatID, interval, hbID, taken, sess, sockOpen>>

\* Start returns, after an error or because the server stops.
StartEnds ==
  /\ sess = "reading"
  /\ sess' = "ended"
  /\ UNCHANGED <<beatVars, sockOpen>>

CloseSock ==
  /\ sess = "ended" /\ sockOpen
  /\ sockOpen' = FALSE
  /\ UNCHANGED <<beatVars, sess>>

\* The deferred s.wg.Wait of Start.
StartReturns ==
  /\ sess = "ended" /\ ~sockOpen
  /\ \A w \in Wants : beat[w] \in {"none", "done"}
  /\ sess' = "gone"
  /\ UNCHANGED <<beatVars, sockOpen>>

----------------------------------------------------------------------------
BeatStep(w) == \/ TakeHeartBeatID(w) \/ CheckHeartBeatID(w) \/ LockConnWrite(w)
               \/ WriteHeartbeatFails(w) \/ BeatSleeps(w)

HeartbeatNext ==
  \/ \E w \in Wants :
       \/ \E i \in {0, 1} : WantHeartbeat(w, i)
       \/ BeatStep(w) \/ WriteHeartbeat(w)
  \/ StartEnds \/ CloseSock \/ StartReturns

\* Go runs every goroutine that is not blocked, time passes, and sync.Mutex
\* starves no one (hence SF).  Nothing is assumed of the peer.
HeartbeatFairness ==
  /\ \A w \in Wants : WF_heartbeatVars(BeatStep(w)) /\ SF_heartbeatVars(LockConnWrite(w))
  /\ WF_heartbeatVars(CloseSock) /\ WF_heartbeatVars(StartReturns)

HeartbeatSpec == HeartbeatInit /\ [][HeartbeatNext]_heartbeatVars /\ HeartbeatFairness

----------------------------------------------------------------------------
(* Properties *)

\* The goroutines that will write again.
Beating == {w \in taken : beat[w] # "done" /\ IsCurrent(w)}

\* However the goroutines of several WantHeartbeat messages interleave, at most
\* one of them keeps a heartbeat going, until heartBeatID has wrapped around.
OneHeartbeat == Cardinality(taken) <= HeartBeatIDs => Cardinality(Beating) <= 1

\* The peer goes on reading: no write lasts for ever.
PeerReads == \A w \in Wants : []<>~(beat[w] = "write" /\ sockOpen)

\* A goroutine whose ID was taken over ends, unless the ID comes round again or
\* the peer stops to read; and a session that has ended goes away.
OldBeatsEnd ==
  /\ PeerReads => \A w \in Wants :
       w \in taken /\ hbID[w] # heartBeatID ~>
         beat[w] = "done" \/ hbID[w] = heartBeatID
  /\ sess = "ended" ~> sess = "gone"
=============================================================================
