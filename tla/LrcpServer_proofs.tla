-------------------------- MODULE LrcpServer_proofs --------------------------
(***************************************************************************)
(* Proofs about LrcpServer: no session is orphaned, for any set of session *)
(* numbers, sessions and datagrams.                                        *)
(***************************************************************************)
EXTENDS LrcpServer, FiniteSetTheorems, TLAPS

Steps == {"idle", "run", "line", "connect", "get", "signal", "deliver", "remove",
          "cancel", "wait", "done"}

\* The map, the sessions and what a goroutine does; a datagram that is being
\* handled has a session number, and an ack that waits for a sender a session.
ServerTyped ==
  /\ sessions \in [Numbers -> Objects \cup {NoSession}]
  /\ Created \subseteq Objects /\ number \in [Created -> Numbers]
  /\ step \in [Removers -> Steps]
  /\ target \in [Removers -> Objects \cup {NoSession}]
  /\ of = [d \in Datagrams |-> of[d]]
  /\ \A d \in Datagrams : step[d] # "idle" => of[d] \in Numbers
  /\ \A d \in Datagrams : step[d] = "signal" => target[d] \in Objects

\* A session in the map is in it under its own number.
MapAgrees ==
  \A n \in Numbers : sessions[n] # NoSession =>
    sessions[n] \in Created /\ number[sessions[n]] = n

\* A session that is not created yet has no goroutine.
FreshAreIdle == \A o \in Objects \ Created : step[o] = "idle"

Connecting == {e \in Datagrams : step[e] = "connect"}

\* A connect finds a session object to create.
ConnectsHaveObjects == Cardinality(Connecting) <= Cardinality(Objects \ Created)

\* The inductive invariant.
IInv == ServerTyped /\ MapAgrees /\ FreshAreIdle /\ ConnectsHaveObjects /\ NoOrphanSession

\* There is no session at the start.
LEMMA InitIInv == ServerInit => IInv
<1> SUFFICES ASSUME ServerInit PROVE IInv
  OBVIOUS
<1> USE DEF ServerInit
<1>1. Created = {}
  BY DEF Created
<1>2. ServerTyped
  <2> DEFINE some == CHOOSE n \in Numbers : TRUE
  <2>1. of = [d \in Datagrams |-> some]
    OBVIOUS
  <2> HIDE DEF some
  <2>2. of = [d \in Datagrams |-> of[d]]
    BY <2>1
  <2>3. number \in [Created -> Numbers]
    BY <1>1
  <2> QED
    BY <1>1, <2>2, <2>3 DEF ServerTyped, Removers, Steps
<1>3. Connecting = {}
  BY DEF Connecting, Removers
<1>4. ConnectsHaveObjects
  <2>1. IsFiniteSet(Objects \ Created)
    BY <1>1, FiniteAssumption, FS_Difference
  <2> QED
    BY <1>3, <2>1, FS_EmptySet, FS_CardinalityType DEF ConnectsHaveObjects
<1> QED
  BY <1>1, <1>2, <1>4 DEF IInv, MapAgrees, FreshAreIdle, NoOrphanSession, Removers

----------------------------------------------------------------------------
\* A step that leaves the sessions and their goroutines alone, and takes no
\* cancellation back.
LEMMA SameSessions ==
  ASSUME IInv, UNCHANGED sessionVars, serverDone => serverDone'
  PROVE  IInv'
BY DEF IInv, ServerTyped, MapAgrees, FreshAreIdle, ConnectsHaveObjects, Connecting,
   NoOrphanSession, CtxDone, Created, sessionVars

\* The next datagram of the reader; the bound on connects keeps an object for
\* each of them.
LEMMA ReadStep ==
  ASSUME IInv, NEW d \in Datagrams, NEW kind \in {"connect", "get"}, NEW n \in Numbers,
         ReadDatagram(d, kind, n)
  PROVE  IInv'
<1> USE DEF IInv, ReadDatagram, GoTo
<1>1. d \in Removers /\ d \notin Objects
  BY ProcessAssumption DEF Removers
<1>2. Created' = Created
  BY DEF Created
<1>3. ServerTyped' /\ MapAgrees' /\ FreshAreIdle'
  BY <1>1, <1>2 DEF ServerTyped, MapAgrees, FreshAreIdle, Removers, Steps
<1>4. ConnectsHaveObjects'
  <2>1. CASE kind = "get"
    <3>1. Connecting' = Connecting
      BY <1>1, <2>1 DEF Connecting, ServerTyped
    <3> QED
      BY <1>2, <3>1 DEF ConnectsHaveObjects
  <2>2. CASE kind = "connect"
    <3>1. Connecting' = Connecting \cup {d} /\ d \notin Connecting
      BY <1>1, <2>2 DEF Connecting, ServerTyped
    <3>2. IsFiniteSet(Connecting)
      BY FiniteAssumption, FS_Subset DEF Connecting
    <3>3. Cardinality(Connecting') = Cardinality(Connecting) + 1
      BY <3>1, <3>2, FS_AddElement
    <3>4. /\ Cardinality(Connecting) \in Nat
          /\ Cardinality(Objects \ Created) \in Nat
      BY <3>2, FiniteAssumption, FS_CardinalityType, FS_Difference
    <3>5. Cardinality(Connecting) < Cardinality(Objects \ Created)
      BY <2>2 DEF Connecting
    <3> QED
      BY <1>2, <3>3, <3>4, <3>5 DEF ConnectsHaveObjects
  <2> QED
    BY <2>1, <2>2
<1>5. NoOrphanSession'
  BY <1>1, <1>2 DEF NoOrphanSession, CtxDone, ServerTyped
<1> QED
  BY <1>3, <1>4, <1>5

\* A goroutine goes on, where no session object is created or awaited and the map
\* keeps what it has.
LEMMA GoToStep ==
  ASSUME IInv, NEW p \in Removers, NEW s \in Steps \ {"connect"},
         GoTo(p, s), step[p] # "connect", p \in Objects => p \in Created,
         s # "idle" => step[p] # "idle", s = "signal" => target'[p] \in Objects,
         step[p] = "cancel" => target[p] \in sessDone',
         target' \in [Removers -> Objects \cup {NoSession}],
         \A q \in Removers : q # p => target'[q] = target[q],
         sessDone \subseteq sessDone',
         UNCHANGED <<serverDone, sessions, number, of>>
  PROVE  IInv'
<1> USE DEF IInv, GoTo
<1>1. Created' = Created
  BY DEF Created
<1>2. ServerTyped' /\ MapAgrees' /\ FreshAreIdle'
  BY <1>1 DEF ServerTyped, MapAgrees, FreshAreIdle, Removers
<1>3. Connecting' = Connecting
  BY DEF Connecting, ServerTyped, Removers
<1>4. NoOrphanSession'
  <2> SUFFICES ASSUME NEW o \in Created, ~serverDone, o \notin sessDone',
                      sessions[number[o]] # o
               PROVE  \E q \in Removers : step'[q] = "cancel" /\ target'[q] = o
    BY <1>1 DEF NoOrphanSession, CtxDone
  <2>1. PICK q \in Removers : step[q] = "cancel" /\ target[q] = o
    BY DEF NoOrphanSession, CtxDone
  <2>2. q # p
    BY <2>1
  <2>3. step'[q] = "cancel" /\ target'[q] = o
    BY <2>1, <2>2 DEF ServerTyped
  <2> QED
    BY <2>3
<1> QED
  BY <1>1, <1>2, <1>3, <1>4 DEF ConnectsHaveObjects

\* The sender takes an ack from its handler and goes on, within its line or not.
LEMMA TakeAckStep ==
  ASSUME IInv, NEW d \in Datagrams, TakeAck(d)
  PROVE  IInv'
<1> USE DEF IInv, TakeAck
<1> DEFINE o == target[d]
<1>1. d \in Removers /\ d \notin Objects /\ step[d] = "signal" /\ o \in Objects
      /\ step[o] = "line" /\ o \in Removers /\ o # d
  BY ProcessAssumption DEF Removers, ServerTyped
<1>2. o \in Created
  BY <1>1 DEF FreshAreIdle
<1>3. PICK s \in {"line", "run"} : step' = [step EXCEPT ![d] = "idle", ![o] = s]
  OBVIOUS
<1>4. target' = [target EXCEPT ![d] = NoSession]
      /\ UNCHANGED <<serverDone, sessDone, sessions, number, of>>
  OBVIOUS
<1> HIDE DEF o, TakeAck
<1>5. Created' = Created
  BY <1>4 DEF Created
<1>6. /\ step' \in [Removers -> Steps] /\ step'[d] = "idle" /\ step'[o] = s
      /\ \A q \in Removers : q # d /\ q # o => step'[q] = step[q]
  BY <1>1, <1>3 DEF ServerTyped, Steps
<1>7. \A q \in Removers : q # d => target'[q] = target[q]
  BY <1>1, <1>4 DEF ServerTyped
<1>8. ServerTyped'
  <2>1. target' \in [Removers -> Objects \cup {NoSession}]
    BY <1>4 DEF ServerTyped
  <2>2. \A e \in Datagrams : e \in Removers /\ e # o
    BY <1>1, ProcessAssumption DEF Removers
  <2>3. \A e \in Datagrams : step'[e] # "idle" => step'[e] = step[e] /\ target'[e] = target[e]
    BY <1>6, <1>7, <2>2
  <2> QED
    BY <1>4, <1>5, <1>6, <2>1, <2>3 DEF ServerTyped
<1>9. MapAgrees' /\ FreshAreIdle'
  BY <1>1, <1>2, <1>4, <1>5, <1>6 DEF MapAgrees, FreshAreIdle, Removers
<1>10. Connecting' = Connecting
  BY <1>1, <1>6, ProcessAssumption DEF Connecting, Removers
<1>11. NoOrphanSession'
  <2>1. \A q \in Removers : step[q] = "cancel" => step'[q] = "cancel" /\ target'[q] = target[q]
    BY <1>1, <1>6, <1>7
  <2> QED
    BY <1>4, <1>5, <2>1 DEF NoOrphanSession, CtxDone
<1> QED
  BY <1>5, <1>8, <1>9, <1>10, <1>11 DEF ConnectsHaveObjects

\* GetOrCreate finds a session or makes a new one, which is in the map.
LEMMA ConnectStep ==
  ASSUME IInv, NEW d \in Datagrams, GetOrCreate(d)
  PROVE  IInv'
<1> USE DEF IInv, GetOrCreate, Found, GoTo
<1>1. d \in Removers /\ d \notin Objects /\ of[d] \in Numbers /\ d \in Connecting
  BY ProcessAssumption DEF Removers, ServerTyped, Connecting
<1>2. IsFiniteSet(Connecting) /\ IsFiniteSet(Objects \ Created)
  BY FiniteAssumption, FS_Subset, FS_Difference DEF Connecting
<1>3. /\ Cardinality(Connecting) \in Nat /\ Cardinality(Objects \ Created) \in Nat
      /\ Cardinality(Connecting \ {d}) = Cardinality(Connecting) - 1
  BY <1>1, <1>2, FS_CardinalityType, FS_RemoveElement
<1>4. CASE sessions[of[d]] # NoSession
  <2>1. Created' = Created
    BY <1>4 DEF Created
  <2>2. ServerTyped' /\ MapAgrees' /\ FreshAreIdle'
    BY <1>1, <1>4, <2>1 DEF ServerTyped, MapAgrees, FreshAreIdle, Removers, Steps
  <2>3. Connecting' = Connecting \ {d}
    BY <1>1, <1>4 DEF Connecting, ServerTyped, Removers
  <2>4. NoOrphanSession'
    <3>1. \A q \in Removers : step[q] = "cancel" => step'[q] = "cancel"
      BY <1>1, <1>4 DEF ServerTyped
    <3>2. UNCHANGED <<sessions, number, target, serverDone, sessDone>>
      BY <1>4
    <3> QED
      BY <2>1, <3>1, <3>2 DEF NoOrphanSession, CtxDone
  <2> QED
    BY <1>3, <2>1, <2>2, <2>3, <2>4 DEF ConnectsHaveObjects
<1>5. CASE sessions[of[d]] = NoSession
  <2> DEFINE o == CHOOSE x \in Objects : x \notin Created
  <2>1. o \in Objects /\ o \notin Created
    <3>1. Cardinality(Connecting) # 0
      BY <1>1, <1>2, FS_EmptySet
    <3>2. Cardinality(Objects \ Created) # 0
      BY <1>3, <3>1 DEF ConnectsHaveObjects
    <3>3. Objects \ Created # {}
      BY <1>2, <3>2, FS_EmptySet
    <3> QED
      BY <3>3
  <2> HIDE DEF o
  <2>2. /\ sessions' = [sessions EXCEPT ![of[d]] = o]
        /\ number' = [x \in Created \cup {o} |-> IF x = o THEN of[d] ELSE number[x]]
        /\ step' = [step EXCEPT ![d] = "idle", ![o] = "run"]
        /\ UNCHANGED <<serverDone, sessDone, of, target>>
    BY <1>5 DEF o
  <2> HIDE DEF GetOrCreate
  <2>3. Created' = Created \cup {o}
    BY <2>2 DEF Created
  <2>4. o \in Removers /\ o # d /\ o \notin Datagrams /\ o # NoSession
    BY <1>1, <2>1, ProcessAssumption, NoSessionAssumption DEF Removers
  <2>5. ServerTyped'
    BY <1>1, <2>1, <2>2, <2>3, <2>4 DEF ServerTyped, Removers, Steps
  <2>6. MapAgrees' /\ FreshAreIdle'
    BY <1>1, <2>1, <2>2, <2>3, <2>4 DEF ServerTyped, MapAgrees, FreshAreIdle, Removers
  <2>7. Connecting' = Connecting \ {d}
    BY <1>1, <2>2, <2>4 DEF Connecting, ServerTyped, Removers
  <2>8. Cardinality((Objects \ Created)') = Cardinality(Objects \ Created) - 1
    <3>1. (Objects \ Created)' = (Objects \ Created) \ {o}
      BY <2>3
    <3> QED
      BY <1>2, <2>1, <3>1, FS_RemoveElement
  <2>9. NoOrphanSession'
    <3>1. sessions'[number'[o]] = o
      BY <1>1, <2>2 DEF ServerTyped
    <3>2. \A q \in Removers : step[q] = "cancel" => step'[q] = "cancel"
      BY <1>1, <2>1, <2>2, <2>4 DEF ServerTyped, FreshAreIdle, Connecting
    <3>3. ASSUME NEW x \in Created, sessions[number[x]] = x
          PROVE  sessions'[number'[x]] = x
      <4>1. number[x] # of[d] /\ number'[x] = number[x] /\ number[x] \in Numbers
        BY <1>5, <2>1, <2>2, <3>3, NoSessionAssumption DEF ServerTyped
      <4> QED
        BY <2>2, <3>3, <4>1 DEF ServerTyped
    <3> SUFFICES ASSUME NEW x \in Created', ~serverDone, x \notin sessDone,
                        sessions'[number'[x]] # x
                 PROVE  \E q \in Removers : step'[q] = "cancel" /\ target'[q] = x
      BY <2>2 DEF NoOrphanSession, CtxDone
    <3>4. x \in Created /\ sessions[number[x]] # x
      BY <2>3, <3>1, <3>3
    <3>5. PICK q \in Removers : step[q] = "cancel" /\ target[q] = x
      BY <3>4 DEF NoOrphanSession, CtxDone
    <3> QED
      BY <2>2, <3>2, <3>5
  <2> QED
    BY <1>3, <2>5, <2>6, <2>7, <2>8, <2>9 DEF ConnectsHaveObjects
<1> QED
  BY <1>4, <1>5

\* Remove takes a session out of the map, whichever it is, and will cancel it.
LEMMA RemoveStepKeeps ==
  ASSUME IInv, NEW p \in Removers, RemoveSession(p)
  PROVE  IInv'
<1> DEFINE n == NumberOf(p)
<1> USE DEF IInv, RemoveSession, GoTo
<1>1. n \in Numbers
  BY DEF NumberOf, ServerTyped, FreshAreIdle, Removers
<1> HIDE DEF n
<1>2. /\ sessions' = [sessions EXCEPT ![n] = NoSession]
      /\ target' = [target EXCEPT ![p] = sessions[n]]
      /\ step' = [step EXCEPT ![p] = IF sessions[n] = NoSession THEN AfterClose(p)
                                     ELSE "cancel"]
      /\ step[p] = "remove"
      /\ UNCHANGED <<serverDone, number, sessDone, of>>
  BY DEF n
<1>3. AfterClose(p) \in {"idle", "run"}
  BY DEF AfterClose
<1>4. Created' = Created
  BY <1>2 DEF Created
<1>5. ServerTyped'
  <2>1. sessions' \in [Numbers -> Objects \cup {NoSession}]
    BY <1>1, <1>2 DEF ServerTyped
  <2>2. target' \in [Removers -> Objects \cup {NoSession}]
    BY <1>1, <1>2 DEF ServerTyped
  <2>3. step' \in [Removers -> Steps]
    BY <1>2, <1>3 DEF ServerTyped, Steps
  <2>4. \A d \in Datagrams :
          /\ step'[d] # "idle" => step[d] # "idle"
          /\ step'[d] = "signal" => step[d] = "signal" /\ target'[d] = target[d]
    BY <1>2, <1>3 DEF ServerTyped, Removers
  <2> QED
    BY <1>2, <1>4, <2>1, <2>2, <2>3, <2>4 DEF ServerTyped
<1>6. MapAgrees' /\ FreshAreIdle'
  BY <1>1, <1>2, <1>3, <1>4 DEF ServerTyped, MapAgrees, FreshAreIdle, Removers
<1>7. Connecting' = Connecting
  BY <1>2, <1>3 DEF Connecting, ServerTyped, Removers
<1>8. NoOrphanSession'
  <2> SUFFICES ASSUME NEW o \in Created, ~serverDone, o \notin sessDone,
                      sessions'[number[o]] # o
               PROVE  \E q \in Removers : step'[q] = "cancel" /\ target'[q] = o
    BY <1>2, <1>4 DEF NoOrphanSession, CtxDone
  <2>1. o # NoSession /\ number[o] \in Numbers
    BY NoSessionAssumption DEF ServerTyped
  <2>2. CASE sessions[number[o]] = o
    <3>1. number[o] = n
      BY <1>1, <1>2, <2>1, <2>2 DEF ServerTyped
    <3>2. step'[p] = "cancel" /\ target'[p] = o
      BY <1>2, <2>1, <2>2, <3>1 DEF ServerTyped
    <3> QED
      BY <3>2
  <2>3. CASE sessions[number[o]] # o
    <3>1. PICK q \in Removers : step[q] = "cancel" /\ target[q] = o
      BY <2>3 DEF NoOrphanSession, CtxDone
    <3>2. step'[q] = "cancel" /\ target'[q] = o
      BY <1>2, <3>1 DEF ServerTyped
    <3> QED
      BY <3>2
  <2> QED
    BY <2>2, <2>3
<1> QED
  BY <1>4, <1>5, <1>6, <1>7, <1>8 DEF ConnectsHaveObjects

\* sessionManager.Shutdown empties the map and cancels what was in it.
LEMMA ShutdownStepKeeps ==
  ASSUME IInv, ShutdownSessions
  PROVE  IInv'
<1> USE DEF IInv, ShutdownSessions
<1>1. Created' = Created
  BY DEF Created
<1>2. ServerTyped' /\ MapAgrees' /\ FreshAreIdle'
  BY <1>1 DEF ServerTyped, MapAgrees, FreshAreIdle, Removers
<1>3. Connecting' = Connecting
  BY DEF Connecting
<1>4. NoOrphanSession'
  <2> SUFFICES ASSUME NEW o \in Created, sessions[number[o]] = o
               PROVE  o \in sessDone'
    BY <1>1 DEF NoOrphanSession, CtxDone
  <2>1. number[o] \in Numbers /\ o # NoSession
    BY NoSessionAssumption DEF ServerTyped
  <2> QED
    BY <2>1
<1> QED
  BY <1>1, <1>2, <1>3, <1>4 DEF ConnectsHaveObjects

----------------------------------------------------------------------------
\* The inductive invariant of the server and its sessions holds in every state.
THEOREM InvariantHolds == ServerSpec => []IInv
<1>1. IInv /\ [ServerNext]_serverVars => IInv'
  <2> SUFFICES ASSUME IInv, [ServerNext]_serverVars PROVE IInv'
    OBVIOUS
  <2>1. CASE \/ ListenStarts \/ ListenStep \/ ReaderStep \/ ReadFailed \/ CloseServerConn
             \/ Shutdown \/ SessionsShut \/ ShutdownReturns \/ UNCHANGED serverVars
    <3>1. UNCHANGED sessionVars
      BY <2>1 DEF ListenStarts, ListenStep, SetCancel, Bind, BindFails, SetManager,
         ListenStops, ReaderStep, ReaderStops, ReaderDone, ReadFailed,
         CloseServerConn, Shutdown, SessionsShut, ShutdownReturns, serverVars
    <3>2. serverDone' = serverDone \/ serverDone' = (serverDone \/ CancelSet)
          \/ serverDone' = TRUE
      BY <2>1 DEF ListenStarts, ListenStep, SetCancel, Bind, BindFails, SetManager,
         ListenStops, ReaderStep, ReaderStops, ReaderDone, ContextCancelled, ReadFailed,
         CloseServerConn, Shutdown, SessionsShut, ShutdownReturns, serverVars
    <3>3. serverDone => serverDone'
      BY <3>2, Zenon
    <3> QED
      BY <3>1, <3>3, SameSessions
  <2>2. ASSUME NEW d \in Datagrams, NEW next \in Outcomes, GetSession(d, next) PROVE IInv'
    <3> DEFINE o == sessions[of[d]]
               waits == o # NoSession /\ next \in {"signal", "deliver"}
               s == IF o = NoSession THEN "idle" ELSE next
    <3>1. d \in Removers /\ d \notin Objects /\ step[d] = "get" /\ o \in Objects \cup {NoSession}
      BY <2>2, ProcessAssumption DEF GetSession, Removers, IInv, ServerTyped
    <3>2. target' = [target EXCEPT ![d] = IF waits THEN o ELSE NoSession]
          /\ GoTo(d, s) /\ UNCHANGED <<serverDone, sessDone, sessions, number, of>>
      BY <2>2 DEF GetSession
    <3>3. s \in Steps \ {"connect"}
      BY DEF Outcomes, Steps
    <3>4. /\ target' \in [Removers -> Objects \cup {NoSession}]
          /\ \A q \in Removers : q # d => target'[q] = target[q]
          /\ s = "signal" => target'[d] \in Objects
      BY <3>1, <3>2 DEF IInv, ServerTyped
    <3> HIDE DEF o, waits, s
    <3> QED
      BY <3>1, <3>2, <3>3, <3>4, GoToStep
  <2>3. ASSUME NEW p \in Removers, RemoveCancels(p) PROVE IInv'
    BY <2>3, GoToStep DEF RemoveCancels, CancelCtx, IInv, ServerTyped, FreshAreIdle, Steps
  <2>4. ASSUME NEW p \in Removers, RemoveReturns(p) PROVE IInv'
    <3>1. AfterClose(p) \in {"idle", "run"}
      BY DEF AfterClose
    <3> QED
      BY <2>4, <3>1, GoToStep DEF RemoveReturns, IInv, ServerTyped, FreshAreIdle, Steps
  <2>5. ASSUME NEW o \in Objects, WorkerEnds(o) PROVE IInv'
    BY <2>5 DEF WorkerEnds, IInv, ServerTyped, MapAgrees, FreshAreIdle,
       ConnectsHaveObjects, Connecting, NoOrphanSession, CtxDone, Created
  <2>6. ASSUME NEW o \in Objects, SenderStep(o) \/ SenderTakesLine(o) PROVE IInv'
    BY <2>6, GoToStep DEF SenderStep, SenderEnds, LineCancelled, SenderTimesOut,
       SenderTakesLine, Removers, IInv, ServerTyped, Steps
  <2>7. ASSUME NEW d \in Datagrams, TakeData(d) \/ WaitEnds(d) PROVE IInv'
    BY <2>7, ProcessAssumption, GoToStep DEF TakeData, WaitEnds, Removers, IInv,
       ServerTyped, Steps
  <2> QED
    BY <2>1, <2>2, <2>3, <2>4, <2>5, <2>6, <2>7, ReadStep, ConnectStep, TakeAckStep,
       RemoveStepKeeps, ShutdownStepKeeps
       DEF ServerNext, DatagramStep, RemoveStep, ShutdownStep
<1> QED
  BY InitIInv, <1>1, PTL DEF ServerSpec

\* No connect, no close of an earlier session of the same number and no
\* Shutdown leaves a live session outside of the map.
THEOREM NoOrphans == ServerSpec => []NoOrphanSession
<1>1. IInv => NoOrphanSession
  BY DEF IInv
<1> QED
  BY InvariantHolds, <1>1, PTL
=============================================================================
