-------------------------- MODULE JobCentre_proofs --------------------------
(***************************************************************************)
(* Proofs about JobCentre: its invariants hold for any number of clients,  *)
(* queues, priorities and jobs.                                            *)
(***************************************************************************)
EXTENDS JobCentre, TLAPS

\* A step of Next is one of the actions, for one of the clients.
LEMMA NextCases ==
  ASSUME TypeOK, Next
  PROVE  \E c \in Clients :
           \/ OnClientConnected(c) \/ Cancel(c) \/ WorkerExit(c)
           \/ \E q \in Queues, p \in Priorities : PutJob(c, q, p)
           \/ PutPush(c)
           \/ \E qs, ws \in SUBSET Queues, wait \in BOOLEAN :
                /\ pc[c] \in {"idle", "wait"}
                /\ PopRound(c, qs, ws, wait)
                /\ UNCHANGED <<jobID, handlerVars, ctxDone, deleted>>
           \/ GetRegister(c)
           \/ \E i \in JobIDs : \/ DeleteJob(c, i) \/ AbortJob(c, i)
                                \/ DisconnectPush(c, i)
           \/ DisconnectLock(c) \/ DisconnectDone(c)
<1>1. PICK c \in Clients :
        OnClientConnected(c) \/ Request(c) \/ Cancel(c) \/ Worker(c) \/ Teardown(c)
  BY DEF Next
<1>2. asked[c] \in SUBSET Queues /\ valid[c] \in SUBSET Queues
  BY DEF TypeOK
<1>3. ASSUME NEW qs \in SUBSET Queues, NEW wait \in BOOLEAN, GetJob(c, qs, wait)
      PROVE  \E ws \in SUBSET Queues :
                /\ pc[c] \in {"idle", "wait"}
                /\ PopRound(c, qs, ws, wait)
                /\ UNCHANGED <<jobID, handlerVars, ctxDone, deleted>>
  <2> WITNESS qs \cap created \in SUBSET Queues
  <2> QED
    BY <1>3 DEF GetJob
<1>4. CASE PopAgain(c)
  BY <1>2, <1>4 DEF PopAgain
<1> QED
  BY <1>1, <1>3, <1>4 DEF Request, Worker, Teardown

\* The parts of a job and of an entry of inProgress.
LEMMA JobParts ==
  /\ \A j \in Job : j.queue \in Queues /\ j.id \in JobIDs
  /\ \A e \in jobClient : e.job \in Job /\ e.client \in Clients
  /\ \A j \in Job, c \in Clients : [job |-> j, client |-> c] \in jobClient
BY DEF Job, jobClient

\* Every critical section of the job centre leaves every variable in its type.
LEMMA TypeStep == IInv /\ [Next]_vars => TypeOK'
<1> SUFFICES ASSUME IInv, [Next]_vars PROVE TypeOK'
  OBVIOUS
<1> TypeOK
  BY DEF IInv
<1>0. \A c \in Clients : pc[c] \in {"put", "register"} => hand[c] \in Job
  BY DEF IInv, StepsAgree, TypeOK
<1> USE DEF TypeOK, queueVars, handlerVars, popVars, Answer, KeepLocals, PCs,
            Replies
<1>1. ASSUME NEW c \in Clients, OnClientConnected(c) PROVE TypeOK'
  BY <1>1 DEF OnClientConnected
<1>2. ASSUME NEW c \in Clients, NEW q \in Queues, NEW p \in Priorities,
             PutJob(c, q, p)
      PROVE TypeOK'
  <2>1. [queue |-> q, id |-> jobID + 1, pri |-> p] \in Job
    BY <1>2, MaxJobsAssumption DEF PutJob, NextID, Job, JobIDs
  <2>2. jobID' \in 0..MaxJobs
    BY <1>2, MaxJobsAssumption DEF PutJob, NextID
  <2> QED
    BY <1>2, <2>1, <2>2 DEF PutJob, NextID
<1>3. ASSUME NEW c \in Clients, PutPush(c) PROVE TypeOK'
  BY <1>0, <1>3, JobParts DEF PutPush, Push, Located, Woken
<1>4. ASSUME NEW c \in Clients, NEW qs \in SUBSET Queues,
             NEW ws \in SUBSET Queues, NEW wait \in BOOLEAN,
             PopRound(c, qs, ws, wait),
             UNCHANGED <<jobID, handlerVars, ctxDone, deleted>>
      PROVE TypeOK'
  <2>1. ASSUME NEW j \in Highest(ws) PROVE j \in Job
    BY <2>1 DEF Highest, Poppable
  <2> QED
    BY <1>4, <2>1, JobParts DEF PopRound
<1>5. ASSUME NEW c \in Clients, GetRegister(c) PROVE TypeOK'
  <2>1. hand[c] \in Job /\ hand[c].id \in JobIDs
    BY <1>0, <1>5, JobParts DEF GetRegister
  <2> QED
    BY <1>5, <2>1, JobParts DEF GetRegister
<1>6. ASSUME NEW c \in Clients, NEW i \in JobIDs, DeleteJob(c, i) PROVE TypeOK'
  <2>1. clientJob' \in [Clients -> SUBSET JobIDs]
    BY <1>6 DEF DeleteJob, ClientJobWithout
  <2>2. deleted' \in SUBSET JobIDs
    BY <1>6 DEF DeleteJob, ClientJobWithout
  <2>3. pc' \in [Clients -> PCs] /\ reply' \in [Clients -> Replies \cup {None}]
    BY <1>6 DEF DeleteJob, ClientJobWithout
  <2> QED
    BY <1>6, <2>1, <2>2, <2>3 DEF DeleteJob, ClientJobWithout
<1>7. ASSUME NEW c \in Clients, NEW i \in JobIDs, AbortJob(c, i) PROVE TypeOK'
  BY <1>7, JobParts DEF AbortJob, GiveBack, Push, Located, Woken,
     InProgress
<1>8. ASSUME NEW c \in Clients, NEW i \in JobIDs, DisconnectPush(c, i)
      PROVE TypeOK'
  BY <1>8, JobParts DEF DisconnectPush, GiveBack, Push, Located, Woken,
     InProgress
<1>9. ASSUME NEW c \in Clients, DisconnectLock(c) \/ DisconnectDone(c)
      PROVE TypeOK'
  BY <1>9 DEF DisconnectLock, DisconnectDone, Unlocked
<1>10. ASSUME NEW c \in Clients, Cancel(c) \/ WorkerExit(c) PROVE TypeOK'
  BY <1>10 DEF Cancel, WorkerExit, AtRest
<1>11. CASE UNCHANGED vars
  BY <1>11 DEF vars
<1>12. CASE Next
  <2> HIDE DEF TypeOK
  <2> QED
    BY <1>1, <1>2, <1>3, <1>4, <1>5, <1>6, <1>7, <1>8, <1>9, <1>10, <1>12,
       NextCases
<1> QED
  BY <1>11, <1>12

----------------------------------------------------------------------------
\* Push of a job that is in no heap keeps the locators exact and wakes all.
LEMMA PushQueues ==
  ASSUME IInv, NEW j \in Job, ~InQueue(j.id), Push(j)
  PROVE  /\ LocatorsAgree'
         /\ notifiers' = {}
         /\ queued' = queued \cup {j}
         /\ \A i \in JobIDs : InQueue(i)' <=> InQueue(i) \/ i = j.id
         /\ \A k, l \in queued' : k.id = l.id => k = l
<1> USE DEF IInv, TypeOK, Push, Located, Woken, InQueue
<1>1. j.id \in JobIDs /\ j # None
  BY JobParts, NoneAssumption
<1>2. LocatorsAgree'
  BY <1>1 DEF LocatorsAgree
<1> QED
  BY <1>1, <1>2 DEF NoJobTwice

\* A Pop or a Remove that takes a job out of its heap takes its locator too.
LEMMA TakeQueues ==
  ASSUME IInv, NEW j \in queued, queued' = queued \ {j},
         jobLocators' = [jobLocators EXCEPT ![j.id] = None]
  PROVE  /\ LocatorsAgree'
         /\ \A i \in JobIDs : InQueue(i)' <=> InQueue(i) /\ i # j.id
         /\ \A k, l \in queued' : k.id = l.id => k = l
<1> USE DEF IInv, TypeOK, InQueue
<1>1. j.id \in JobIDs /\ j \in Job
  BY JobParts
<1>2. \A k, l \in queued : k.id = l.id => k = l
  BY DEF NoJobTwice
<1>3. LocatorsAgree'
  <2>1. \A i \in JobIDs : jobLocators'[i] # None =>
          jobLocators'[i] \in queued' /\ jobLocators'[i].id = i
    BY <1>1, <1>2 DEF LocatorsAgree
  <2>2. \A k \in queued' : jobLocators'[k.id] = k
    BY <1>1, <1>2 DEF LocatorsAgree
  <2> QED
    BY <2>1, <2>2 DEF LocatorsAgree
<1> QED
  BY <1>1, <1>2, <1>3
----------------------------------------------------------------------------
(* Each action preserves the inductive invariant. *)

\* The steps that only move a goroutine, register a client, end its context or
\* take the handler's lock.
LEMMA ControlSteps ==
  ASSUME IInv, TypeOK', NEW c \in Clients,
         \/ OnClientConnected(c) \/ Cancel(c) \/ WorkerExit(c)
         \/ DisconnectLock(c) \/ DisconnectDone(c)
  PROVE  IInv'
<1> USE DEF IInv, TypeOK, queueVars, handlerVars, popVars, OnClientConnected,
            Cancel, WorkerExit, DisconnectLock, DisconnectDone, AtRest, Unlocked
<1>1. StepsAgree'
  BY NoneAssumption DEF StepsAgree, InProgress, PCs
<1>2. LocatorsAgree'
  BY DEF LocatorsAgree
<1>3. NoJobTwice'
  BY DEF NoJobTwice, InQueue, InHand, InProgress
<1>4. JobsConserved'
  BY DEF JobsConserved, InQueue, InHand, InProgress
<1>5. HoldersAgree'
  BY NoneAssumption DEF HoldersAgree, StepsAgree, InProgress
<1>6. NoSleepOnWork'
  BY DEF NoSleepOnWork, Poppable, PCs
<1> QED
  BY <1>1, <1>2, <1>3, <1>4, <1>5, <1>6

\* PutJob: the new ID is nowhere else.
LEMMA PutJobStep ==
  ASSUME IInv, TypeOK', NEW c \in Clients, NEW q \in Queues, NEW p \in Priorities,
         PutJob(c, q, p)
  PROVE  IInv'
<1> DEFINE j == [queue |-> q, id |-> jobID + 1, pri |-> p]
<1> USE DEF IInv, TypeOK, queueVars, handlerVars, popVars, PutJob, NextID
<1>1. j \in Job /\ j # None /\ j.id = jobID + 1
  BY MaxJobsAssumption, NoneAssumption DEF Job, JobIDs
<1>2. /\ jobID + 1 \in JobIDs /\ ~(jobID + 1 <= jobID)
      /\ ~InQueue(jobID + 1) /\ ~InProgress(jobID + 1)
      /\ \A d \in Clients : ~InHand(d, jobID + 1)
      /\ jobID + 1 \notin deleted
  BY MaxJobsAssumption DEF JobIDs, JobsConserved, StepsAgree
<1>3. \A d \in Clients, i \in JobIDs :
        InHand(d, i)' <=> IF d = c THEN i = jobID + 1 ELSE InHand(d, i)
  BY <1>1 DEF InHand
<1>4. \A i \in JobIDs : (InQueue(i)' <=> InQueue(i)) /\ (InProgress(i)' <=> InProgress(i))
  BY DEF InQueue, InProgress
<1>5. \A i \in JobIDs : ~InHand(c, i)
  BY DEF InHand, StepsAgree
<1>6. StepsAgree'
  BY <1>1, NoneAssumption DEF StepsAgree, InProgress, PCs, JobIDs
<1>7. LocatorsAgree'
  BY DEF LocatorsAgree
<1>8. NoJobTwice'
  BY <1>2, <1>3, <1>4, <1>5 DEF NoJobTwice
<1>9. JobsConserved'
  <2> SUFFICES ASSUME NEW i \in JobIDs
               PROVE  (i <= jobID' /\ i \notin deleted') <=>
                        (InQueue(i)' \/ InProgress(i)' \/ \E d \in Clients : InHand(d, i)')
    BY DEF JobsConserved
  <2>1. CASE i = jobID + 1
    BY <1>2, <1>3, <2>1
  <2>2. CASE i # jobID + 1
    <3>1. i <= jobID' <=> i <= jobID
      BY <2>2 DEF JobIDs
    <3>2. (\E d \in Clients : InHand(d, i)') <=> \E d \in Clients : InHand(d, i)
      BY <1>3, <1>5, <2>2
    <3> QED
      BY <1>4, <3>1, <3>2 DEF JobsConserved
  <2> QED
    BY <2>1, <2>2
<1>10. HoldersAgree'
  BY DEF HoldersAgree, InProgress
<1>11. NoSleepOnWork'
  BY DEF NoSleepOnWork, Poppable, PCs
<1> QED
  BY <1>6, <1>7, <1>8, <1>9, <1>10, <1>11
\* PutPush: the job goes from the worker's hand to its queue.
LEMMA PutPushStep ==
  ASSUME IInv, TypeOK', NEW c \in Clients, PutPush(c)
  PROVE  IInv'
<1> USE DEF IInv, TypeOK, handlerVars, popVars, PutPush, Answer
<1>1. hand[c] \in Job /\ hand[c].id \in JobIDs /\ InHand(c, hand[c].id)
  BY JobParts DEF StepsAgree, InHand
<1>2. /\ ~InQueue(hand[c].id) /\ ~InProgress(hand[c].id)
      /\ \A d \in Clients \ {c} : ~InHand(d, hand[c].id)
  BY <1>1 DEF NoJobTwice
<1>3. /\ LocatorsAgree' /\ notifiers' = {}
      /\ \A i \in JobIDs : InQueue(i)' <=> InQueue(i) \/ i = hand[c].id
      /\ \A k, l \in queued' : k.id = l.id => k = l
  BY <1>1, <1>2, PushQueues
<1>4. \A i \in JobIDs : InProgress(i)' <=> InProgress(i)
  BY DEF InProgress
<1>5. \A d \in Clients, i \in JobIDs : InHand(d, i)' <=> d # c /\ InHand(d, i)
  BY DEF InHand
<1>6. \A i \in JobIDs : InHand(c, i) <=> i = hand[c].id
  BY <1>1 DEF InHand
<1>7. StepsAgree'
  BY NoneAssumption DEF StepsAgree, InProgress, PCs
<1>8. NoJobTwice'
  BY <1>1, <1>2, <1>3, <1>4, <1>5, <1>6 DEF NoJobTwice
<1>9. JobsConserved'
  BY <1>1, <1>2, <1>3, <1>4, <1>5, <1>6 DEF JobsConserved
<1>10. HoldersAgree'
  BY DEF HoldersAgree, InProgress
<1>11. NoSleepOnWork'
  BY <1>3 DEF NoSleepOnWork
<1> QED
  BY <1>3, <1>7, <1>8, <1>9, <1>10, <1>11

\* One round of Pop: it fails, waits with nothing to take, or takes a job.
LEMMA PopRoundStep ==
  ASSUME IInv, TypeOK', NEW c \in Clients, NEW qs \in SUBSET Queues,
         NEW ws \in SUBSET Queues, NEW wait \in BOOLEAN,
         pc[c] \in {"idle", "wait"}, PopRound(c, qs, ws, wait),
         UNCHANGED <<jobID, handlerVars, ctxDone, deleted>>
  PROVE  IInv'
<1> USE DEF IInv, TypeOK, handlerVars, Answer, KeepLocals
<1>1. hand[c] = None
  BY DEF StepsAgree
<1>2. HoldersAgree'
  BY DEF HoldersAgree, InProgress
<1>3. CASE queued' = queued /\ jobLocators' = jobLocators /\ hand' = hand
  <2>0. \E a \in {"idle", "wait"} : pc' = [pc EXCEPT ![c] = a]
    <3>1. \A j \in Highest(ws) : j \in queued
      BY DEF Highest, Poppable
    <3> QED
      BY <1>3, <3>1 DEF PopRound
  <2>1. StepsAgree'
    BY <1>1, <1>3, <2>0, NoneAssumption DEF StepsAgree, InProgress, PCs
  <2>2. LocatorsAgree' /\ NoJobTwice' /\ JobsConserved'
    BY <1>3 DEF LocatorsAgree, NoJobTwice, JobsConserved, InQueue, InHand,
                InProgress
  <2>3. NoSleepOnWork'
    BY <1>3 DEF NoSleepOnWork, Poppable, PopRound, queueVars
  <2> QED
    BY <1>2, <2>1, <2>2, <2>3
<1>4. ASSUME NEW j \in Highest(ws),
             queued' = queued \ {j},
             jobLocators' = [jobLocators EXCEPT ![j.id] = None],
             hand' = [hand EXCEPT ![c] = j],
             pc' = [pc EXCEPT ![c] = "register"],
             valid' = [valid EXCEPT ![c] = {}],
             notifiers' = notifiers
      PROVE  IInv'
  <2>1. j \in queued /\ j \in Job /\ j.id \in JobIDs /\ j # None
    BY JobParts, NoneAssumption DEF Highest, Poppable
  <2>2. /\ LocatorsAgree'
        /\ \A i \in JobIDs : InQueue(i)' <=> InQueue(i) /\ i # j.id
        /\ \A k, l \in queued' : k.id = l.id => k = l
    BY <1>4, <2>1, TakeQueues
  <2>3. InQueue(j.id) /\ ~InProgress(j.id) /\ \A d \in Clients : ~InHand(d, j.id)
    BY <2>1 DEF InQueue, NoJobTwice
  <2>4. \A i \in JobIDs : InProgress(i)' <=> InProgress(i)
    BY DEF InProgress
  <2>5. \A d \in Clients, i \in JobIDs :
          InHand(d, i)' <=> IF d = c THEN i = j.id ELSE InHand(d, i)
    BY <1>4, <2>1 DEF InHand
  <2>6. \A i \in JobIDs : ~InHand(c, i)
    BY <1>1 DEF InHand
  <2>7. StepsAgree'
    BY <1>4, <2>1, NoneAssumption DEF StepsAgree, InProgress, PCs
  <2>8. NoJobTwice'
    BY <2>1, <2>2, <2>3, <2>4, <2>5, <2>6 DEF NoJobTwice
  <2>9. JobsConserved'
    BY <2>1, <2>2, <2>3, <2>4, <2>5, <2>6 DEF JobsConserved
  <2>10. NoSleepOnWork'
    BY <1>4 DEF NoSleepOnWork, Poppable, PCs
  <2> QED
    BY <1>2, <2>2, <2>7, <2>8, <2>9, <2>10
<1> QED
  BY <1>3, <1>4 DEF PopRound, queueVars

\* GetRegister: the job goes from the worker's hand to its client.
LEMMA GetRegisterStep ==
  ASSUME IInv, TypeOK', NEW c \in Clients, GetRegister(c)
  PROVE  IInv'
<1> DEFINE n == hand[c].id
<1> USE DEF IInv, TypeOK, queueVars, popVars, GetRegister, Answer
<1>1. hand[c] \in Job /\ n \in JobIDs /\ InHand(c, n)
  BY JobParts DEF StepsAgree, InHand
<1>2. /\ ~InQueue(n) /\ ~InProgress(n)
      /\ \A d \in Clients \ {c} : ~InHand(d, n)
  BY <1>1 DEF NoJobTwice
<1>3. /\ inProgress' = [inProgress EXCEPT ![n] = [job |-> hand[c], client |-> c]]
      /\ [job |-> hand[c], client |-> c] # None
  BY <1>1, JobParts, NoneAssumption
<1>4. \A i \in JobIDs : InProgress(i)' <=> InProgress(i) \/ i = n
  BY <1>1, <1>3 DEF InProgress
<1>5. \A i \in JobIDs : InQueue(i)' <=> InQueue(i)
  BY DEF InQueue
<1>6. \A d \in Clients, i \in JobIDs : InHand(d, i)' <=> d # c /\ InHand(d, i)
  BY DEF InHand
<1>7. \A i \in JobIDs : InHand(c, i) <=> i = n
  BY <1>1 DEF InHand
<1>8. StepsAgree'
  BY <1>1, <1>3, NoneAssumption DEF StepsAgree, InProgress, PCs
<1>9. LocatorsAgree'
  BY DEF LocatorsAgree
<1>10. NoJobTwice'
  BY <1>1, <1>2, <1>4, <1>5, <1>6, <1>7 DEF NoJobTwice
<1>11. JobsConserved'
  BY <1>1, <1>2, <1>4, <1>5, <1>6, <1>7 DEF JobsConserved
<1>12. HoldersAgree'
  <2>1. c \in registered /\ \A d \in Clients : n \notin clientJob[d]
    BY <1>1, <1>2, NoneAssumption DEF StepsAgree, HoldersAgree
  <2> QED
    BY <1>1, <1>2, <1>3, <1>4, <2>1 DEF HoldersAgree, InProgress
<1>13. NoSleepOnWork'
  BY DEF NoSleepOnWork, Poppable, PCs
<1> QED
  BY <1>8, <1>9, <1>10, <1>11, <1>12, <1>13

\* DeleteJob: the job leaves the one place it is in.
LEMMA DeleteJobStep ==
  ASSUME IInv, TypeOK', NEW c \in Clients, NEW i \in JobIDs, DeleteJob(c, i)
  PROVE  IInv'
<1> USE DEF IInv, TypeOK, popVars, DeleteJob, ClientJobWithout, Answer
<1>1. InQueue(i) <=> jobLocators[i] # None
  BY NoneAssumption DEF InQueue, LocatorsAgree
<1>2. /\ LocatorsAgree'
      /\ \A n \in JobIDs : InQueue(n)' <=> InQueue(n) /\ n # i
      /\ \A k, l \in queued' : k.id = l.id => k = l
  <2>1. CASE jobLocators[i] = None
    <3>1. queued' = queued /\ jobLocators' = jobLocators
      BY <2>1, NoneAssumption
    <3>2. LocatorsAgree'
      BY <1>1, <3>1 DEF LocatorsAgree
    <3>3. \A k \in queued : k.id # i
      <4>1. \A k \in queued : jobLocators[k.id] = k /\ k # None
        BY NoneAssumption DEF LocatorsAgree
      <4> HIDE DEF IInv, TypeOK, DeleteJob
      <4> QED
        BY <2>1, <4>1
    <3>4. \A n \in JobIDs : InQueue(n)' <=> InQueue(n) /\ n # i
      BY <3>1, <3>3 DEF InQueue
    <3> QED
      BY <3>1, <3>2, <3>4 DEF NoJobTwice
  <2>2. CASE jobLocators[i] # None
    <3>1. jobLocators[i] \in queued /\ jobLocators[i].id = i
      BY <2>2 DEF LocatorsAgree
    <3>2. /\ queued' = queued \ {jobLocators[i]}
          /\ jobLocators' = [jobLocators EXCEPT ![i] = None]
      BY <2>2
    <3> HIDE DEF IInv, TypeOK, DeleteJob
    <3> QED
      BY <3>1, <3>2, TakeQueues
  <2> QED
    BY <2>1, <2>2
<1>3. \A n \in JobIDs : InProgress(n)' <=> InProgress(n) /\ n # i
  BY DEF InProgress
<1>4. \A d \in Clients, n \in JobIDs : InHand(d, n)' <=> InHand(d, n)
  BY DEF InHand
<1>5. deleted' = IF InQueue(i) \/ InProgress(i) THEN deleted \cup {i} ELSE deleted
  BY <1>1
<1>6. \A d \in Clients : clientJob'[d] = IF InProgress(i) /\ inProgress[i].client = d
                                          THEN clientJob[d] \ {i} ELSE clientJob[d]
  OBVIOUS
<1>7. StepsAgree'
  <2>1. \A n \in deleted' : n <= jobID'
    BY <1>5 DEF StepsAgree, JobsConserved
  <2>2. \A n \in JobIDs : InProgress(n)' => inProgress'[n].job.id = n
    BY DEF StepsAgree, InProgress
  <2>3. \A d \in Clients :
          /\ hand'[d] # None <=> pc'[d] \in {"put", "register"}
          /\ hlock' = d <=> pc'[d] = "aborting"
          /\ d \in registered' <=> pc'[d] \notin {"offline", "gone"}
    BY NoneAssumption DEF StepsAgree, PCs
  <2>4. \A d \in Clients : d \notin registered' => clientJob'[d] = {}
    BY <1>6 DEF StepsAgree
  <2> QED
    BY <2>1, <2>2, <2>3, <2>4 DEF StepsAgree
<1>8. NoJobTwice'
  BY <1>2, <1>3, <1>4 DEF NoJobTwice
<1>9. JobsConserved'
  <2>1. InQueue(i) \/ InProgress(i) => \A d \in Clients : ~InHand(d, i)
    BY DEF NoJobTwice
  <2> QED
    BY <1>2, <1>3, <1>4, <1>5, <2>1 DEF JobsConserved
<1>10. HoldersAgree'
  <2>1. \A d \in Clients : i \notin clientJob'[d]
    BY <1>6, NoneAssumption DEF HoldersAgree, InProgress
  <2>2. \A n \in JobIDs \ {i} : inProgress'[n] = inProgress[n]
                                /\ \A d \in Clients : n \in clientJob'[d] <=> n \in clientJob[d]
    BY <1>6
  <2> QED
    BY <1>3, <2>1, <2>2 DEF HoldersAgree, InProgress
<1>11. NoSleepOnWork'
  BY DEF NoSleepOnWork, Poppable, PCs
<1> QED
  BY <1>2, <1>7, <1>8, <1>9, <1>10, <1>11

\* A job goes back from its client to its queue, on AbortJob or when its client
\* is gone.
LEMMA GiveBackStep ==
  ASSUME IInv, NEW i \in JobIDs, InProgress(i), Push(inProgress[i].job),
         inProgress' = [inProgress EXCEPT ![i] = None],
         UNCHANGED <<jobID, hand, deleted>>
  PROVE  LocatorsAgree' /\ NoJobTwice' /\ JobsConserved' /\ NoSleepOnWork' /\ InQueue(i)'
<1> USE DEF IInv, TypeOK
<1>1. inProgress[i].job \in Job /\ inProgress[i].job.id = i
  BY JobParts DEF StepsAgree, InProgress
<1>2. ~InQueue(i) /\ \A d \in Clients : ~InHand(d, i)
  BY DEF NoJobTwice
<1>3. /\ LocatorsAgree' /\ notifiers' = {}
      /\ \A n \in JobIDs : InQueue(n)' <=> InQueue(n) \/ n = i
      /\ \A k, l \in queued' : k.id = l.id => k = l
  BY <1>1, <1>2, PushQueues
<1>4. \A n \in JobIDs : InProgress(n)' <=> InProgress(n) /\ n # i
  BY DEF InProgress
<1>5. \A d \in Clients, n \in JobIDs : InHand(d, n)' <=> InHand(d, n)
  BY DEF InHand
<1>6. NoJobTwice' /\ JobsConserved'
  BY <1>2, <1>3, <1>4, <1>5 DEF NoJobTwice, JobsConserved
<1> QED
  BY <1>3, <1>6 DEF NoSleepOnWork

\* AbortJob: the job leaves its client and is pushed to its queue, or nothing
\* happens because the client does not work on it.
LEMMA AbortJobStep ==
  ASSUME IInv, TypeOK', NEW c \in Clients, NEW i \in JobIDs, AbortJob(c, i)
  PROVE  IInv'
<1> USE DEF IInv, TypeOK, queueVars, popVars, AbortJob, Answer
<1>1. ASSUME UNCHANGED <<queueVars, clientJob, inProgress>> PROVE IInv'
  <2>1. StepsAgree'
    BY <1>1, NoneAssumption DEF StepsAgree, InProgress, PCs
  <2>2. LocatorsAgree' /\ NoJobTwice' /\ JobsConserved' /\ HoldersAgree'
    BY <1>1 DEF LocatorsAgree, NoJobTwice, JobsConserved, HoldersAgree,
                InQueue, InHand, InProgress
  <2>3. NoSleepOnWork'
    BY <1>1 DEF NoSleepOnWork, Poppable, PCs
  <2> QED
    BY <2>1, <2>2, <2>3
<1>2. ASSUME InProgress(i), i \in clientJob[c],
             clientJob' = [clientJob EXCEPT ![c] = @ \ {i}],
             GiveBack(i)
      PROVE  IInv'
  <2>1. LocatorsAgree' /\ NoJobTwice' /\ JobsConserved' /\ NoSleepOnWork'
    BY <1>2, GiveBackStep DEF GiveBack
  <2>2. StepsAgree'
    BY <1>2, NoneAssumption DEF GiveBack, StepsAgree, InProgress, PCs
  <2>3. HoldersAgree'
    BY <1>2, NoneAssumption DEF GiveBack, HoldersAgree, InProgress
  <2> QED
    BY <2>1, <2>2, <2>3
<1> QED
  BY <1>1, <1>2

\* One turn of the loop of OnClientDisconnected: as an abort, with the lock held.
LEMMA DisconnectPushStep ==
  ASSUME IInv, TypeOK', NEW c \in Clients, NEW i \in JobIDs, DisconnectPush(c, i)
  PROVE  IInv'
<1> USE DEF IInv, TypeOK, popVars, DisconnectPush
<1>1. LocatorsAgree' /\ NoJobTwice' /\ JobsConserved' /\ NoSleepOnWork'
  BY GiveBackStep DEF GiveBack
<1>2. StepsAgree'
  BY DEF GiveBack, StepsAgree, InProgress
<1>3. HoldersAgree'
  BY DEF GiveBack, HoldersAgree, StepsAgree, InProgress
<1> QED
  BY <1>1, <1>2, <1>3

----------------------------------------------------------------------------
\* The empty job centre of initQueueHandler satisfies the invariant.
LEMMA IInvInit == Init => IInv
<1> SUFFICES ASSUME Init PROVE IInv
  OBVIOUS
<1> USE DEF Init
<1>1. TypeOK
  BY MaxJobsAssumption DEF TypeOK, PCs
<1>2. StepsAgree
  BY NoneAssumption DEF StepsAgree, InProgress
<1>3. LocatorsAgree /\ HoldersAgree /\ NoSleepOnWork
  BY DEF LocatorsAgree, HoldersAgree, NoSleepOnWork, InProgress
<1>4. NoJobTwice /\ JobsConserved
  BY MaxJobsAssumption DEF NoJobTwice, JobsConserved, InQueue, InHand, InProgress, JobIDs
<1> QED
  BY <1>1, <1>2, <1>3, <1>4 DEF IInv

\* Every step of every client preserves the invariant.
LEMMA IInvStep == IInv /\ [Next]_vars => IInv'
<1> SUFFICES ASSUME IInv, [Next]_vars PROVE IInv'
  OBVIOUS
<1>1. TypeOK /\ TypeOK'
  BY TypeStep DEF IInv
<1>2. CASE UNCHANGED vars
  BY <1>2 DEF vars, queueVars, handlerVars, popVars, IInv, TypeOK, StepsAgree,
     LocatorsAgree, NoJobTwice, JobsConserved, HoldersAgree, NoSleepOnWork,
     InQueue, InHand, InProgress, Poppable
<1>3. CASE Next
  BY <1>1, <1>3, NextCases, ControlSteps, PutJobStep, PutPushStep,
     PopRoundStep, GetRegisterStep, DeleteJobStep, AbortJobStep,
     DisconnectPushStep
<1> QED
  BY <1>2, <1>3

\* The inductive invariant holds in every state of every execution.
THEOREM InvariantHolds == Spec => []IInv
<1>1. IInv /\ [Next]_vars => IInv'
  BY IInvStep
<1> QED
  BY IInvInit, <1>1, PTL DEF Spec

\* Every variable keeps its type, whatever the clients do.
THEOREM TypeCorrect == Spec => []TypeOK
<1>1. IInv => TypeOK
  BY DEF IInv
<1> QED
  BY InvariantHolds, <1>1, PTL

\* No job is ever in two places: no two clients work on the same job.
THEOREM NeverTwice == Spec => []NoJobTwice
<1>1. IInv => NoJobTwice
  BY DEF IInv
<1> QED
  BY InvariantHolds, <1>1, PTL

\* No job is lost, across aborts and disconnections, and no deleted job returns.
THEOREM Conserved == Spec => []JobsConserved
<1>1. IInv => JobsConserved
  BY DEF IInv
<1> QED
  BY InvariantHolds, <1>1, PTL

\* No wakeup is lost: a sleeping Pop has nothing to take where it looks.
THEOREM NoLostWakeup == Spec => []NoSleepOnWork
<1>1. IInv => NoSleepOnWork
  BY DEF IInv
<1> QED
  BY InvariantHolds, <1>1, PTL

\* A job in progress passes to another client only by way of its queue: every
\* step that takes it from its client deletes it or queues it.
THEOREM HolderKeeps == Spec => HolderKeepsJob
<1> DEFINE A == \A i \in JobIDs :
                  InProgress(i) /\ inProgress'[i] # inProgress[i] =>
                    inProgress'[i] = None /\ (i \in deleted' \/ InQueue(i)')
<1>1. IInv /\ [Next]_vars => [A]_vars
  <2> SUFFICES ASSUME IInv, Next, NEW n \in JobIDs,
                      InProgress(n), inProgress'[n] # inProgress[n]
               PROVE  inProgress'[n] = None /\ (n \in deleted' \/ InQueue(n)')
    OBVIOUS
  <2> TypeOK
    BY DEF IInv
  <2>1. ASSUME NEW c \in Clients, GetRegister(c) PROVE FALSE
    <3>1. hand[c] # None
      BY <2>1 DEF IInv, StepsAgree, GetRegister
    <3>2. hand[c].id = n
      BY <2>1 DEF GetRegister, TypeOK
    <3> QED
      BY <3>1, <3>2 DEF IInv, NoJobTwice, InHand
  <2>2. ASSUME NEW c \in Clients, NEW i \in JobIDs, DeleteJob(c, i)
        PROVE  inProgress'[n] = None /\ n \in deleted'
    BY <2>2 DEF DeleteJob, TypeOK, InProgress
  <2>3. ASSUME NEW c \in Clients, NEW i \in JobIDs,
               AbortJob(c, i) \/ DisconnectPush(c, i)
        PROVE  inProgress'[n] = None /\ InQueue(n)'
    <3>1. /\ InProgress(i) /\ Push(inProgress[i].job)
          /\ inProgress' = [inProgress EXCEPT ![i] = None]
          /\ UNCHANGED <<jobID, hand, deleted>>
      BY <2>3 DEF AbortJob, DisconnectPush, GiveBack
    <3>2. n = i
      BY <3>1 DEF TypeOK
    <3> QED
      BY <3>1, <3>2, GiveBackStep DEF TypeOK
  <2>4. UNCHANGED handlerVars => FALSE
    BY DEF handlerVars
  <2>5. UNCHANGED inProgress => FALSE
    OBVIOUS
  <2>6. ASSUME NEW c \in Clients,
               \/ OnClientConnected(c) \/ Cancel(c) \/ WorkerExit(c)
               \/ DisconnectLock(c) \/ DisconnectDone(c) \/ PutPush(c)
               \/ \E q \in Queues, p \in Priorities : PutJob(c, q, p)
        PROVE  FALSE
    BY <2>5, <2>6 DEF OnClientConnected, Cancel, WorkerExit, DisconnectLock,
       DisconnectDone, PutPush, PutJob, handlerVars
  <2> QED
    BY <2>1, <2>2, <2>3, <2>4, <2>6, NextCases
<1> QED
  BY InvariantHolds, <1>1, PTL DEF Spec, HolderKeepsJob

----------------------------------------------------------------------------
(* The heaps of JobQueues, one by one *)

\* The jobs in the heap of queue q.
JobsOf(q) == {j \in queued : j.queue = q}

\* What a step may do to the heap of q: the steps of PriorityQueue.
HeapStep(q) ==
  \/ JobsOf(q)' = JobsOf(q)
  \/ \E j \in Job : ~InQueue(j.id) /\ JobsOf(q)' = JobsOf(q) \cup {j}
  \/ \E j \in JobsOf(q) : /\ \A k \in JobsOf(q) : k.pri <= j.pri
                          /\ JobsOf(q)' = JobsOf(q) \ {j}
  \/ \E j \in JobsOf(q) : j.id \in deleted' /\ JobsOf(q)' = JobsOf(q) \ {j}

\* Every heap of the job centre, whatever clients do and however they leave, is
\* used as PriorityQueue has it and as the Push of JobHeap asks: a job is
\* pushed only while it is in no heap, and leaves a heap only as one of its
\* highest priority or because it is deleted.
THEOREM HeapsArePriorityQueues == Spec => [][\A q \in Queues : HeapStep(q)]_vars
<1>1. IInv /\ [Next]_vars => [\A q \in Queues : HeapStep(q)]_vars
  <2> SUFFICES ASSUME IInv, Next, NEW q \in Queues PROVE HeapStep(q)
    OBVIOUS
  <2>t. TypeOK
    BY DEF IInv
  <2>1. ASSUME queued' = queued PROVE HeapStep(q)
    BY <2>1 DEF HeapStep, JobsOf
  <2>2. ASSUME NEW j \in Job, ~InQueue(j.id), Push(j) PROVE HeapStep(q)
    <3>1. queued' = queued \cup {j}
      BY <2>2 DEF Push
    <3>2. CASE j.queue = q
      <4>1. JobsOf(q)' = JobsOf(q) \cup {j}
        BY <3>1, <3>2 DEF JobsOf
      <4> QED
        BY <2>2, <4>1 DEF HeapStep
    <3>3. CASE j.queue # q
      BY <3>1, <3>3 DEF HeapStep, JobsOf
    <3> QED
      BY <3>2, <3>3
  <2>3. ASSUME NEW c \in Clients, NEW qs \in SUBSET Queues, NEW ws \in SUBSET Queues,
               NEW wait \in BOOLEAN, PopRound(c, qs, ws, wait)
        PROVE  HeapStep(q)
    <3>1. CASE queued' = queued
      BY <2>1, <3>1
    <3>2. CASE queued' # queued
      <4>1. PICK j \in Highest(ws) : queued' = queued \ {j}
        BY <2>3, <3>2 DEF PopRound, queueVars
      <4>2. /\ j \in queued /\ j \in Job /\ j.queue \in ws /\ j.pri \in Nat /\ j.pri > 0
            /\ \A k \in queued : k.queue \in ws /\ k.pri > 0 => k.pri <= j.pri
        BY <2>t, PrioritiesAssumption DEF Highest, Poppable, TypeOK, Job
      <4>3. CASE j.queue = q
        <5>1. ASSUME NEW k \in JobsOf(q) PROVE k.pri <= j.pri
          <6>1. k \in queued /\ k.queue \in ws /\ k.pri \in Nat
            BY <2>t, <4>2, <4>3, PrioritiesAssumption DEF JobsOf, TypeOK, Job
          <6> QED
            BY <4>2, <6>1
        <5>2. j \in JobsOf(q) /\ JobsOf(q)' = JobsOf(q) \ {j}
          BY <4>1, <4>2, <4>3 DEF JobsOf
        <5> QED
          BY <5>1, <5>2 DEF HeapStep
      <4>4. CASE j.queue # q
        BY <4>1, <4>4 DEF HeapStep, JobsOf
      <4> QED
        BY <4>3, <4>4
    <3> QED
      BY <3>1, <3>2
  <2>4. ASSUME NEW c \in Clients, PutPush(c) PROVE HeapStep(q)
    <3>1. hand[c] # None /\ hand[c] \in Job /\ Push(hand[c])
      BY <2>4 DEF IInv, StepsAgree, PutPush, TypeOK
    <3>2. ~InQueue(hand[c].id)
      BY <3>1, JobParts DEF IInv, NoJobTwice, InHand
    <3> QED
      BY <2>2, <3>1, <3>2
  <2>5. ASSUME NEW c \in Clients, NEW i \in JobIDs, DeleteJob(c, i) PROVE HeapStep(q)
    <3>1. /\ queued' = queued \ {jobLocators[i]}
          /\ jobLocators[i] # None => i \in deleted'
      BY <2>5 DEF DeleteJob
    <3>2. CASE jobLocators[i] = None
      BY <2>1, <2>t, <3>1, <3>2, NoneAssumption DEF TypeOK
    <3>3. CASE jobLocators[i] # None
      <4>1. jobLocators[i] \in queued /\ jobLocators[i].id = i /\ i \in deleted'
        BY <3>1, <3>3 DEF IInv, LocatorsAgree
      <4>2. CASE jobLocators[i].queue = q
        <5>1. jobLocators[i] \in JobsOf(q) /\ JobsOf(q)' = JobsOf(q) \ {jobLocators[i]}
          BY <3>1, <4>1, <4>2 DEF JobsOf
        <5> QED
          BY <4>1, <5>1 DEF HeapStep
      <4>3. CASE jobLocators[i].queue # q
        BY <3>1, <4>3 DEF HeapStep, JobsOf
      <4> QED
        BY <4>2, <4>3
    <3> QED
      BY <3>2, <3>3
  <2>6. ASSUME NEW c \in Clients, NEW i \in JobIDs, AbortJob(c, i) \/ DisconnectPush(c, i)
        PROVE  HeapStep(q)
    <3>1. CASE queued' = queued
      BY <2>1, <3>1
    <3>2. CASE queued' # queued
      <4>1. InProgress(i) /\ Push(inProgress[i].job)
        BY <2>6, <3>2 DEF AbortJob, DisconnectPush, GiveBack, queueVars
      <4>2. inProgress[i].job \in Job /\ inProgress[i].job.id = i
        BY <2>t, <4>1, JobParts DEF TypeOK, InProgress, IInv, StepsAgree
      <4>3. ~InQueue(i)
        BY <4>1 DEF IInv, NoJobTwice
      <4> QED
        BY <2>2, <4>1, <4>2, <4>3
    <3> QED
      BY <3>1, <3>2
  <2>7. ASSUME NEW c \in Clients,
               \/ OnClientConnected(c) \/ Cancel(c) \/ WorkerExit(c) \/ GetRegister(c)
               \/ DisconnectLock(c) \/ DisconnectDone(c)
               \/ \E r \in Queues, p \in Priorities : PutJob(c, r, p)
        PROVE  HeapStep(q)
    BY <2>1, <2>7 DEF OnClientConnected, Cancel, WorkerExit, GetRegister, DisconnectLock,
       DisconnectDone, PutJob, queueVars
  <2> QED
    BY <2>t, <2>3, <2>4, <2>5, <2>6, <2>7, NextCases
<1> QED
  BY InvariantHolds, <1>1, PTL DEF Spec
=============================================================================
