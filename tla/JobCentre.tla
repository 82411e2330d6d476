----------------------------- MODULE JobCentre -----------------------------
(***************************************************************************)
(* The job centre of 9-job-centre: the queueHandler of main.go over the    *)
(* JobQueues of job_queue.go, driven by one worker goroutine per client.   *)
(*                                                                         *)
(* Every action is one critical section of the code.  JobQueues.lock is    *)
(* never held across two of them, so it needs no variable; queueHandler's  *)
(* lock is, in OnClientDisconnected, which pushes the client's jobs back   *)
(* one by one: hlock is its owner.                                         *)
(*                                                                         *)
(* A heap is the set of its jobs: Pop takes any job of the highest         *)
(* priority.  JobHeap shows that the array heap does just that.            *)
(***************************************************************************)
EXTENDS Naturals, FiniteSets

CONSTANTS
  Clients,     \* client IDs; xid.New() never repeats one, so each connects once
  Queues,      \* queue names
  Priorities,  \* job priorities that clients use
  MaxJobs,     \* bound on the number of PutJob calls
  None         \* a missing map entry, an empty hand, a free lock

ASSUME PrioritiesAssumption == Priorities \subseteq Nat
ASSUME MaxJobsAssumption == MaxJobs \in Nat

JobIDs == 1..MaxJobs
Job == [queue : Queues, id : JobIDs, pri : Priorities]
jobClient == [job : Job, client : Clients]

ASSUME NoneAssumption ==
  /\ None \notin Job
  /\ None \notin jobClient
  /\ None \notin Clients

VARIABLES
  jobID,        \* queueHandler.jobID, the last ID handed out
  created,      \* keys of JobQueues.jobQueues; a queue is never removed
  queued,       \* the jobs in the heaps
  jobLocators,  \* JobQueues.jobLocators: job ID -> job in a heap, or None
  notifiers,    \* clients whose channel in JobQueues.notifiers is still open
  registered,   \* keys of queueHandler.clientJob
  clientJob,    \* queueHandler.clientJob: client -> set of job IDs
  inProgress,   \* queueHandler.inProgress: job ID -> jobClient, or None
  hlock,        \* owner of queueHandler.lock across steps, or None
  pc,           \* where the client's worker (and then its looper) stands
  hand,         \* the job a worker carries between two critical sections
  asked,        \* the queues of the pending GetJob
  valid,        \* validQueues of the pending Pop
  ctxDone,      \* clients whose connection context is cancelled
  reply,        \* status of the last response to the client
  deleted       \* history: IDs whose DeleteJob was answered with ok

queueVars == <<created, queued, jobLocators, notifiers>>
handlerVars == <<registered, clientJob, inProgress, hlock>>
popVars == <<asked, valid>>
vars == <<jobID, queueVars, handlerVars, popVars, pc, hand, ctxDone, reply,
          deleted>>

PCs == {"offline", "idle", "put", "wait", "register", "exited", "aborting",
        "gone"}
Replies == {"ok", "no-job", "error"}

\* Where a job is.
InQueue(i) == \E j \in queued : j.id = i
InHand(c, i) == hand[c] # None /\ hand[c].id = i
InProgress(i) == inProgress[i] # None

Init ==
  /\ jobID = 0
  /\ created = {} /\ queued = {} /\ notifiers = {}
  /\ jobLocators = [i \in JobIDs |-> None]
  /\ registered = {}
  /\ clientJob = [c \in Clients |-> {}]
  /\ inProgress = [i \in JobIDs |-> None]
  /\ hlock = None
  /\ pc = [c \in Clients |-> "offline"]
  /\ hand = [c \in Clients |-> None]
  /\ asked = [c \in Clients |-> {}]
  /\ valid = [c \in Clients |-> {}]
  /\ ctxDone = {}
  /\ reply = [c \in Clients |-> None]
  /\ deleted = {}

----------------------------------------------------------------------------
(* JobQueues *)

Located(j) == [jobLocators EXCEPT ![j.id] = j]

\* Mutant: a Push wakes nobody.
WokenNone == notifiers

\* Push closes every notifier.
Woken == {}

\* Push: the queue is created on its first job, every waiting Pop is woken.
Push(j) ==
  /\ created' = created \cup {j.queue}
  /\ queued' = queued \cup {j}
  /\ jobLocators' = Located(j)
  /\ notifiers' = Woken

\* What Pop can see of the queues qs: the search starts from priority 0 and
\* takes strictly higher ones only, so a job of priority 0 is never seen.
Poppable(qs) == {j \in queued : j.queue \in qs /\ j.pri > 0}

Highest(qs) == {j \in Poppable(qs) : \A k \in Poppable(qs) : k.pri <= j.pri}

Answer(c, status) ==
  /\ pc' = [pc EXCEPT ![c] = "idle"]
  /\ reply' = [reply EXCEPT ![c] = status]

\* The variables of Pop while it waits; they go when it returns.
KeepLocals(c, queues, validQueues) ==
  /\ asked' = [asked EXCEPT ![c] = queues]
  /\ valid' = [valid EXCEPT ![c] = validQueues]

\* One round of Pop's loop over the queues qs, entered with the lock held.
PopRound(c, queues, qs, wait) ==
  \/ /\ c \in ctxDone
     /\ Answer(c, "error")
     /\ KeepLocals(c, {}, {})
     /\ UNCHANGED <<queueVars, hand>>
  \/ /\ c \notin ctxDone
     /\ \E j \in Highest(qs) :
          /\ queued' = queued \ {j}
          /\ jobLocators' = [jobLocators EXCEPT ![j.id] = None]
          /\ hand' = [hand EXCEPT ![c] = j]
     /\ pc' = [pc EXCEPT ![c] = "register"]
     /\ reply' = [reply EXCEPT ![c] = None]
     /\ KeepLocals(c, {}, {})
     /\ UNCHANGED <<created, notifiers>>
  \/ /\ c \notin ctxDone /\ Poppable(qs) = {} /\ ~wait
     /\ Answer(c, "no-job")
     /\ KeepLocals(c, {}, {})
     /\ UNCHANGED <<queueVars, hand>>
  \/ /\ c \notin ctxDone /\ Poppable(qs) = {} /\ wait
     /\ notifiers' = notifiers \cup {c}
     /\ pc' = [pc EXCEPT ![c] = "wait"]
     /\ reply' = [reply EXCEPT ![c] = None]
     /\ KeepLocals(c, queues, qs)
     /\ UNCHANGED <<created, queued, jobLocators, hand>>

----------------------------------------------------------------------------
(* queueHandler: the requests of a client, served one at a time by its     *)
(* worker                                                                  *)

OnClientConnected(c) ==
  /\ pc[c] = "offline" /\ hlock = None
  /\ registered' = registered \cup {c}
  /\ pc' = [pc EXCEPT ![c] = "idle"]
  /\ UNCHANGED <<jobID, queueVars, clientJob, inProgress, hlock, popVars, hand,
                 ctxDone, reply, deleted>>

\* Mutant: two PutJob calls may read the same counter value.
NextIDReused == IF jobID = 0 THEN 1 ELSE jobID

NextID == jobID + 1

\* PutJob takes an ID from the atomic counter; the push is a later step.
PutJob(c, q, p) ==
  /\ pc[c] = "idle" /\ jobID < MaxJobs
  /\ jobID' = NextID
  /\ hand' = [hand EXCEPT ![c] = [queue |-> q, id |-> NextID, pri |-> p]]
  /\ pc' = [pc EXCEPT ![c] = "put"]
  /\ reply' = [reply EXCEPT ![c] = None]
  /\ UNCHANGED <<queueVars, handlerVars, popVars, ctxDone, deleted>>

PutPush(c) ==
  /\ pc[c] = "put"
  /\ Push(hand[c])
  /\ hand' = [hand EXCEPT ![c] = None]
  /\ Answer(c, "ok")
  /\ UNCHANGED <<jobID, handlerVars, popVars, ctxDone, deleted>>

\* GetJob up to the first round of Pop: only queues that already exist are
\* kept in validQueues.
GetJob(c, qs, wait) ==
  /\ pc[c] = "idle"
  /\ PopRound(c, qs, qs \cap created, wait)
  /\ UNCHANGED <<jobID, handlerVars, ctxDone, deleted>>

\* A waiting Pop goes round again when its notifier is closed or its context
\* is done; validQueues stays what it was.
PopAgain(c) ==
  /\ pc[c] = "wait"
  /\ c \notin notifiers \/ c \in ctxDone
  /\ PopRound(c, asked[c], valid[c], TRUE)
  /\ UNCHANGED <<jobID, handlerVars, ctxDone, deleted>>

\* The rest of GetJob: the popped job becomes the client's.
GetRegister(c) ==
  /\ pc[c] = "register" /\ hlock = None
  /\ clientJob' = [clientJob EXCEPT ![c] = @ \cup {hand[c].id}]
  /\ inProgress' = [inProgress EXCEPT
                      ![hand[c].id] = [job |-> hand[c], client |-> c]]
  /\ hand' = [hand EXCEPT ![c] = None]
  /\ Answer(c, "ok")
  /\ UNCHANGED <<jobID, queueVars, registered, hlock, popVars, ctxDone, deleted>>

\* Mutant: a deleted job stays in its client's set.
ClientJobKept(i) == clientJob

\* clientJob without a job that some client has in progress.
ClientJobWithout(i) ==
  [d \in Clients |-> IF InProgress(i) /\ inProgress[i].client = d
                     THEN clientJob[d] \ {i} ELSE clientJob[d]]

\* DeleteJob looks in the queues, then among the jobs in progress.
DeleteJob(c, i) ==
  /\ pc[c] = "idle" /\ hlock = None
  /\ queued' = queued \ {jobLocators[i]}
  /\ jobLocators' = [jobLocators EXCEPT ![i] = None]
  /\ inProgress' = [inProgress EXCEPT ![i] = None]
  /\ clientJob' = ClientJobWithout(i)
  /\ LET found == jobLocators[i] # None \/ InProgress(i)
     IN /\ Answer(c, IF found THEN "ok" ELSE "no-job")
        /\ deleted' = IF found THEN deleted \cup {i} ELSE deleted
  /\ UNCHANGED <<jobID, created, notifiers, registered, hlock, popVars, hand,
                 ctxDone>>

\* Mutant: the job leaves its client and goes nowhere.
GiveBackLost(i) ==
  /\ inProgress' = [inProgress EXCEPT ![i] = None]
  /\ UNCHANGED queueVars

\* A job in progress goes back to its queue.
GiveBack(i) ==
  /\ Push(inProgress[i].job)
  /\ inProgress' = [inProgress EXCEPT ![i] = None]

\* AbortJob gives a job back to its queue, for the client that holds it.
AbortJob(c, i) ==
  /\ pc[c] = "idle" /\ hlock = None
  /\ \/ /\ ~InProgress(i)
        /\ Answer(c, "no-job")
        /\ UNCHANGED <<queueVars, clientJob, inProgress>>
     \/ /\ InProgress(i) /\ i \notin clientJob[c]
        /\ Answer(c, "error")
        /\ UNCHANGED <<queueVars, clientJob, inProgress>>
     \/ /\ InProgress(i) /\ i \in clientJob[c]
        /\ clientJob' = [clientJob EXCEPT ![c] = @ \ {i}]
        /\ GiveBack(i)
        /\ Answer(c, "ok")
  /\ UNCHANGED <<jobID, registered, hlock, popVars, hand, ctxDone, deleted>>

----------------------------------------------------------------------------
(* The end of a connection *)

\* The context ends when the peer leaves or the server shuts down.
Cancel(c) ==
  /\ pc[c] \notin {"offline", "exited", "aborting", "gone"}
  /\ c \notin ctxDone
  /\ ctxDone' = ctxDone \cup {c}
  /\ UNCHANGED <<jobID, queueVars, handlerVars, popVars, pc, hand, reply,
                 deleted>>

AtRest(c) == pc[c] = "idle"

\* The worker returns and the looper's wg.Wait with it.  A failed write of a
\* response is the case where the context ends before the worker is back.
WorkerExit(c) ==
  /\ AtRest(c) /\ c \in ctxDone
  /\ pc' = [pc EXCEPT ![c] = "exited"]
  /\ UNCHANGED <<jobID, queueVars, handlerVars, popVars, hand, ctxDone, reply,
                 deleted>>

DisconnectLock(c) ==
  /\ pc[c] = "exited" /\ hlock = None
  /\ hlock' = c
  /\ pc' = [pc EXCEPT ![c] = "aborting"]
  /\ UNCHANGED <<jobID, queueVars, registered, clientJob, inProgress, popVars,
                 hand, ctxDone, reply, deleted>>

\* One job of OnClientDisconnected's loop, pushed under hlock.
DisconnectPush(c, i) ==
  /\ pc[c] = "aborting"
  /\ i \in clientJob[c] /\ InProgress(i)
  /\ GiveBack(i)
  /\ UNCHANGED <<jobID, registered, clientJob, hlock, popVars, pc, hand,
                 ctxDone, reply, deleted>>

\* Mutant: the lock is not released.
StillLocked == hlock

Unlocked == None

\* The end of OnClientDisconnected: the client's set goes, the lock is free.
DisconnectDone(c) ==
  /\ pc[c] = "aborting"
  /\ \A i \in clientJob[c] : ~InProgress(i)
  /\ registered' = registered \ {c}
  /\ clientJob' = [clientJob EXCEPT ![c] = {}]
  /\ hlock' = Unlocked
  /\ pc' = [pc EXCEPT ![c] = "gone"]
  /\ UNCHANGED <<jobID, queueVars, inProgress, popVars, hand, ctxDone, reply,
                 deleted>>

----------------------------------------------------------------------------
\* The steps of a goroutine that holds or waits for a lock or a notifier.
Worker(c) ==
  \/ PutPush(c) \/ PopAgain(c) \/ GetRegister(c) \/ DisconnectDone(c)
  \/ \E i \in JobIDs : DisconnectPush(c, i)

Teardown(c) == WorkerExit(c) \/ DisconnectLock(c)

Request(c) ==
  \/ \E q \in Queues, p \in Priorities : PutJob(c, q, p)
  \/ \E i \in JobIDs : DeleteJob(c, i) \/ AbortJob(c, i)
  \/ \E qs \in SUBSET Queues, wait \in BOOLEAN : GetJob(c, qs, wait)

Next == \E c \in Clients :
          OnClientConnected(c) \/ Request(c) \/ Cancel(c) \/ Worker(c) \/ Teardown(c)

Spec == Init /\ [][Next]_vars

\* Go runs every goroutine that is not blocked and sync.Mutex starves no one.
\* Nothing is assumed of requests, of cancellation, or of Teardown, whose
\* wg.Wait also depends on the reader goroutine (see ConnHandler).
FairSpec == Spec /\ \A c \in Clients : WF_vars(Worker(c))

----------------------------------------------------------------------------
(* Properties *)

\* Every variable has the type its Go declaration gives it.
TypeOK ==
  /\ jobID \in 0..MaxJobs
  /\ created \in SUBSET Queues
  /\ queued \in SUBSET Job
  /\ jobLocators \in [JobIDs -> Job \cup {None}]
  /\ notifiers \in SUBSET Clients
  /\ registered \in SUBSET Clients
  /\ clientJob \in [Clients -> SUBSET JobIDs]
  /\ inProgress \in [JobIDs -> jobClient \cup {None}]
  /\ hlock \in Clients \cup {None}
  /\ pc \in [Clients -> PCs]
  /\ hand \in [Clients -> Job \cup {None}]
  /\ asked \in [Clients -> SUBSET Queues]
  /\ valid \in [Clients -> SUBSET Queues]
  /\ ctxDone \in SUBSET Clients
  /\ reply \in [Clients -> Replies \cup {None}]
  /\ deleted \in SUBSET JobIDs

\* The locators are exactly the queued jobs: Remove never follows a locator to
\* a job that has left its heap (index -1), and never misses a queued one.
LocatorsAgree ==
  /\ \A i \in JobIDs : jobLocators[i] # None =>
       jobLocators[i] \in queued /\ jobLocators[i].id = i
  /\ \A j \in queued : jobLocators[j.id] = j

\* A job is never in two places: two heaps slots, a heap and a client, two
\* clients, or in the hands of a worker and anywhere else.
NoJobTwice ==
  /\ \A j, k \in queued : j.id = k.id => j = k
  /\ \A i \in JobIDs : InQueue(i) => ~InProgress(i)
  /\ \A c \in Clients, i \in JobIDs :
       InHand(c, i) => /\ ~InQueue(i) /\ ~InProgress(i)
                       /\ \A d \in Clients \ {c} : ~InHand(d, i)

\* No job is lost and none comes back from the dead: the IDs handed out and not
\* deleted are the IDs of the jobs that are queued, in progress or in a hand.
JobsConserved ==
  \A i \in JobIDs :
    (i <= jobID /\ i \notin deleted)
      <=> (InQueue(i) \/ InProgress(i) \/ \E c \in Clients : InHand(c, i))

\* clientJob and inProgress say the same of who works on what, except for the
\* client whose jobs are being given back under the lock.  So a client that is
\* gone holds nothing, and nobody aborts a job of another client.
HoldersAgree ==
  \A c \in Clients, i \in JobIDs :
    /\ InProgress(i) /\ inProgress[i].client = c =>
         c \in registered /\ i \in clientJob[c]
    /\ i \in clientJob[c] =>
         IF InProgress(i) THEN inProgress[i].client = c ELSE hlock = c

\* No lost wakeup: a Pop whose notifier is open has nothing to take in the
\* queues that it looks at.
NoSleepOnWork ==
  \A c \in Clients :
    pc[c] = "wait" /\ c \in notifiers => Poppable(valid[c]) = {}

\* What the goroutines' positions say of the state: a hand is full between two
\* critical sections only, the lock's owner is in its loop, a client has a set
\* of jobs exactly while it is connected, and an ID in use was handed out.
StepsAgree ==
  /\ \A c \in Clients :
       /\ hand[c] # None <=> pc[c] \in {"put", "register"}
       /\ hlock = c <=> pc[c] = "aborting"
       /\ c \in registered <=> pc[c] \notin {"offline", "gone"}
       /\ c \notin registered => clientJob[c] = {}
  /\ \A i \in JobIDs : InProgress(i) => inProgress[i].job.id = i
  /\ \A i \in deleted : i <= jobID

\* The inductive invariant of the proofs.
IInv ==
  /\ TypeOK /\ StepsAgree
  /\ LocatorsAgree /\ NoJobTwice /\ JobsConserved /\ HoldersAgree
  /\ NoSleepOnWork

\* A job in progress stays with its client until it is deleted or goes back to
\* its queue: it never passes straight to another client.
HolderKeepsJob ==
  [][\A i \in JobIDs :
       InProgress(i) /\ inProgress'[i] # inProgress[i] =>
         inProgress'[i] = None /\ (i \in deleted' \/ InQueue(i)')]_vars

\* A waiting GetJob that can take a job does, unless others take them all.
WaiterServed ==
  \A c \in Clients :
    pc[c] = "wait" /\ Poppable(valid[c]) # {} ~>
      pc[c] # "wait" \/ Poppable(valid[c]) = {}

\* Every request that is not waiting for a job is answered, and a waiting one
\* is when its connection ends: nobody keeps the handler's lock forever.
RequestsAnswered ==
  \A c \in Clients :
    pc[c] \in {"put", "register"} \/ (pc[c] = "wait" /\ c \in ctxDone) ~>
      pc[c] = "idle"

----------------------------------------------------------------------------
(* What the comments and errors of the code say, and the code does not do  *)

\* "Pop with blocking" over "multiple queues", and ErrJobQueueEmpty, "job queue
\* is empty": while a Pop is blocked, the queues it was called with are empty.
BlockedPopHasNoJob ==
  \A c \in Clients :
    pc[c] = "wait" /\ c \in notifiers => ~ \E j \in queued : j.queue \in asked[c]
=============================================================================
