------------------------------ MODULE JobHeap ------------------------------
(***************************************************************************)
(* One queue of JobQueues as the code keeps it: the array heap jobQueue,   *)
(* driven by container/heap, with the position of every job in its index   *)
(* field, which Remove follows from jobLocators.                           *)
(*                                                                         *)
(* An operation holds JobQueues.lock from its first step to its last; in   *)
(* between, each turn of a loop of container/heap is a step.  op is what   *)
(* runs, and nothing else can run until it is done.                        *)
(***************************************************************************)
EXTENDS Integers, Sequences

CONSTANTS Jobs,        \* job IDs
          Priorities,  \* job priorities
          None         \* no job, no operation

Operations == [by : {"Push", "Remove"}, id : Jobs] \cup [by : {"Pop"}, id : {None}]

ASSUME HeapPrioritiesAssumption == Priorities \subseteq Nat
ASSUME HeapNoneAssumption == None \notin Operations

VARIABLES jobQueue,     \* the array: a sequence of records [id, pri]
          index,        \* job.index by job ID, -1 outside of the array
          jobLocators,  \* the IDs that have a locator
          op,           \* the operation that has the lock, [by, id], or None
          loop,         \* "none", "up" or "down" of container/heap, or "cut":
                        \* jobQueue.Pop is next
          at,           \* the position of the loop
          i0,           \* where down began
          last          \* what the last Pop or Remove returned, or None

opVars == <<op, loop, at, i0>>
vars == <<jobQueue, index, jobLocators, opVars, last>>

JobItem == [id : Jobs, pri : Priorities]

----------------------------------------------------------------------------
(* The methods of jobQueue.  Positions start at 0, as in Go.               *)

At(i) == jobQueue[i + 1]
Len0 == Len(jobQueue)

Less(i, j) == At(i).pri > At(j).pri

\* Mutant: only one of the two index fields is updated.
SwapHalfIndex(i, j) ==
  /\ jobQueue' = [jobQueue EXCEPT ![i + 1] = At(j), ![j + 1] = At(i)]
  /\ index' = [index EXCEPT ![At(j).id] = i]

Swap(i, j) ==
  /\ jobQueue' = [jobQueue EXCEPT ![i + 1] = At(j), ![j + 1] = At(i)]
  /\ index' = [index EXCEPT ![At(j).id] = i, ![At(i).id] = j]

LastIndex == Len0

PushBack(item) ==
  /\ index' = [index EXCEPT ![item.id] = LastIndex]
  /\ jobQueue' = Append(jobQueue, item)

PopBack ==
  /\ index' = [index EXCEPT ![At(Len0 - 1).id] = -1]
  /\ jobQueue' = SubSeq(jobQueue, 1, Len0 - 1)

----------------------------------------------------------------------------
(* The loops of container/heap *)

\* The number of items in the heap: an operation that takes one has moved it
\* behind the others.
Size == IF op # None /\ op.by # "Push" THEN Len0 - 1 ELSE Len0

Parent(j) == (j - 1) \div 2

\* The lesser of the two children of i.
Child(i) ==
  LET left == 2 * i + 1
  IN  IF left + 1 < Size /\ Less(left + 1, left) THEN left + 1 ELSE left

Goto(l, i) == loop' = l /\ at' = i /\ UNCHANGED <<op, i0>>

Done == op' = None /\ loop' = "none" /\ at' = 0 /\ i0' = 0

\* up: the item rises while it is less than its parent.
Rises == at > 0 /\ Less(at, Parent(at))

Up ==
  /\ loop = "up" /\ Rises
  /\ Swap(Parent(at), at)
  /\ Goto("up", Parent(at))
  /\ UNCHANGED <<jobLocators, last>>

\* heap.Push returns, and Push stores the locator.
PushEnds ==
  /\ loop = "up" /\ ~Rises /\ op.by = "Push"
  /\ jobLocators' = jobLocators \cup {op.id}
  /\ Done
  /\ UNCHANGED <<jobQueue, index, last>>

UpEnds ==
  /\ loop = "up" /\ ~Rises /\ op.by # "Push"
  /\ Goto("cut", at)
  /\ UNCHANGED <<jobQueue, index, jobLocators, last>>

\* down: the item sinks while a child is less than it.
Sinks == 2 * at + 1 < Size /\ Less(Child(at), at)

Down ==
  /\ loop = "down" /\ Sinks
  /\ Swap(at, Child(at))
  /\ Goto("down", Child(at))
  /\ UNCHANGED <<jobLocators, last>>

\* down tells whether the item moved; heap.Remove lets it rise if it did not.
DownEnds ==
  /\ loop = "down" /\ ~Sinks
  /\ Goto(IF op.by = "Pop" \/ at > i0 THEN "cut" ELSE "up", at)
  /\ UNCHANGED <<jobQueue, index, jobLocators, last>>

----------------------------------------------------------------------------
(* JobQueues on one queue *)

Init ==
  /\ jobQueue = <<>>
  /\ index = [j \in Jobs |-> -1]
  /\ jobLocators = {}
  /\ op = None /\ loop = "none" /\ at = 0 /\ i0 = 0
  /\ last = None

\* A job is pushed while it is in no queue (JobCentre's NoJobTwice).
Push(j, p) ==
  /\ op = None /\ j \notin jobLocators
  /\ op' = [by |-> "Push", id |-> j]
  /\ PushBack([id |-> j, pri |-> p])
  /\ loop' = "up" /\ at' = Len0 /\ i0' = 0
  /\ last' = None
  /\ UNCHANGED jobLocators

\* heap.Pop puts the first item behind the others.
Pop ==
  /\ op = None /\ jobQueue # <<>>
  /\ op' = [by |-> "Pop", id |-> None]
  /\ Swap(0, Len0 - 1)
  /\ loop' = "down" /\ at' = 0 /\ i0' = 0
  /\ UNCHANGED <<jobLocators, last>>

\* heap.Remove does so with the item at the index of the located job, unless it
\* is the last one.
Remove(i) ==
  /\ op = None /\ i \in jobLocators
  /\ op' = [by |-> "Remove", id |-> i]
  /\ IF index[i] = Len0 - 1
     THEN /\ loop' = "cut"
          /\ UNCHANGED <<jobQueue, index>>
     ELSE /\ loop' = "down"
          /\ Swap(index[i], Len0 - 1)
  /\ at' = index[i] /\ i0' = index[i]
  /\ UNCHANGED <<jobLocators, last>>

\* jobQueue.Pop; then Pop deletes the locator of the job it got, Remove that of
\* the job it was asked for.
Cut ==
  /\ loop = "cut"
  /\ PopBack
  /\ last' = [by |-> op.by, id |-> op.id, job |-> At(Len0 - 1)]
  /\ jobLocators' = jobLocators \ {IF op.by = "Pop" THEN At(Len0 - 1).id ELSE op.id}
  /\ Done

Next == \/ \E j \in Jobs, p \in Priorities : Push(j, p)
        \/ Pop
        \/ \E i \in Jobs : Remove(i)
        \/ Up \/ UpEnds \/ PushEnds
        \/ Down \/ DownEnds
        \/ Cut

Spec == Init /\ [][Next]_vars

----------------------------------------------------------------------------
(* Properties *)

\* The heap's slots, index fields and locators have their Go types, and so has
\* what the loops work with.
TypeOK ==
  /\ jobQueue \in Seq(JobItem)
  /\ index \in [Jobs -> Int]
  /\ jobLocators \subseteq Jobs
  /\ op \in Operations \cup {None}
  /\ loop \in {"none", "up", "down", "cut"}
  /\ at \in Nat /\ i0 \in Nat
  /\ last \in [by : {"Pop"}, id : {None}, job : JobItem]
              \cup [by : {"Remove"}, id : Jobs, job : JobItem] \cup {None}

\* The heap is a priority queue: a Pop takes a job of the highest priority, a
\* Remove the job it was asked for, and no step of an operation loses or doubles
\* a job, although Remove follows index fields that every swap has to update and
\* the item that fills the gap may have to sink or to rise.
Abstract == INSTANCE PriorityQueue
              WITH jobs <- {jobQueue[k] : k \in DOMAIN jobQueue}
IsPriorityQueue == Abstract!Spec
=============================================================================
