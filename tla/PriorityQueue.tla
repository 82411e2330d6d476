--------------------------- MODULE PriorityQueue ---------------------------
(***************************************************************************)
(* What one queue of JobQueues promises: a set of jobs from which a Pop    *)
(* takes one of the highest priority and a Remove takes the job it names.  *)
(***************************************************************************)
EXTENDS Naturals

CONSTANTS Jobs, Priorities, None

VARIABLES jobs,  \* the jobs in the queue, records of an ID and a priority
          last   \* what the last Pop or Remove took, and which ID the
                 \* Remove was asked for, or None

Init == jobs = {} /\ last = None

Insert(j, p) ==
  /\ \A k \in jobs : k.id # j
  /\ jobs' = jobs \cup {[id |-> j, pri |-> p]}
  /\ last' = None

TakeHighest ==
  \E j \in jobs :
    /\ \A k \in jobs : k.pri <= j.pri
    /\ jobs' = jobs \ {j}
    /\ last' = [by |-> "Pop", id |-> None, job |-> j]

TakeByID(i) ==
  \E j \in jobs :
    /\ j.id = i
    /\ jobs' = jobs \ {j}
    /\ last' = [by |-> "Remove", id |-> i, job |-> j]

Next == \/ \E j \in Jobs, p \in Priorities : Insert(j, p)
        \/ TakeHighest
        \/ \E i \in Jobs : TakeByID(i)

Spec == Init /\ [][Next]_<<jobs, last>>
=============================================================================
