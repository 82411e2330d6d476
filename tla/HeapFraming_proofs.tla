------------------------- MODULE HeapFraming_proofs -------------------------
(***************************************************************************)
(* Proofs about the two data structures of the job centre.  JobHeap, for   *)
(* any number of jobs and any priorities: the array heap with its index    *)
(* fields and the loops of container/heap implements PriorityQueue.        *)
(* RequestFraming, for streams, blocks and reads of any length: the        *)
(* requests are the lines of the stream and are read back byte by byte.    *)
(***************************************************************************)
EXTENDS JobHeap, RequestFraming, SequenceTheorems, WellFoundedInduction,
        NaturalsInduction, TLAPS

----------------------------------------------------------------------------
(* The inductive invariant of the heap *)

Positions == 0..(Len0 - 1)

Taking == op # None /\ op.by # "Push"

\* What runs and where its loop is.  heap.Pop of the only item calls
\* down on an empty heap.
LoopAgrees ==
  /\ op = None <=> loop = "none"
  /\ loop # "none" => Len0 > 0
  /\ loop \in {"down", "cut"} => Taking
  /\ loop = "up" => at < Size
  /\ loop = "down" => /\ at < Size \/ (op.by = "Pop" /\ at = 0 /\ Size = 0)
                      /\ i0 <= at
                      /\ op.by = "Pop" => i0 = 0

\* The index field of each item in the array is its position.
IndexAgrees == \A k \in Positions : index[At(k).id] = k

\* A job is in the array if and only if it has a locator or is being pushed.
Pushing(j) == op # None /\ op.by = "Push" /\ op.id = j
LocatorsAgree ==
  \A j \in Jobs : j \in jobLocators \/ Pushing(j) <=> \E k \in Positions : At(k).id = j

\* The item at k is not less than its parent.
Ordered(k) == At(Parent(k)).pri >= At(k).pri

\* The parent of i is not less than the children of i.
Bridged(i) == \A k \in 1..(Size - 1) : i > 0 /\ Parent(k) = i => At(Parent(i)).pri >= At(k).pri

\* The array is a heap, but for the item that rises or sinks.
HeapOrder ==
  /\ loop \in {"none", "cut"} => \A k \in 1..(Size - 1) : Ordered(k)
  /\ loop = "up" => /\ \A k \in 1..(Size - 1) : k # at => Ordered(k)
                    /\ Bridged(at)
  /\ loop = "down" => /\ \A k \in 1..(Size - 1) : k # at /\ Parent(k) # at => Ordered(k)
                      /\ at > i0 => Ordered(at)
                      /\ Bridged(at)

\* The item that was put behind the others is the one that the operation is to
\* return.
RightTaken ==
  Taking => IF op.by = "Pop" THEN \A k \in Positions : At(k).pri <= At(Len0 - 1).pri
                             ELSE At(Len0 - 1).id = op.id

HeapInv == TypeOK /\ LoopAgrees /\ IndexAgrees /\ LocatorsAgree /\ HeapOrder /\ RightTaken

\* The heap is empty at the start.
LEMMA HeapInit == Init => HeapInv
<1> SUFFICES ASSUME Init PROVE HeapInv
  OBVIOUS
<1>1. jobQueue = <<>> /\ Len0 = 0 /\ op = None /\ loop = "none" /\ at = 0 /\ i0 = 0
  BY DEF Init, Len0
<1>2. TypeOK
  BY <1>1 DEF Init, TypeOK
<1>3. LoopAgrees /\ IndexAgrees /\ RightTaken
  BY <1>1 DEF LoopAgrees, IndexAgrees, RightTaken, Taking, Positions
<1>4. LocatorsAgree
  <2>1. Positions = {}
    BY <1>1 DEF Positions
  <2> QED
    BY <1>1, <2>1 DEF Init, LocatorsAgree, Pushing
<1>5. HeapOrder
  BY <1>1 DEF HeapOrder, Size
<1> QED
  BY <1>2, <1>3, <1>4, <1>5 DEF HeapInv

----------------------------------------------------------------------------
(* Parents and children *)

\* Each position but the first is one of the two children of its parent.
LEMMA ParentOf ==
  ASSUME NEW k \in Nat, k > 0
  PROVE  /\ Parent(k) \in Nat /\ Parent(k) < k
         /\ k = 2 * Parent(k) + 1 \/ k = 2 * Parent(k) + 2
BY DEF Parent

\* Items have priorities, which are numbers.
LEMMA ItemTyped ==
  ASSUME TypeOK, NEW k \in Positions
  PROVE  /\ At(k) \in JobItem /\ At(k).id \in Jobs /\ At(k).pri \in Nat
         /\ At(k) = [id |-> At(k).id, pri |-> At(k).pri]
<1>1. jobQueue \in Seq(JobItem) /\ k + 1 \in 1..Len(jobQueue)
  BY DEF TypeOK, Positions, Len0
<1>2. At(k) \in JobItem
  BY <1>1 DEF At
<1> QED
  BY <1>2, HeapPrioritiesAssumption DEF JobItem

\* The child that Child picks has the higher priority of the two.
LEMMA ChildOf ==
  ASSUME TypeOK, LoopAgrees, NEW a \in Nat, 2 * a + 1 < Size
  PROVE  /\ Child(a) \in 1..(Size - 1) /\ Parent(Child(a)) = a
         /\ \A k \in 1..(Size - 1) : Parent(k) = a => At(Child(a)).pri >= At(k).pri
<1>1. Len0 \in Nat /\ Size \in Int /\ Size <= Len0
  BY DEF TypeOK, Len0, Size
<1>2. Child(a) \in {2 * a + 1, 2 * a + 2} /\ Child(a) < Size
  BY <1>1 DEF Child
<1>3. Parent(2 * a + 1) = a /\ Parent(2 * a + 2) = a
  BY DEF Parent
<1>4. ASSUME NEW k \in 1..(Size - 1), Parent(k) = a PROVE At(Child(a)).pri >= At(k).pri
  <2>1. k = 2 * a + 1 \/ k = 2 * a + 2
    <3>1. k \in Nat /\ k > 0
      BY <1>1
    <3> QED
      BY <1>4, <3>1, ParentOf
  <2>2. k \in Positions /\ 2 * a + 1 \in Positions
    BY <1>1 DEF Positions
  <2>3. At(k).pri \in Nat /\ At(2 * a + 1).pri \in Nat
    BY <2>2, ItemTyped
  <2>4. CASE k = 2 * a + 1
    <3>1. CASE 2 * a + 2 < Size
      <4>1. 2 * a + 2 \in Positions /\ At(2 * a + 2).pri \in Nat
        BY <1>1, <3>1, ItemTyped DEF Positions
      <4> QED
        BY <2>3, <2>4, <4>1 DEF Child, Less
    <3>2. CASE ~(2 * a + 2 < Size)
      BY <1>1, <2>3, <2>4, <3>2 DEF Child
    <3> QED
      BY <3>1, <3>2
  <2>5. CASE k = 2 * a + 2
    BY <1>1, <2>3, <2>5 DEF Child, Less
  <2> QED
    BY <2>1, <2>4, <2>5
<1> QED
  BY <1>1, <1>2, <1>3, <1>4

\* A set of numbers that is not empty has a smallest one.
LEMMA SmallestExists ==
  ASSUME NEW S, S \subseteq Nat, S # {}
  PROVE  \E n \in S : \A m \in S : n <= m
<1> DEFINE R == {p \in Nat \X Nat : p[1] < p[2]}
<1>1. IsWellFoundedOn(R, Nat)
  BY NatLessThanWellFounded, Zenon DEF OpToRel
<1>2. \A x, y \in Nat : <<y, x>> \in R <=> y < x
  OBVIOUS
<1> HIDE DEF R
<1>3. PICK n \in S : \A m \in S : ~(<<m, n>> \in R)
  BY <1>1, WFMin
<1>4. ASSUME NEW m \in S PROVE n <= m
  <2>1. m \in Nat /\ n \in Nat
    OBVIOUS
  <2>2. ~(m < n)
    BY <1>2, <1>3, <2>1, Zenon
  <2> QED
    BY <2>1, <2>2
<1> QED
  BY <1>4

\* The first item of a heap has the highest priority.
LEMMA FirstIsHighest ==
  ASSUME TypeOK, Size = Len0, \A k \in 1..(Size - 1) : Ordered(k), NEW j \in Positions
  PROVE  At(j).pri <= At(0).pri
<1>1. Len0 \in Nat /\ 0 \in Positions /\ Positions \subseteq Nat
  BY DEF TypeOK, Len0, Positions
<1> DEFINE S == {k \in Positions : ~(At(k).pri <= At(0).pri)}
<1>2. SUFFICES S = {}
  OBVIOUS
<1>3. SUFFICES ASSUME S # {} PROVE FALSE
  OBVIOUS
<1>4. PICK n \in S : \A m \in S : n <= m
  BY <1>1, <1>3, SmallestExists
<1>5. n \in Positions /\ At(n).pri \in Nat /\ At(0).pri \in Nat /\ At(n).pri > At(0).pri
  BY <1>1, ItemTyped
<1>6. n \in 1..(Len0 - 1)
  BY <1>1, <1>5 DEF Positions
<1>7. Parent(n) \in Positions /\ Parent(n) \in Nat /\ Parent(n) < n
  BY <1>1, <1>6, ParentOf DEF Positions
<1>8. At(Parent(n)).pri \in Nat /\ At(Parent(n)).pri >= At(n).pri
  BY <1>6, <1>7, ItemTyped DEF Ordered
<1>9. Parent(n) \in S
  BY <1>5, <1>7, <1>8
<1> QED
  BY <1>1, <1>4, <1>5, <1>7, <1>9

----------------------------------------------------------------------------
(* Swap, and what follows from it for the steps of both loops *)

Queued == {At(k) : k \in Positions}

\* Swap exchanges two items and their index fields; the items in the array
\* remain.
LEMMA SwapKeeps ==
  ASSUME TypeOK, IndexAgrees, NEW i \in Positions, NEW j \in Positions, Swap(i, j)
  PROVE  /\ Len0' = Len0 /\ Positions' = Positions
         /\ jobQueue' \in Seq(JobItem) /\ index' \in [Jobs -> Int]
         /\ \A k \in Positions :
              At(k)' = IF k = i THEN At(j) ELSE IF k = j THEN At(i) ELSE At(k)
         /\ IndexAgrees'
         /\ Queued' = Queued
<1>1. Len0 \in Nat /\ i \in Int /\ j \in Int /\ i + 1 \in 1..Len0 /\ j + 1 \in 1..Len0
  BY DEF TypeOK, Len0, Positions
<1>2. At(i) \in JobItem /\ At(j) \in JobItem /\ At(i).id \in Jobs /\ At(j).id \in Jobs
  BY ItemTyped
<1>3. jobQueue' = [jobQueue EXCEPT ![i + 1] = At(j), ![j + 1] = At(i)]
  BY DEF Swap
<1>4. jobQueue' \in Seq(JobItem) /\ Len(jobQueue') = Len(jobQueue)
  BY <1>1, <1>2, <1>3 DEF TypeOK, Len0
<1>5. Len0' = Len0 /\ Positions' = Positions
  BY <1>4 DEF Len0, Positions
<1>6. ASSUME NEW k \in Positions
      PROVE  At(k)' = IF k = i THEN At(j) ELSE IF k = j THEN At(i) ELSE At(k)
  <2>1. k \in Int /\ k + 1 \in DOMAIN jobQueue
    BY <1>1 DEF Positions, TypeOK, Len0
  <2>2. jobQueue'[k + 1] = IF k + 1 = j + 1 THEN At(i)
                           ELSE IF k + 1 = i + 1 THEN At(j) ELSE jobQueue[k + 1]
    BY <1>3, <2>1
  <2>3. k + 1 = j + 1 <=> k = j
    BY <1>1, <2>1
  <2>4. k + 1 = i + 1 <=> k = i
    BY <1>1, <2>1
  <2> QED
    BY <2>2, <2>3, <2>4 DEF At
<1>7. index' = [index EXCEPT ![At(j).id] = i, ![At(i).id] = j]
  BY DEF Swap
<1>8. index' \in [Jobs -> Int]
  BY <1>1, <1>7 DEF TypeOK
<1>9. IndexAgrees'
  <2>1. SUFFICES ASSUME NEW k \in Positions PROVE index'[(At(k)').id] = k
    BY <1>5 DEF IndexAgrees
  <2>2. At(k).id \in Jobs /\ index[At(k).id] = k
    BY ItemTyped DEF IndexAgrees
  <2>3. index[At(i).id] = i /\ index[At(j).id] = j
    BY DEF IndexAgrees
  <2> QED
    BY <1>2, <1>6, <1>7, <2>2, <2>3 DEF TypeOK
<1>10. Queued' = Queued
  <2>1. Queued' = {At(k)' : k \in Positions}
    BY <1>5 DEF Queued
  <2>2. ASSUME NEW k \in Positions PROVE At(k)' \in Queued
    BY <1>6 DEF Queued
  <2>3. ASSUME NEW k \in Positions PROVE \E l \in Positions : At(k) = At(l)'
    <3>1. CASE k = i
      BY <1>6, <3>1
    <3>2. CASE k = j
      BY <1>6, <3>2
    <3>3. CASE k # i /\ k # j
      BY <1>6, <3>3
    <3> QED
      BY <3>1, <3>2, <3>3
  <2>4. Queued \subseteq Queued'
    BY <2>1, <2>3 DEF Queued
  <2>5. Queued' \subseteq Queued
    BY <2>1, <2>2
  <2> QED
    BY <2>4, <2>5
<1> QED
  BY <1>4, <1>5, <1>6, <1>8, <1>9, <1>10

\* Two positions hold two jobs.
LEMMA OneEach ==
  ASSUME IndexAgrees, NEW i \in Positions, NEW j \in Positions, At(i).id = At(j).id
  PROVE  i = j
BY DEF IndexAgrees

\* What LocatorsAgree says in terms of the items in the array.
LEMMA LocatorsQueued ==
  LocatorsAgree <=> \A j \in Jobs : j \in jobLocators \/ Pushing(j) <=> \E q \in Queued : q.id = j
BY DEF LocatorsAgree, Queued

\* A step of an operation that keeps the items in the array and the locators
\* keeps what these say of each other.
LEMMA LocatorsStay ==
  ASSUME LocatorsAgree, Queued' = Queued, UNCHANGED jobLocators,
         \A j \in Jobs : Pushing(j)' <=> Pushing(j)
  PROVE  LocatorsAgree'
<1>1. \A j \in Jobs : j \in jobLocators \/ Pushing(j) <=> \E q \in Queued : q.id = j
  BY LocatorsQueued
<1>2. \A j \in Jobs : j \in jobLocators' \/ Pushing(j)' <=> \E q \in Queued' : q.id = j
  BY <1>1
<1> QED
  BY <1>2 DEF LocatorsAgree, Queued

\* The size of the heap.
LEMMA SizeTyped ==
  ASSUME TypeOK, LoopAgrees
  PROVE  /\ Len0 \in Nat /\ Size \in Nat /\ Size <= Len0
         /\ Size = IF Taking THEN Len0 - 1 ELSE Len0
         /\ \A k : k \in Positions <=> k \in Nat /\ k < Len0
BY DEF TypeOK, LoopAgrees, Len0, Size, Taking, Positions

\* A position between the first and the last of the heap has its parent in it.
LEMMA ParentWithin ==
  ASSUME TypeOK, LoopAgrees, NEW k \in 1..(Size - 1)
  PROVE  /\ k \in Positions /\ k \in Nat /\ k > 0 /\ k < Size
         /\ Parent(k) \in Positions /\ Parent(k) \in Nat /\ Parent(k) < k
<1>1. Len0 \in Nat /\ Size \in Nat /\ Size <= Len0
  BY SizeTyped
<1>2. k \in Nat /\ k > 0 /\ k < Len0 /\ k < Size
  BY <1>1
<1>3. Parent(k) \in Nat /\ Parent(k) < k
  BY <1>2, ParentOf
<1> QED
  BY <1>1, <1>2, <1>3 DEF Positions

\* A swap within the heap touches neither the item behind it nor what the array
\* and the locators hold.
LEMMA SwapInside ==
  ASSUME HeapInv, NEW i \in Positions, NEW j \in Positions, i < Size, j < Size,
         Swap(i, j), UNCHANGED <<op, jobLocators>>
  PROVE  /\ Size' = Size /\ Len0' = Len0
         /\ IndexAgrees' /\ LocatorsAgree' /\ RightTaken'
<1>1. TypeOK /\ LoopAgrees /\ IndexAgrees /\ LocatorsAgree /\ RightTaken
  BY DEF HeapInv
<1>2. /\ Len0' = Len0 /\ Positions' = Positions /\ IndexAgrees' /\ Queued' = Queued
      /\ \A k \in Positions :
           At(k)' = IF k = i THEN At(j) ELSE IF k = j THEN At(i) ELSE At(k)
  BY <1>1, SwapKeeps
<1>3. Size' = Size
  BY <1>2 DEF Size
<1>4. LocatorsAgree'
  <2>1. \A k \in Jobs : Pushing(k)' <=> Pushing(k)
    BY DEF Pushing
  <2> QED
    BY <1>1, <1>2, <2>1, LocatorsStay
<1>5. ASSUME Taking PROVE Len0 - 1 \in Positions /\ At(Len0 - 1)' = At(Len0 - 1)
  <2>1. Len0 - 1 \in Positions /\ Len0 - 1 # i /\ Len0 - 1 # j
    BY <1>1, <1>5, SizeTyped
  <2>2. ASSUME NEW n \in Positions, n = Len0 - 1 PROVE jobQueue'[n + 1] = At(n)
    BY <1>2, <2>1, <2>2 DEF At
  <2>3. At(Len0 - 1)' = jobQueue'[(Len0' - 1) + 1]
    BY DEF At
  <2> QED
    BY <1>2, <2>1, <2>2, <2>3
<1>6. RightTaken'
  <2>1. Taking' <=> Taking
    BY DEF Taking
  <2>2. SUFFICES ASSUME Taking
                 PROVE  IF op.by = "Pop" THEN \A k \in Positions : (At(k)').pri <= At(Len0 - 1).pri
                                         ELSE At(Len0 - 1).id = op.id
    BY <1>2, <1>5, <2>1 DEF RightTaken
  <2>3. CASE op.by = "Pop"
    BY <1>1, <1>2, <2>2, <2>3 DEF RightTaken
  <2>4. CASE op.by # "Pop"
    BY <1>1, <2>2, <2>4 DEF RightTaken
  <2> QED
    BY <2>3, <2>4
<1> QED
  BY <1>2, <1>3, <1>4, <1>6

----------------------------------------------------------------------------
(* The steps of up *)

\* The item that rises is not less than its new children; only its new parent
\* may still be less than it.
LEMMA UpKeeps == HeapInv /\ Up => HeapInv'
<1> SUFFICES ASSUME HeapInv, Up PROVE HeapInv'
  OBVIOUS
<1>0. PICK a, p : a = at /\ p = Parent(at)
  OBVIOUS
<1>1. TypeOK /\ LoopAgrees /\ IndexAgrees /\ HeapOrder
  BY DEF HeapInv
<1>2. /\ a \in Nat /\ a > 0 /\ a < Size /\ loop = "up"
      /\ Swap(p, a) /\ loop' = "up" /\ at' = p
      /\ UNCHANGED <<op, i0, jobLocators, last>>
  BY <1>0, <1>1 DEF Up, Rises, Goto, LoopAgrees, TypeOK
<1>3. p = Parent(a) /\ p \in Nat /\ p < a
  BY <1>0, <1>2, ParentOf
<1>4. a \in Positions /\ p \in Positions /\ p < Size
  BY <1>1, <1>2, <1>3, SizeTyped
<1>5. /\ Len0' = Len0 /\ Size' = Size
      /\ IndexAgrees' /\ LocatorsAgree' /\ RightTaken'
  BY <1>2, <1>4, SwapInside
<1>6. /\ jobQueue' \in Seq(JobItem) /\ index' \in [Jobs -> Int]
      /\ \A k \in Positions :
           At(k)' = IF k = p THEN At(a) ELSE IF k = a THEN At(p) ELSE At(k)
  BY <1>1, <1>2, <1>4, SwapKeeps
<1>7. TypeOK'
  BY <1>1, <1>2, <1>3, <1>6 DEF TypeOK
<1>8. LoopAgrees'
  BY <1>1, <1>2, <1>4, <1>5 DEF LoopAgrees, Taking
<1>9. /\ \A k \in 1..(Size - 1) : k # a => Ordered(k)
      /\ Bridged(a)
      /\ At(a).pri > At(p).pri
  BY <1>0, <1>1, <1>2 DEF HeapOrder, Up, Rises, Less
<1>10. \A k \in Positions : At(k).pri \in Nat
  BY <1>1, ItemTyped
<1>11. \A k \in 1..(Size - 1) : k \in Positions /\ Parent(k) \in Positions /\ Parent(k) < k
  BY <1>1, ParentWithin
<1>12. ASSUME NEW k \in 1..(Size - 1), k # p PROVE (At(Parent(k))').pri >= (At(k)').pri
  <2>1. k \in Positions /\ Parent(k) \in Positions /\ Parent(k) < k /\ k \in Int
    BY <1>11
  <2>2. CASE k = a
    <3>1. At(a)' = At(p) /\ At(p)' = At(a) /\ Parent(k) = p
      BY <1>3, <1>4, <1>6, <2>2
    <3> QED
      BY <1>4, <1>9, <1>10, <2>2, <3>1
  <2>3. CASE k # a /\ Parent(k) = a
    <3>1. At(k)' = At(k) /\ At(a)' = At(p)
      BY <1>3, <1>4, <1>6, <1>12, <2>1, <2>3
    <3>2. At(p).pri >= At(k).pri
      BY <1>2, <1>3, <1>9, <2>3 DEF Bridged
    <3> QED
      BY <2>3, <3>1, <3>2
  <2>4. CASE k # a /\ Parent(k) = p
    <3>1. At(k)' = At(k) /\ At(p)' = At(a)
      BY <1>4, <1>6, <1>12, <2>1, <2>4
    <3>2. At(p).pri >= At(k).pri
      BY <1>9, <2>4 DEF Ordered
    <3> QED
      BY <1>4, <1>9, <1>10, <2>1, <2>4, <3>1, <3>2
  <2>5. CASE k # a /\ Parent(k) # a /\ Parent(k) # p
    <3>1. At(k)' = At(k) /\ At(Parent(k))' = jobQueue'[Parent(k) + 1]
      BY <1>6, <1>12, <2>1, <2>5 DEF At
    <3>2. At(Parent(k))' = At(Parent(k))
      BY <1>6, <2>1, <2>5 DEF At
    <3> QED
      BY <1>9, <2>5, <3>1, <3>2 DEF Ordered
  <2> QED
    BY <2>2, <2>3, <2>4, <2>5
<1>13. ASSUME p > 0, NEW k \in 1..(Size - 1), Parent(k) = p
       PROVE  (At(Parent(p))').pri >= (At(k)').pri
  <2>1. p \in 1..(Size - 1) /\ Size \in Int
    BY <1>1, <1>3, <1>4, <1>13, SizeTyped
  <2>2. /\ Parent(p) \in Positions /\ Parent(p) \in Int /\ Parent(p) < p
        /\ k \in Positions /\ k \in Int /\ p < k
    BY <1>11, <1>13, <2>1 DEF Parent
  <2>3. At(Parent(p)).pri >= At(p).pri
    BY <1>3, <1>9, <2>1 DEF Ordered
  <2>4. At(Parent(p))' = At(Parent(p))
    BY <1>3, <1>2, <1>6, <2>2 DEF At
  <2>5. CASE k = a
    BY <1>4, <1>6, <1>3, <2>3, <2>4, <2>5
  <2>6. CASE k # a
    <3>1. At(k)' = At(k)
      BY <1>6, <2>2, <2>6
    <3>2. At(p).pri >= At(k).pri
      BY <1>9, <1>13, <2>6 DEF Ordered
    <3> QED
      BY <1>4, <1>10, <2>2, <2>3, <2>4, <3>1, <3>2
  <2> QED
    BY <2>5, <2>6
<1>14. HeapOrder'
  <2>1. \A k \in 1..(Size - 1) : k # p => Ordered(k)'
    BY <1>12 DEF Ordered
  <2>2. Bridged(at)'
    BY <1>2, <1>5, <1>13 DEF Bridged
  <2> QED
    BY <1>2, <1>5, <2>1, <2>2 DEF HeapOrder
<1> QED
  BY <1>5, <1>7, <1>8, <1>14 DEF HeapInv

\* An item that no longer rises leaves a heap.
LEMMA RisenIsHeap ==
  ASSUME HeapInv, loop = "up", ~Rises
  PROVE  \A k \in 1..(Size - 1) : Ordered(k)
<1> TAKE k \in 1..(Size - 1)
<1>1. TypeOK /\ LoopAgrees /\ HeapOrder
  BY DEF HeapInv
<1>2. k \in Positions /\ Parent(k) \in Positions /\ k > 0
  BY <1>1, ParentWithin
<1>3. At(k).pri \in Nat /\ At(Parent(k)).pri \in Nat
  BY <1>1, <1>2, ItemTyped
<1>4. CASE k = at
  BY <1>2, <1>3, <1>4 DEF Rises, Less, Ordered
<1>5. CASE k # at
  BY <1>1, <1>5 DEF HeapOrder
<1> QED
  BY <1>4, <1>5

\* heap.Remove lets jobQueue.Pop follow.
LEMMA UpEndsKeeps == HeapInv /\ UpEnds => HeapInv'
<1> SUFFICES ASSUME HeapInv, UpEnds PROVE HeapInv'
  OBVIOUS
<1>1. /\ loop = "up" /\ ~Rises /\ op.by # "Push" /\ loop' = "cut" /\ at' = at
      /\ UNCHANGED <<jobQueue, index, jobLocators, op, i0, last>>
  BY DEF UpEnds, Goto
<1>2. TypeOK /\ LoopAgrees /\ IndexAgrees /\ LocatorsAgree /\ RightTaken
  BY DEF HeapInv
<1>3. Len0' = Len0 /\ Size' = Size /\ Positions' = Positions /\ (Taking' <=> Taking)
  BY <1>1 DEF Len0, Size, Positions, Taking
<1>4. TypeOK'
  BY <1>1, <1>2 DEF TypeOK
<1>5. LoopAgrees'
  BY <1>1, <1>2, <1>3 DEF LoopAgrees, Taking
<1>6. IndexAgrees' /\ LocatorsAgree' /\ RightTaken'
  BY <1>1, <1>2 DEF IndexAgrees, LocatorsAgree, Pushing, RightTaken, Positions, Taking, Len0, At
<1>7. HeapOrder'
  <2>1. \A k \in 1..(Size - 1) : Ordered(k)'
    BY <1>1, RisenIsHeap DEF Ordered, At
  <2> QED
    BY <1>1, <1>3, <2>1 DEF HeapOrder
<1> QED
  BY <1>4, <1>5, <1>6, <1>7 DEF HeapInv

\* heap.Push returns with the pushed job in the array, and it gets its locator.
LEMMA PushEndsKeeps == HeapInv /\ PushEnds => HeapInv'
<1> SUFFICES ASSUME HeapInv, PushEnds PROVE HeapInv'
  OBVIOUS
<1>1. /\ loop = "up" /\ ~Rises /\ op.by = "Push"
      /\ op' = None /\ loop' = "none" /\ at' = 0 /\ i0' = 0
      /\ jobLocators' = jobLocators \cup {op.id}
      /\ UNCHANGED <<jobQueue, index, last>>
  BY DEF PushEnds, Done
<1>2. TypeOK /\ LoopAgrees /\ IndexAgrees /\ LocatorsAgree
  BY DEF HeapInv
<1>3. op # None /\ op \in Operations /\ op.id \in Jobs
  BY <1>1, <1>2 DEF LoopAgrees, TypeOK, Operations
<1>4. Len0' = Len0 /\ Size' = Size /\ Positions' = Positions
  BY <1>1 DEF Len0, Size, Positions
<1>5. TypeOK'
  BY <1>1, <1>2, <1>3 DEF TypeOK
<1>6. LoopAgrees' /\ RightTaken'
  BY <1>1 DEF LoopAgrees, RightTaken, Taking
<1>7. IndexAgrees'
  BY <1>1, <1>2 DEF IndexAgrees, Positions, Len0, At
<1>8. LocatorsAgree'
  <2>1. \A j \in Jobs : j \in jobLocators' \/ Pushing(j)' <=> j \in jobLocators \/ Pushing(j)
    BY <1>1, <1>3 DEF Pushing
  <2>2. \A k \in Positions : At(k)' = At(k)
    BY <1>1 DEF At
  <2> QED
    BY <1>2, <1>4, <2>1, <2>2 DEF LocatorsAgree
<1>9. HeapOrder'
  <2>1. \A k \in 1..(Size - 1) : Ordered(k)'
    BY <1>1, RisenIsHeap DEF Ordered, At
  <2> QED
    BY <1>1, <1>4, <2>1 DEF HeapOrder
<1> QED
  BY <1>5, <1>6, <1>7, <1>8, <1>9 DEF HeapInv

----------------------------------------------------------------------------
(* The steps of down *)

\* The child that takes the place of the item that sinks is not less than its
\* sibling, and not greater than its new parent.
LEMMA DownKeeps == HeapInv /\ Down => HeapInv'
<1> SUFFICES ASSUME HeapInv, Down PROVE HeapInv'
  OBVIOUS
<1>0. PICK a, c : a = at /\ c = Child(at)
  OBVIOUS
<1>1. TypeOK /\ LoopAgrees /\ IndexAgrees /\ HeapOrder
  BY DEF HeapInv
<1>2. /\ a \in Nat /\ 2 * a + 1 < Size /\ At(c).pri > At(a).pri /\ loop = "down"
      /\ Swap(a, c) /\ loop' = "down" /\ at' = c
      /\ UNCHANGED <<op, i0, jobLocators, last>>
  BY <1>0, <1>1 DEF Down, Sinks, Less, Goto, TypeOK
<1>3. /\ c \in 1..(Size - 1) /\ Parent(c) = a
      /\ \A k \in 1..(Size - 1) : Parent(k) = a => At(c).pri >= At(k).pri
  BY <1>0, <1>1, <1>2, ChildOf
<1>4. /\ a \in Positions /\ c \in Positions /\ c \in Nat /\ a < c /\ a < Size /\ c < Size
      /\ Size \in Nat
  BY <1>1, <1>2, <1>3, ParentWithin, SizeTyped
<1>5. /\ Len0' = Len0 /\ Size' = Size
      /\ IndexAgrees' /\ LocatorsAgree' /\ RightTaken'
  BY <1>2, <1>4, SwapInside
<1>6. /\ jobQueue' \in Seq(JobItem) /\ index' \in [Jobs -> Int]
      /\ \A k \in Positions :
           At(k)' = IF k = a THEN At(c) ELSE IF k = c THEN At(a) ELSE At(k)
  BY <1>1, <1>2, <1>4, SwapKeeps
<1>7. TypeOK'
  BY <1>1, <1>2, <1>4, <1>6 DEF TypeOK
<1>8. LoopAgrees'
  <2>1. i0 \in Nat /\ i0 <= a /\ i0 <= c
    BY <1>0, <1>1, <1>2, <1>4 DEF LoopAgrees, TypeOK
  <2> QED
    BY <1>1, <1>2, <1>4, <1>5, <2>1 DEF LoopAgrees, Taking
<1>9. /\ \A k \in 1..(Size - 1) : k # a /\ Parent(k) # a => Ordered(k)
      /\ Bridged(a)
  BY <1>0, <1>1, <1>2 DEF HeapOrder
<1>10. \A k \in Positions : At(k).pri \in Nat
  BY <1>1, ItemTyped
<1>11. \A k \in 1..(Size - 1) : /\ k \in Positions /\ Parent(k) \in Positions
                                /\ k \in Nat /\ Parent(k) \in Nat /\ Parent(k) < k
  BY <1>1, ParentWithin
<1>12. At(a)' = At(c) /\ At(c)' = At(a)
  BY <1>4, <1>6
<1>13. ASSUME NEW k \in 1..(Size - 1), k # c, Parent(k) # c
       PROVE  (At(Parent(k))').pri >= (At(k)').pri
  <2>1. k \in Positions /\ Parent(k) \in Positions /\ Parent(k) < k /\ k \in Int
    BY <1>11
  <2>2. CASE k = a
    <3>0. Parent(k) # k /\ Parent(k) # a
      BY <1>11, <2>1, <2>2
    <3>1. At(Parent(k))' = At(Parent(k))
      BY <1>6, <1>13, <2>1, <3>0
    <3>2. At(Parent(a)).pri >= At(c).pri
      BY <1>3, <1>9, <2>2 DEF Bridged
    <3> QED
      BY <1>12, <2>2, <3>1, <3>2
  <2>3. CASE k # a /\ Parent(k) = a
    <3>1. At(k)' = At(k)
      BY <1>6, <1>13, <2>1, <2>3
    <3> QED
      BY <1>3, <1>12, <2>3, <3>1
  <2>4. CASE k # a /\ Parent(k) # a
    <3>1. At(k)' = At(k) /\ At(Parent(k))' = At(Parent(k))
      BY <1>6, <1>13, <2>1, <2>4
    <3> QED
      BY <1>9, <2>4, <3>1 DEF Ordered
  <2> QED
    BY <2>2, <2>3, <2>4
<1>14. (At(Parent(c))').pri >= (At(c)').pri
  BY <1>2, <1>3, <1>4, <1>10, <1>12
<1>15. ASSUME NEW k \in 1..(Size - 1), Parent(k) = c
       PROVE  (At(Parent(c))').pri >= (At(k)').pri
  <2>1. k \in Positions /\ k # a /\ k # c
    BY <1>4, <1>11, <1>15
  <2>2. At(k)' = At(k)
    BY <1>6, <2>1
  <2>3. At(c).pri >= At(k).pri
    BY <1>4, <1>9, <1>15, <2>1 DEF Ordered
  <2> QED
    BY <1>3, <1>12, <2>2, <2>3
<1>16. HeapOrder'
  <2>1. \A k \in 1..(Size - 1) : k # c /\ Parent(k) # c => Ordered(k)'
    BY <1>13 DEF Ordered
  <2>2. Ordered(at)'
    BY <1>2, <1>14 DEF Ordered
  <2>3. Bridged(at)'
    BY <1>2, <1>5, <1>15 DEF Bridged
  <2> QED
    BY <1>2, <1>5, <2>1, <2>2, <2>3 DEF HeapOrder
<1> QED
  BY <1>5, <1>7, <1>8, <1>16 DEF HeapInv

\* An item that no longer sinks leaves a heap, or may have to rise if it did not
\* move.
LEMMA DownEndsKeeps == HeapInv /\ DownEnds => HeapInv'
<1> SUFFICES ASSUME HeapInv, DownEnds PROVE HeapInv'
  OBVIOUS
<1>1. /\ loop = "down" /\ ~Sinks /\ at' = at
      /\ loop' = IF op.by = "Pop" \/ at > i0 THEN "cut" ELSE "up"
      /\ UNCHANGED <<jobQueue, index, jobLocators, op, i0, last>>
  BY DEF DownEnds, Goto
<1>2. TypeOK /\ LoopAgrees /\ IndexAgrees /\ LocatorsAgree /\ RightTaken /\ HeapOrder
  BY DEF HeapInv
<1>3. Len0' = Len0 /\ Size' = Size /\ Positions' = Positions /\ (Taking' <=> Taking)
  BY <1>1 DEF Len0, Size, Positions, Taking
<1>4. TypeOK'
  BY <1>1, <1>2 DEF TypeOK
<1>5. LoopAgrees'
  BY <1>1, <1>2, <1>3 DEF LoopAgrees
<1>6. IndexAgrees' /\ LocatorsAgree' /\ RightTaken'
  BY <1>1, <1>2 DEF IndexAgrees, LocatorsAgree, Pushing, RightTaken, Positions, Taking, Len0, At
<1>7. ASSUME NEW k \in 1..(Size - 1), k # at PROVE Ordered(k)
  <2>1. /\ k \in Positions /\ k \in Nat /\ k > 0 /\ k < Size /\ Parent(k) \in Nat
        /\ Parent(k) \in Positions /\ at \in Nat /\ Size \in Nat
    BY <1>2, ParentWithin, SizeTyped DEF TypeOK
  <2>2. CASE Parent(k) # at
    BY <1>1, <1>2, <1>7, <2>2 DEF HeapOrder
  <2>3. CASE Parent(k) = at
    <3>1. k = 2 * at + 1 \/ k = 2 * at + 2
      BY <2>1, <2>3, ParentOf
    <3>2. 2 * at + 1 < Size
      BY <2>1, <3>1
    <3>3. /\ Child(at) \in 1..(Size - 1)
          /\ At(Child(at)).pri >= At(k).pri
      BY <1>2, <2>1, <2>3, <3>2, ChildOf
    <3>4. ~(At(Child(at)).pri > At(at).pri)
      BY <1>1, <3>2 DEF Sinks, Less
    <3>5. Child(at) \in Positions
      BY <1>2, <3>3, ParentWithin
    <3>6. At(Child(at)).pri \in Nat /\ At(at).pri \in Nat /\ At(k).pri \in Nat
      BY <1>2, <2>1, <2>3, <3>5, ItemTyped
    <3> QED
      BY <2>3, <3>3, <3>4, <3>6 DEF Ordered
  <2> QED
    BY <2>2, <2>3
<1>8. HeapOrder'
  <2>1. \A k : Ordered(k)' <=> Ordered(k)
    BY <1>1 DEF Ordered, At
  <2>2. CASE op.by = "Pop" \/ at > i0
    <3>1. ASSUME NEW k \in 1..(Size - 1) PROVE Ordered(k)
      <4>1. CASE k # at
        BY <1>7, <4>1
      <4>2. CASE k = at
        <5>1. at > 0 /\ (op.by = "Pop" => i0 = 0)
          BY <1>1, <1>2, <4>2, ParentWithin DEF LoopAgrees
        <5>2. at > i0
          BY <2>2, <5>1
        <5> QED
          BY <1>1, <1>2, <4>2, <5>2 DEF HeapOrder
      <4> QED
        BY <4>1, <4>2
    <3> QED
      BY <1>1, <1>3, <2>1, <2>2, <3>1 DEF HeapOrder
  <2>3. CASE ~(op.by = "Pop" \/ at > i0)
    <3>1. \A k \in 1..(Size - 1) : k # at => Ordered(k)'
      BY <1>7, <2>1
    <3>2. Bridged(at)'
      BY <1>1, <1>2, <1>3 DEF HeapOrder, Bridged, At
    <3> QED
      BY <1>1, <1>3, <2>3, <3>1, <3>2 DEF HeapOrder
  <2> QED
    BY <2>2, <2>3
<1> QED
  BY <1>4, <1>5, <1>6, <1>8 DEF HeapInv

----------------------------------------------------------------------------
(* The first and the last step of an operation *)

\* Push puts a job that is not in the array behind a heap.
LEMMA PushKeeps ==
  ASSUME HeapInv, NEW j \in Jobs, NEW p \in Priorities, Push(j, p)
  PROVE  HeapInv'
<1>0. PICK n, item : n = Len0 /\ item = [id |-> j, pri |-> p]
  OBVIOUS
<1>1. TypeOK /\ LoopAgrees /\ IndexAgrees /\ LocatorsAgree /\ HeapOrder
  BY DEF HeapInv
<1>2. /\ op = None /\ loop = "none" /\ j \notin jobLocators /\ n \in Nat /\ item \in JobItem
      /\ op' = [by |-> "Push", id |-> j] /\ loop' = "up" /\ at' = n /\ i0' = 0
      /\ index' = [index EXCEPT ![j] = n] /\ jobQueue' = Append(jobQueue, item)
      /\ jobLocators' = jobLocators /\ last' = None
  BY <1>0, <1>1 DEF Push, PushBack, LastIndex, TypeOK, LoopAgrees, Len0, JobItem
<1>3. op' \in Operations /\ op' # None
  BY <1>2, HeapNoneAssumption DEF Operations
<1>4. jobQueue' \in Seq(JobItem) /\ Len0' = n + 1
  BY <1>0, <1>1, <1>2 DEF TypeOK, Len0
<1>5. Size = n /\ Size' = n + 1 /\ ~Taking'
  BY <1>0, <1>2, <1>3, <1>4 DEF Size, Taking
<1>6. Positions = 0..(n - 1) /\ Positions' = 0..n
  BY <1>0, <1>2, <1>4 DEF Positions
<1>7. \A k \in 0..n : At(k)' = IF k = n THEN item ELSE At(k)
  BY <1>0, <1>1, <1>2 DEF At, TypeOK, Len0
<1>8. TypeOK'
  BY <1>1, <1>2, <1>3, <1>4 DEF TypeOK
<1>9. LoopAgrees' /\ RightTaken'
  BY <1>2, <1>3, <1>4, <1>5 DEF LoopAgrees, RightTaken
<1>10. \A k \in Positions : At(k).id # j
  BY <1>1, <1>2 DEF LocatorsAgree, Pushing
<1>11. IndexAgrees'
  <2>1. SUFFICES ASSUME NEW k \in 0..n PROVE index'[(At(k)').id] = k
    BY <1>6 DEF IndexAgrees
  <2>2. CASE k = n
    BY <1>0, <1>1, <1>2, <1>7, <2>2 DEF TypeOK
  <2>3. CASE k # n
    <3>1. k \in Positions /\ At(k)' = At(k)
      BY <1>2, <1>6, <1>7, <2>3
    <3>2. At(k).id \in Jobs /\ At(k).id # j /\ index[At(k).id] = k
      BY <1>1, <1>10, <3>1, ItemTyped DEF IndexAgrees
    <3> QED
      BY <1>1, <1>2, <3>1, <3>2 DEF TypeOK
  <2> QED
    BY <2>2, <2>3
<1>12. LocatorsAgree'
  <2>1. SUFFICES ASSUME NEW i \in Jobs
                 PROVE  i \in jobLocators' \/ Pushing(i)' <=> \E k \in 0..n : (At(k)').id = i
    BY <1>6 DEF LocatorsAgree
  <2>2. Pushing(i)' <=> i = j
    BY <1>2, <1>3 DEF Pushing
  <2>3. i \in jobLocators <=> \E k \in Positions : At(k).id = i
    BY <1>1, <1>2 DEF LocatorsAgree, Pushing
  <2>4. (\E k \in 0..n : (At(k)').id = i) <=> i = j \/ \E k \in Positions : At(k).id = i
    <3>1. \A k \in Positions : k \in 0..n /\ At(k)' = At(k)
      BY <1>2, <1>6, <1>7
    <3>2. n \in 0..n /\ (At(n)').id = j
      BY <1>0, <1>2, <1>7
    <3>3. \A k \in 0..n : k = n \/ k \in Positions
      BY <1>2, <1>6
    <3> QED
      BY <3>1, <3>2, <3>3, Zenon
  <2> QED
    BY <1>2, <2>2, <2>3, <2>4
<1>13. HeapOrder'
  <2>1. ASSUME NEW k \in 1..n, k # n PROVE Ordered(k)'
    <3>1. k \in 1..(Size - 1)
      BY <1>2, <1>5, <2>1
    <3>2. k \in 0..n /\ Parent(k) \in 0..n /\ Parent(k) # n
      BY <1>1, <1>2, <1>5, <3>1, ParentWithin
    <3>3. At(k)' = At(k) /\ At(Parent(k))' = At(Parent(k))
      BY <1>7, <2>1, <3>2
    <3>4. Ordered(k)
      BY <1>1, <1>2, <3>1 DEF HeapOrder
    <3> QED
      BY <3>3, <3>4 DEF Ordered
  <2>2. ASSUME NEW k \in 1..n PROVE Parent(k) # n
    BY <1>2, ParentOf
  <2>3. Bridged(at)'
    BY <1>2, <1>5, <2>2 DEF Bridged
  <2> QED
    BY <1>2, <1>5, <2>1, <2>3 DEF HeapOrder
<1> QED
  BY <1>8, <1>9, <1>11, <1>12, <1>13 DEF HeapInv

\* What heap.Pop and heap.Remove begin with: the item at r is put behind the
\* others, and the one that took its place may sink or, but for Pop, rise.
LEMMA SwapOut ==
  ASSUME HeapInv, op = None, NEW r \in Positions, NEW l, l = Len0 - 1, Swap(r, l),
         op' \in Operations, op'.by # "Push", op'.by = "Pop" => r = 0,
         r = l => op'.by = "Pop",
         loop' = "down", at' = r, i0' = r, UNCHANGED <<jobLocators, last>>
  PROVE  /\ TypeOK' /\ LoopAgrees' /\ IndexAgrees' /\ LocatorsAgree' /\ HeapOrder'
         /\ Len0' = Len0 /\ Positions' = Positions
         /\ \A k \in Positions : At(k)' = IF k = r THEN At(l) ELSE IF k = l THEN At(r) ELSE At(k)
<1>1. TypeOK /\ LoopAgrees /\ IndexAgrees /\ LocatorsAgree /\ HeapOrder
  BY DEF HeapInv
<1>2. /\ loop = "none" /\ Len0 \in Nat /\ Size = Len0 /\ r \in Nat /\ l \in Nat /\ r <= l
      /\ l \in Positions
  BY <1>1, SizeTyped DEF LoopAgrees, Taking
<1>3. /\ Len0' = Len0 /\ Positions' = Positions /\ IndexAgrees' /\ Queued' = Queued
      /\ jobQueue' \in Seq(JobItem) /\ index' \in [Jobs -> Int]
      /\ \A k \in Positions : At(k)' = IF k = r THEN At(l) ELSE IF k = l THEN At(r) ELSE At(k)
  BY <1>1, <1>2, SwapKeeps
<1>4. op' # None /\ Taking' /\ Size' = l
  BY <1>2, <1>3, HeapNoneAssumption DEF Taking, Size
<1>5. TypeOK'
  BY <1>1, <1>2, <1>3 DEF TypeOK
<1>6. LoopAgrees'
  BY <1>2, <1>3, <1>4 DEF LoopAgrees
<1>7. LocatorsAgree'
  <2>1. \A j \in Jobs : Pushing(j)' <=> Pushing(j)
    BY <1>4 DEF Pushing
  <2> QED
    BY <1>1, <1>3, <2>1, LocatorsStay
<1>8. \A k \in 1..l : /\ k \in Positions /\ Parent(k) \in Positions
                      /\ k \in Nat /\ Parent(k) \in Nat /\ Parent(k) < k
                      /\ At(Parent(k)).pri >= At(k).pri
  <2>1. \A k \in 1..(Size - 1) : /\ k \in Positions /\ Parent(k) \in Positions
                                 /\ k \in Nat /\ Parent(k) \in Nat /\ Parent(k) < k
    BY <1>1, ParentWithin
  <2>2. \A k \in 1..(Size - 1) : At(Parent(k)).pri >= At(k).pri
    BY <1>1, <1>2 DEF HeapOrder, Ordered
  <2> QED
    BY <1>2, <2>1, <2>2
<1>9. ASSUME NEW k \in 1..(l - 1), k # r, Parent(k) # r PROVE Ordered(k)'
  <2>1. k \in 1..l /\ k # l /\ k < l
    BY <1>2
  <2>2. Parent(k) # l
    BY <1>2, <1>8, <2>1
  <2>3. At(k)' = At(k) /\ At(Parent(k))' = At(Parent(k))
    BY <1>3, <1>8, <1>9, <2>1, <2>2
  <2> QED
    BY <1>8, <2>1, <2>3 DEF Ordered
<1>10. ASSUME r > 0, NEW k \in 1..(l - 1), Parent(k) = r
       PROVE  (At(Parent(r))').pri >= (At(k)').pri
  <2>1. k \in 1..l /\ k # l /\ k < l /\ r \in 1..l
    BY <1>2, <1>10
  <2>2. k # r /\ r # l /\ Parent(r) # r /\ Parent(r) # l /\ Parent(r) \in Positions
    BY <1>2, <1>8, <1>10, <2>1
  <2>3. At(k)' = At(k) /\ At(Parent(r))' = At(Parent(r))
    BY <1>3, <1>8, <2>1, <2>2
  <2>4. At(Parent(r)).pri >= At(r).pri /\ At(r).pri >= At(k).pri
    BY <1>8, <1>10, <2>1
  <2>5. At(Parent(r)).pri \in Nat /\ At(r).pri \in Nat /\ At(k).pri \in Nat
    BY <1>1, <1>8, <2>1, <2>2, ItemTyped
  <2> QED
    BY <2>3, <2>4, <2>5
<1>11. HeapOrder'
  <2>1. Bridged(at)'
    BY <1>4, <1>10 DEF Bridged
  <2> QED
    BY <1>2, <1>4, <1>9, <2>1 DEF HeapOrder
<1> QED
  BY <1>3, <1>5, <1>6, <1>7, <1>11

\* The item that heap.Pop puts behind the others has the highest priority.
LEMMA PopKeeps == HeapInv /\ Pop => HeapInv'
<1> SUFFICES ASSUME HeapInv, Pop PROVE HeapInv'
  OBVIOUS
<1>0. PICK l : l = Len0 - 1
  OBVIOUS
<1>1. TypeOK /\ LoopAgrees /\ HeapOrder
  BY DEF HeapInv
<1>2. /\ op = None /\ op' = [by |-> "Pop", id |-> None] /\ Swap(0, l)
      /\ loop' = "down" /\ at' = 0 /\ i0' = 0 /\ UNCHANGED <<jobLocators, last>>
  BY <1>0 DEF Pop
<1>3. Len0 \in Nat /\ Len0 > 0 /\ 0 \in Positions /\ l \in Positions
  BY <1>0, <1>1 DEF Pop, TypeOK, Len0, Positions
<1>4. op' \in Operations /\ op'.by = "Pop"
  BY <1>2 DEF Operations
<1>5. /\ TypeOK' /\ LoopAgrees' /\ IndexAgrees' /\ LocatorsAgree' /\ HeapOrder'
      /\ Len0' = Len0 /\ Positions' = Positions
      /\ \A k \in Positions : At(k)' = IF k = 0 THEN At(l) ELSE IF k = l THEN At(0) ELSE At(k)
  BY <1>0, <1>2, <1>3, <1>4, SwapOut
<1>6. ASSUME NEW k \in Positions PROVE At(k).pri <= At(0).pri
  <2>1. Size = Len0 /\ \A i \in 1..(Size - 1) : Ordered(i)
    BY <1>1, <1>2 DEF Size, LoopAgrees, HeapOrder
  <2> QED
    BY <1>1, <2>1, FirstIsHighest
<1>7. At(l)' = At(0)
  BY <1>3, <1>5
<1>8. RightTaken'
  <2>1. At(Len0 - 1)' = At(l)'
    BY <1>0, <1>5 DEF At
  <2>2. \A k \in Positions : (At(k)').pri <= At(0).pri
    BY <1>3, <1>5, <1>6
  <2> QED
    BY <1>4, <1>5, <1>7, <2>1, <2>2 DEF RightTaken
<1> QED
  BY <1>5, <1>8 DEF HeapInv

\* A located job is at its index.
LEMMA LocatedAt ==
  ASSUME HeapInv, NEW i \in Jobs, i \in jobLocators
  PROVE  index[i] \in Positions /\ At(index[i]).id = i
<1>1. PICK k \in Positions : At(k).id = i
  BY DEF HeapInv, LocatorsAgree
<1>2. index[i] = k
  BY <1>1 DEF HeapInv, IndexAgrees
<1> QED
  BY <1>1, <1>2

\* The item that heap.Remove puts behind the others is the job asked for.
LEMMA RemoveKeeps ==
  ASSUME HeapInv, NEW i \in Jobs, Remove(i)
  PROVE  HeapInv'
<1>0. PICK l, r : l = Len0 - 1 /\ r = index[i]
  OBVIOUS
<1>1. TypeOK /\ LoopAgrees /\ IndexAgrees /\ LocatorsAgree /\ HeapOrder
  BY DEF HeapInv
<1>2. /\ op = None /\ i \in jobLocators /\ op' = [by |-> "Remove", id |-> i]
      /\ at' = r /\ i0' = r /\ UNCHANGED <<jobLocators, last>>
  BY <1>0 DEF Remove
<1>3. r \in Positions /\ At(r).id = i
  BY <1>0, <1>2, LocatedAt
<1>4. /\ loop = "none" /\ Size = Len0 /\ Len0 \in Nat /\ Len0 > 0
      /\ r \in Nat /\ r <= l /\ l \in Positions /\ l \in Nat
  BY <1>0, <1>1, <1>2, <1>3, SizeTyped DEF LoopAgrees, Taking
<1>5. /\ op' \in Operations /\ op' # None /\ op'.by = "Remove" /\ op'.id = i /\ Taking'
  BY <1>2, HeapNoneAssumption DEF Operations, Taking
<1>6. CASE r = l
  <2>1. loop' = "cut" /\ UNCHANGED <<jobQueue, index>>
    BY <1>0, <1>6 DEF Remove
  <2>2. Len0' = Len0 /\ Positions' = Positions /\ Size' = l
    BY <1>0, <1>5, <2>1 DEF Len0, Positions, Size
  <2>3. TypeOK'
    BY <1>1, <1>2, <1>4, <1>5, <2>1 DEF TypeOK
  <2>4. LoopAgrees'
    BY <1>4, <1>5, <2>1, <2>2 DEF LoopAgrees
  <2>5. IndexAgrees'
    BY <1>1, <2>1, <2>2 DEF IndexAgrees, At
  <2>6. LocatorsAgree'
    <3>1. \A j \in Jobs : Pushing(j)' <=> Pushing(j)
      BY <1>2, <1>5 DEF Pushing
    <3>2. Queued' = Queued
      BY <2>1, <2>2 DEF Queued, At
    <3> QED
      BY <1>1, <1>2, <3>1, <3>2, LocatorsStay
  <2>7. HeapOrder'
    <3>1. \A k \in 1..(Size - 1) : Ordered(k)
      BY <1>1, <1>4 DEF HeapOrder
    <3>2. \A k \in 1..(l - 1) : Ordered(k)'
      BY <1>0, <1>4, <2>1, <3>1 DEF Ordered, At
    <3> QED
      BY <2>1, <2>2, <3>2 DEF HeapOrder
  <2>8. RightTaken'
    BY <1>0, <1>3, <1>5, <1>6, <2>1, <2>2 DEF RightTaken, At
  <2> QED
    BY <2>3, <2>4, <2>5, <2>6, <2>7, <2>8 DEF HeapInv
<1>7. CASE r # l
  <2>1. loop' = "down" /\ Swap(r, l)
    BY <1>0, <1>7 DEF Remove
  <2>2. /\ TypeOK' /\ LoopAgrees' /\ IndexAgrees' /\ LocatorsAgree' /\ HeapOrder'
        /\ Len0' = Len0 /\ Positions' = Positions
        /\ \A k \in Positions : At(k)' = IF k = r THEN At(l) ELSE IF k = l THEN At(r) ELSE At(k)
    BY <1>0, <1>2, <1>3, <1>5, <1>7, <2>1, SwapOut
  <2>3. At(l)' = At(r)
    BY <1>4, <1>7, <2>2
  <2>4. RightTaken'
    <3>1. At(Len0 - 1)' = At(l)'
      BY <1>0, <2>2 DEF At
    <3> QED
      BY <1>3, <1>5, <2>3, <3>1 DEF RightTaken
  <2> QED
    BY <2>2, <2>4 DEF HeapInv
<1> QED
  BY <1>6, <1>7

\* jobQueue.Pop cuts the last item off, whose locator is the one deleted.
LEMMA CutKeeps ==
  ASSUME HeapInv, Cut, NEW l, l = Len0 - 1
  PROVE  /\ HeapInv'
         /\ l \in Positions /\ Queued' = Queued \ {At(l)} /\ At(l) \in Queued
         /\ last' = [by |-> op.by, id |-> op.id, job |-> At(l)]
<1>1. TypeOK /\ LoopAgrees /\ IndexAgrees /\ LocatorsAgree /\ HeapOrder /\ RightTaken
  BY DEF HeapInv
<1>2. /\ loop = "cut" /\ index' = [index EXCEPT ![At(l).id] = -1]
      /\ jobQueue' = SubSeq(jobQueue, 1, l)
      /\ last' = [by |-> op.by, id |-> op.id, job |-> At(l)]
      /\ jobLocators' = jobLocators \ {IF op.by = "Pop" THEN At(l).id ELSE op.id}
      /\ op' = None /\ loop' = "none" /\ at' = 0 /\ i0' = 0
  BY DEF Cut, PopBack, Done
<1>3. /\ Taking /\ op # None /\ op.by # "Push" /\ op \in Operations
      /\ Len0 \in Nat /\ l \in Nat /\ l \in Positions /\ Size = l /\ Len0 > 0
  BY <1>1, <1>2, SizeTyped DEF LoopAgrees, Taking, TypeOK
<1>4. jobLocators' = jobLocators \ {At(l).id}
  BY <1>1, <1>2, <1>3 DEF RightTaken
<1>5. /\ jobQueue' \in Seq(JobItem) /\ Len(jobQueue') = l
      /\ \A k \in 1..l : jobQueue'[k] = jobQueue[k]
  <2>1. jobQueue \in Seq(JobItem) /\ 1 \in 1..(Len(jobQueue) + 1) /\ l \in (1 - 1)..Len(jobQueue)
    BY <1>1, <1>3 DEF TypeOK, Len0
  <2>2. /\ jobQueue' \in Seq(JobItem) /\ Len(jobQueue') = l - 1 + 1
        /\ \A k \in 1..(l - 1 + 1) : jobQueue'[k] = jobQueue[1 + k - 1]
    BY <1>2, <2>1, SubSeqProperties
  <2> QED
    BY <1>3, <2>2
<1>6. Len0' = l /\ Size' = l /\ Positions' = 0..(l - 1) /\ Positions = 0..l
  BY <1>2, <1>3, <1>5 DEF Len0, Size, Positions
<1>7. \A k \in 0..(l - 1) : k \in Positions /\ k # l /\ At(k)' = At(k)
  BY <1>3, <1>5, <1>6 DEF At
<1>8. \A k \in Positions : k = l \/ k \in 0..(l - 1)
  BY <1>3, <1>6
<1>9. At(l) \in JobItem /\ At(l).id \in Jobs
  BY <1>1, <1>3, ItemTyped
<1>10. \A k \in 0..(l - 1) : At(k).id # At(l).id
  BY <1>1, <1>3, <1>7, OneEach
<1>11. TypeOK'
  <2>1. \/ op.by = "Pop" /\ op.id = None
        \/ op.by = "Remove" /\ op.id \in Jobs
    BY <1>3 DEF Operations
  <2>2. last' \in [by : {"Pop"}, id : {None}, job : JobItem]
                  \cup [by : {"Remove"}, id : Jobs, job : JobItem]
    BY <1>2, <1>9, <2>1
  <2>3. index' \in [Jobs -> Int]
    BY <1>1, <1>2, <1>9 DEF TypeOK
  <2> QED
    BY <1>1, <1>2, <1>4, <1>5, <2>2, <2>3 DEF TypeOK
<1>12. LoopAgrees' /\ RightTaken'
  BY <1>2 DEF LoopAgrees, RightTaken, Taking
<1>13. IndexAgrees'
  <2>1. SUFFICES ASSUME NEW k \in 0..(l - 1) PROVE index'[(At(k)').id] = k
    BY <1>6 DEF IndexAgrees
  <2>2. At(k).id \in Jobs /\ At(k).id # At(l).id /\ index[At(k).id] = k /\ At(k)' = At(k)
    BY <1>1, <1>7, <1>10, ItemTyped DEF IndexAgrees
  <2> QED
    BY <1>1, <1>2, <2>2 DEF TypeOK
<1>14. LocatorsAgree'
  <2>1. SUFFICES ASSUME NEW j \in Jobs
                 PROVE  j \in jobLocators' \/ Pushing(j)' <=> \E k \in 0..(l - 1) : (At(k)').id = j
    BY <1>6 DEF LocatorsAgree
  <2>2. ~Pushing(j)' /\ ~Pushing(j)
    BY <1>2, <1>3 DEF Pushing
  <2>3. j \in jobLocators <=> \E k \in Positions : At(k).id = j
    BY <1>1, <2>2 DEF LocatorsAgree
  <2>4. (\E k \in 0..(l - 1) : (At(k)').id = j) <=> j # At(l).id /\ \E k \in Positions : At(k).id = j
    BY <1>7, <1>8, <1>10, Zenon
  <2> QED
    BY <1>4, <2>2, <2>3, <2>4
<1>15. HeapOrder'
  <2>1. ASSUME NEW k \in 1..(l - 1) PROVE Ordered(k)'
    <3>1. k \in 1..(Size - 1)
      BY <1>3
    <3>2. k \in 0..(l - 1) /\ Parent(k) \in 0..(l - 1)
      BY <1>1, <1>3, <3>1, ParentWithin
    <3>3. At(k)' = At(k) /\ At(Parent(k))' = At(Parent(k))
      BY <1>7, <3>2
    <3>4. Ordered(k)
      BY <1>1, <1>2, <3>1 DEF HeapOrder
    <3> QED
      BY <3>3, <3>4 DEF Ordered
  <2> QED
    BY <1>2, <1>6, <2>1 DEF HeapOrder
<1>16. Queued' = Queued \ {At(l)}
  <2>1. Queued' = {At(k)' : k \in 0..(l - 1)}
    BY <1>6 DEF Queued
  <2>2. ASSUME NEW q PROVE q \in Queued' <=> q \in Queued /\ q # At(l)
    BY <1>7, <1>8, <1>10, <2>1, Zenon DEF Queued
  <2> QED
    BY <2>2
<1>17. At(l) \in Queued
  BY <1>3 DEF Queued
<1> QED
  BY <1>2, <1>3, <1>11, <1>12, <1>13, <1>14, <1>15, <1>16, <1>17 DEF HeapInv

----------------------------------------------------------------------------
(* The theorems about the heap *)

\* A step that is none of the heap's changes nothing.
LEMMA HeapStutters == HeapInv /\ UNCHANGED vars => HeapInv'
<1> SUFFICES ASSUME HeapInv, UNCHANGED vars PROVE HeapInv'
  OBVIOUS
<1>1. UNCHANGED <<jobQueue, index, jobLocators, op, loop, at, i0, last>>
  BY DEF vars, opVars
<1>2. TypeOK'
  BY <1>1 DEF HeapInv, TypeOK
<1>3. LoopAgrees'
  BY <1>1 DEF HeapInv, LoopAgrees, Taking, Size, Len0
<1>4. IndexAgrees' /\ LocatorsAgree' /\ RightTaken'
  BY <1>1 DEF HeapInv, IndexAgrees, LocatorsAgree, Pushing, RightTaken, Positions, Taking, Len0, At
<1>5. HeapOrder'
  BY <1>1 DEF HeapInv, HeapOrder, Ordered, Bridged, Size, Len0, At
<1> QED
  BY <1>2, <1>3, <1>4, <1>5 DEF HeapInv

\* Whatever the jobs and their priorities: the array is a heap but for the item
\* that an operation is moving, every index field is the position of its job, the
\* locators are those of the jobs in the array, and the item that an operation
\* has put behind the others is the one it must return (jobQueue, JobQueues.Push,
\* Pop and Remove of the job centre's main.go, container/heap).
THEOREM HeapInvariant == Spec => []HeapInv
<1>1. Init => HeapInv
  BY HeapInit
<1>2. HeapInv /\ [Next]_vars => HeapInv'
  <2> SUFFICES ASSUME HeapInv, [Next]_vars PROVE HeapInv'
    OBVIOUS
  <2>1. ASSUME NEW j \in Jobs, NEW p \in Priorities, Push(j, p) PROVE HeapInv'
    BY <2>1, PushKeeps
  <2>2. CASE Pop
    BY <2>2, PopKeeps
  <2>3. ASSUME NEW i \in Jobs, Remove(i) PROVE HeapInv'
    BY <2>3, RemoveKeeps
  <2>4. CASE Up
    BY <2>4, UpKeeps
  <2>5. CASE UpEnds
    BY <2>5, UpEndsKeeps
  <2>6. CASE PushEnds
    BY <2>6, PushEndsKeeps
  <2>7. CASE Down
    BY <2>7, DownKeeps
  <2>8. CASE DownEnds
    BY <2>8, DownEndsKeeps
  <2>9. CASE Cut
    <3>1. PICK l : l = Len0 - 1
      OBVIOUS
    <3> QED
      BY <2>9, <3>1, CutKeeps
  <2>10. CASE UNCHANGED vars
    BY <2>10, HeapStutters
  <2> QED
    BY <2>1, <2>2, <2>3, <2>4, <2>5, <2>6, <2>7, <2>8, <2>9, <2>10 DEF Next
<1> QED
  BY <1>1, <1>2, PTL DEF Spec

----------------------------------------------------------------------------
(* The refinement *)

\* The refinement mapping takes the items in the array.
LEMMA MappedItems ==
  ASSUME NEW S, NEW s \in Seq(S)
  PROVE  {s[k] : k \in DOMAIN s} = {s[k + 1] : k \in 0..(Len(s) - 1)}
<1>1. DOMAIN s = 1..Len(s) /\ Len(s) \in Nat
  OBVIOUS
<1>2. \A k \in 1..Len(s) : k - 1 \in 0..(Len(s) - 1) /\ s[k] = s[(k - 1) + 1]
  BY <1>1
<1>3. \A k \in 0..(Len(s) - 1) : k + 1 \in 1..Len(s)
  BY <1>1
<1>4. \A q : q \in {s[k] : k \in 1..Len(s)} <=> q \in {s[k + 1] : k \in 0..(Len(s) - 1)}
  BY <1>2, <1>3, Zenon
<1> QED
  BY <1>1, <1>4

\* Swap within the array, the steps that move nothing, and the beginning of an
\* operation that takes a job are no steps of the abstract queue.
LEMMA SilentSteps ==
  ASSUME HeapInv,
         Pop \/ (\E i \in Jobs : Remove(i)) \/ Up \/ UpEnds \/ PushEnds \/ Down \/ DownEnds
  PROVE  Queued' = Queued /\ last' = last
<1>1. TypeOK /\ LoopAgrees /\ IndexAgrees
  BY DEF HeapInv
<1>2. ASSUME UNCHANGED jobQueue PROVE Queued' = Queued
  BY <1>2 DEF Queued, Positions, Len0, At
<1>3. CASE Pop
  <2>1. 0 \in Positions /\ Len0 - 1 \in Positions
    BY <1>1, <1>3 DEF Pop, TypeOK, Len0, Positions
  <2> QED
    BY <1>1, <1>3, <2>1, SwapKeeps DEF Pop
<1>4. ASSUME NEW i \in Jobs, Remove(i) PROVE Queued' = Queued /\ last' = last
  <2>1. index[i] \in Positions /\ last' = last
    BY <1>4, LocatedAt DEF Remove
  <2>2. Len0 - 1 \in Positions
    BY <1>1, <2>1, SizeTyped
  <2>3. CASE UNCHANGED jobQueue
    BY <1>2, <2>1, <2>3
  <2>4. CASE Swap(index[i], Len0 - 1)
    BY <1>1, <2>1, <2>2, <2>4, SwapKeeps
  <2> QED
    BY <1>4, <2>3, <2>4 DEF Remove
<1>5. CASE Up
  <2>1. at \in Nat /\ at > 0 /\ at < Size
    BY <1>1, <1>5 DEF Up, Rises, LoopAgrees, TypeOK
  <2>2. at \in Positions /\ Parent(at) \in Positions
    BY <1>1, <2>1, ParentOf, SizeTyped
  <2> QED
    BY <1>1, <1>5, <2>2, SwapKeeps DEF Up
<1>6. CASE Down
  <2>1. at \in Nat /\ 2 * at + 1 < Size
    BY <1>1, <1>6 DEF Down, Sinks, TypeOK
  <2>2. Child(at) \in 1..(Size - 1)
    BY <1>1, <2>1, ChildOf
  <2>3. at \in Positions /\ Child(at) \in Positions
    BY <1>1, <2>1, <2>2, ParentWithin, SizeTyped
  <2> QED
    BY <1>1, <1>6, <2>3, SwapKeeps DEF Down
<1>7. CASE UpEnds \/ PushEnds \/ DownEnds
  BY <1>2, <1>7 DEF UpEnds, PushEnds, DownEnds
<1> QED
  BY <1>3, <1>4, <1>5, <1>6, <1>7

\* Push adds its job, which was not in the array, to the items in it.
LEMMA PushInserts ==
  ASSUME HeapInv, NEW j \in Jobs, NEW p \in Priorities, Push(j, p)
  PROVE  /\ \A q \in Queued : q.id # j
         /\ Queued' = Queued \cup {[id |-> j, pri |-> p]}
         /\ last' = None
<1>1. TypeOK /\ LocatorsAgree /\ op = None /\ j \notin jobLocators
  BY DEF HeapInv, Push
<1>2. \A q \in Queued : q.id # j
  BY <1>1 DEF LocatorsAgree, Pushing, Queued
<1>3. PICK n, item : n = Len0 /\ item = [id |-> j, pri |-> p]
  OBVIOUS
<1>4. jobQueue' = Append(jobQueue, item) /\ n \in Nat
  BY <1>1, <1>3 DEF Push, PushBack, TypeOK, Len0
<1>5. Len0' = n + 1 /\ \A k \in 0..n : At(k)' = IF k = n THEN item ELSE At(k)
  BY <1>1, <1>3, <1>4 DEF At, TypeOK, Len0
<1>6. /\ Positions' = 0..n
      /\ n \in 0..n
      /\ \A k \in 0..n : k = n \/ k \in Positions
      /\ \A k \in Positions : k \in 0..n /\ k # n
  BY <1>3, <1>4, <1>5 DEF Positions
<1>7. Queued' = {At(k)' : k \in 0..n}
  BY <1>6 DEF Queued
<1>8. ASSUME NEW q PROVE q \in Queued' <=> q \in Queued \/ q = item
  BY <1>5, <1>6, <1>7, Zenon DEF Queued
<1> QED
  BY <1>2, <1>3, <1>8 DEF Push

\* The array heap of a queue, with its index fields and its locators, is a
\* priority queue for any jobs and priorities: a step of Push adds the job, the
\* last step of a Pop takes a job of the highest priority and that of a Remove
\* the job it was asked for, and no other step changes which jobs there are
\* (jobQueue and JobQueues of the job centre's main.go).
THEOREM HeapImplements == Spec => IsPriorityQueue
<1> DEFINE jobs == {jobQueue[k] : k \in DOMAIN jobQueue}
<1>1. Init => Abstract!Init
  BY DEF Init, Abstract!Init
<1>2. HeapInv /\ HeapInv' /\ [Next]_vars => [Abstract!Next]_<<jobs, last>>
  <2> SUFFICES ASSUME HeapInv, HeapInv', [Next]_vars PROVE [Abstract!Next]_<<jobs, last>>
    OBVIOUS
  <2>1. jobs = Queued /\ jobs' = Queued'
    <3>1. jobQueue \in Seq(JobItem) /\ jobQueue' \in Seq(JobItem)
      BY DEF HeapInv, TypeOK
    <3>2. jobs = Queued
      BY <3>1, MappedItems DEF Queued, Positions, Len0, At
    <3>3. jobs' = Queued'
      BY <3>1, MappedItems DEF Queued, Positions, Len0, At
    <3> QED
      BY <3>2, <3>3
  <2> HIDE DEF jobs
  <2>2. ASSUME NEW j \in Jobs, NEW p \in Priorities, Push(j, p) PROVE Abstract!Insert(j, p)
    BY <2>1, <2>2, PushInserts DEF Abstract!Insert, jobs
  <2>3. CASE Pop \/ (\E i \in Jobs : Remove(i)) \/ Up \/ UpEnds \/ PushEnds \/ Down \/ DownEnds
    BY <2>1, <2>3, SilentSteps
  <2>4. CASE Cut
    <3>1. PICK l : l = Len0 - 1
      OBVIOUS
    <3>2. /\ l \in Positions /\ Queued' = Queued \ {At(l)} /\ At(l) \in Queued
          /\ last' = [by |-> op.by, id |-> op.id, job |-> At(l)]
      BY <2>4, <3>1, CutKeeps
    <3>3. op # None /\ op.by # "Push" /\ op \in Operations /\ RightTaken
      BY <2>4 DEF Cut, HeapInv, LoopAgrees, Taking, TypeOK
    <3>4. CASE op.by = "Pop"
      <4>1. op.id = None
        BY <3>3, <3>4 DEF Operations
      <4>2. \A q \in Queued : q.pri <= At(l).pri
        BY <3>1, <3>3, <3>4 DEF RightTaken, Taking, Queued
      <4>3. Abstract!TakeHighest
        BY <2>1, <3>2, <3>4, <4>1, <4>2 DEF Abstract!TakeHighest, jobs
      <4> QED
        BY <4>3 DEF Abstract!Next
    <3>5. CASE op.by = "Remove"
      <4>0. PICK i : i = op.id
        OBVIOUS
      <4>1. i \in Jobs /\ At(l).id = i
        BY <3>1, <3>3, <3>5, <4>0 DEF Operations, RightTaken, Taking
      <4>2. Abstract!TakeByID(i)
        BY <2>1, <3>2, <3>5, <4>0, <4>1 DEF Abstract!TakeByID, jobs
      <4> QED
        BY <4>1, <4>2 DEF Abstract!Next
    <3> QED
      BY <3>3, <3>4, <3>5 DEF Operations
  <2>5. CASE UNCHANGED vars
    BY <2>5 DEF vars, opVars, jobs
  <2> QED
    BY <2>2, <2>3, <2>4, <2>5 DEF Next, Abstract!Next
<1> QED
  BY <1>1, <1>2, HeapInvariant, PTL DEF Spec, IsPriorityQueue, Abstract!Spec

----------------------------------------------------------------------------
(* Blocks: what Store and Read rely on *)

\* Where block k begins in a request.
Off(k) == (k - 1) * BufSize

\* Only the last block may have room.
IsBlocks(bs) ==
  /\ bs \in Seq(Seq(Octets)) /\ bs # <<>>
  /\ \A k \in 1..Len(bs) : Len(bs[k]) <= BufSize /\ (k < Len(bs) => Len(bs[k]) = BufSize)

\* The blocks hold the bytes of s that follow the first n.
HoldBytes(bs, s, n) ==
  \A k \in 1..Len(bs) : \A j \in 1..Len(bs[k]) : bs[k][j] = s[n + Off(k) + j]

\* Blocks begin one after the other.
LEMMA OffNext ==
  ASSUME NEW k \in Nat \ {0}
  PROVE  Off(k) \in Nat /\ Off(k + 1) = Off(k) + BufSize /\ Off(1) = 0
<1>1. BufSize \in Nat
  BY BufSizeAssumption
<1>2. \A x, y \in Nat : x * y \in Nat /\ (x + 1) * y = x * y + y
  OBVIOUS
<1>3. k - 1 \in Nat /\ (k + 1) - 1 = (k - 1) + 1
  OBVIOUS
<1>4. 0 * BufSize = 0
  BY <1>1
<1> QED
  BY <1>1, <1>2, <1>3, <1>4 DEF Off

\* A block begins before every later one.
LEMMA OffMonotone ==
  ASSUME NEW k \in Nat \ {0}, NEW m \in Nat \ {0}, k < m
  PROVE  Off(k) + BufSize <= Off(m)
<1>1. BufSize \in Nat
  BY BufSizeAssumption
<1>2. PICK e \in Nat : m = k + 1 + e
  <2>1. m - k - 1 \in Nat /\ m = k + 1 + (m - k - 1)
    OBVIOUS
  <2> QED
    BY <2>1
<1>3. \A x, y, z \in Nat : (x + 1 + y) * z = x * z + z + y * z /\ y * z >= 0 /\ x * z \in Nat /\ y * z \in Nat
  OBVIOUS
<1>4. k - 1 \in Nat /\ m - 1 = (k - 1) + 1 + e
  BY <1>2
<1> QED
  BY <1>1, <1>2, <1>3, <1>4 DEF Off

\* The length of a request whose last block is block n.
LEMMA LenOf ==
  ASSUME NEW bs, IsBlocks(bs)
  PROVE  /\ Len(bs) \in Nat \ {0} /\ bs[Len(bs)] \in Seq(Octets)
         /\ \A k \in 1..Len(bs) : bs[k] \in Seq(Octets) /\ Len(bs[k]) \in Nat
         /\ RequestLen(bs) = Off(Len(bs)) + Len(bs[Len(bs)]) /\ RequestLen(bs) \in Nat
<1>1. Len(bs) \in Nat \ {0} /\ \A k \in 1..Len(bs) : bs[k] \in Seq(Octets) /\ Len(bs[k]) \in Nat
  BY DEF IsBlocks
<1>2. bs[Len(bs)] \in Seq(Octets) /\ Len(bs[Len(bs)]) \in Nat
  BY <1>1
<1>3. RequestLen(bs) = Off(Len(bs)) + Len(bs[Len(bs)])
  BY DEF IsBlocks, RequestLen, Off
<1>4. Off(Len(bs)) \in Nat
  BY <1>1, OffNext
<1> QED
  BY <1>1, <1>2, <1>3, <1>4

\* Store appends its bytes, wherever the last block ends.
LEMMA StoreAppends ==
  ASSUME NEW bs, IsBlocks(bs), NEW d \in Seq(Octets), Len(d) <= BufSize,
         NEW s, NEW from \in Nat, HoldBytes(bs, s, from),
         \A i \in 1..Len(d) : d[i] = s[from + RequestLen(bs) + i]
  PROVE  /\ IsBlocks(Store(bs, d))
         /\ HoldBytes(Store(bs, d), s, from)
         /\ RequestLen(Store(bs, d)) = RequestLen(bs) + Len(d)
<1>0. PICK m, l, n, head, tail :
        /\ m = Len(bs) /\ l = bs[m] /\ n = IF BufSize - Len(l) < Len(d) THEN BufSize - Len(l) ELSE Len(d)
        /\ head = l \o SubSeq(d, 1, n) /\ tail = SubSeq(d, n + 1, Len(d))
  OBVIOUS
<1>n. n = IF BufSize - Len(l) < Len(d) THEN BufSize - Len(l) ELSE Len(d)
  BY <1>0
<1>h. head = l \o SubSeq(d, 1, n)
  BY <1>0
<1>t. tail = SubSeq(d, n + 1, Len(d))
  BY <1>0
<1>m. m = Len(bs) /\ l = bs[m]
  BY <1>0
<1>1. /\ m \in Nat \ {0} /\ l \in Seq(Octets) /\ Len(l) \in Nat /\ Len(l) <= BufSize
      /\ BufSize \in Nat /\ Len(d) \in Nat /\ Off(m) \in Nat
      /\ RequestLen(bs) = Off(m) + Len(l)
  <2>1. m \in Nat \ {0} /\ l \in Seq(Octets) /\ RequestLen(bs) = Off(m) + Len(l)
    BY <1>0, LenOf
  <2>2. Len(l) <= BufSize
    <3>1. m \in 1..Len(bs) /\ \A k \in 1..Len(bs) : Len(bs[k]) <= BufSize
      BY <1>0, <2>1 DEF IsBlocks
    <3> QED
      BY <1>0, <3>1
  <2>3. Off(m) \in Nat
    BY <2>1, OffNext
  <2> QED
    BY <2>1, <2>2, <2>3, BufSizeAssumption
<1>2. n \in Nat /\ n <= Len(d) /\ Len(l) + n <= BufSize /\ (n # Len(d) => Len(l) + n = BufSize)
  BY <1>n, <1>1
<1>3. /\ head \in Seq(Octets) /\ Len(head) = Len(l) + n
      /\ \A j \in 1..Len(l) : head[j] = l[j]
      /\ \A j \in (Len(l) + 1)..(Len(l) + n) : head[j] = d[j - Len(l)]
  <2>1. SubSeq(d, 1, n) \in Seq(Octets) /\ Len(SubSeq(d, 1, n)) = n
        /\ \A j \in 1..n : SubSeq(d, 1, n)[j] = d[j]
    BY <1>1, <1>2
  <2> QED
    BY <1>h, <1>1, <1>2, <2>1, ConcatProperties
<1>4. /\ tail \in Seq(Octets) /\ Len(tail) = Len(d) - n
      /\ \A j \in 1..(Len(d) - n) : tail[j] = d[n + j]
  BY <1>t, <1>1, <1>2
<1>5. /\ [bs EXCEPT ![m] = head] \in Seq(Seq(Octets))
      /\ Len([bs EXCEPT ![m] = head]) = m
      /\ \A k \in 1..m : [bs EXCEPT ![m] = head][k] = IF k = m THEN head ELSE bs[k]
  BY <1>m, <1>1, <1>3 DEF IsBlocks
<1>6. \A k \in 1..m : k < m => Len(bs[k]) = BufSize
  BY <1>m DEF IsBlocks
<1>7. \A k \in 1..m : \A j \in 1..Len(bs[k]) : bs[k][j] = s[from + Off(k) + j]
  BY <1>m DEF HoldBytes
<1>8. \A j \in 1..Len(head) : head[j] = s[from + Off(m) + j]
  <2> TAKE j \in 1..Len(head)
  <2>1. CASE j <= Len(l)
    BY <1>m, <1>1, <1>2, <1>3, <1>7, <2>1
  <2>2. CASE j > Len(l)
    <3>1. j - Len(l) \in 1..Len(d) /\ j \in (Len(l) + 1)..(Len(l) + n)
      BY <1>1, <1>2, <1>3, <2>2
    <3>2. head[j] = d[j - Len(l)]
      BY <1>3, <3>1
    <3>3. from + RequestLen(bs) + (j - Len(l)) = from + Off(m) + j
      BY <1>1, <3>1
    <3> QED
      BY <3>1, <3>2, <3>3
  <2> QED
    BY <1>1, <1>2, <1>3, <2>1, <2>2
<1>9. CASE n = Len(d)
  <2>1. Store(bs, d) = [bs EXCEPT ![m] = head]
    BY <1>0, <1>9 DEF Store
  <2> DEFINE t == [bs EXCEPT ![m] = head]
  <2>2. /\ t \in Seq(Seq(Octets)) /\ Len(t) = m
        /\ \A k \in 1..m : t[k] = IF k = m THEN head ELSE bs[k]
    BY <1>5
  <2> HIDE DEF t
  <2>3. IsBlocks(t)
    <3>1. t # <<>>
      BY <1>1, <2>2
    <3>2. Len(head) <= BufSize
      BY <1>2, <1>3
    <3>3. \A k \in 1..m : Len(t[k]) <= BufSize /\ (k < m => Len(t[k]) = BufSize)
      BY <1>1, <1>6, <1>m, <2>2, <3>2 DEF IsBlocks
    <3> QED
      BY <2>2, <3>1, <3>3 DEF IsBlocks
  <2>4. HoldBytes(t, s, from)
    <3>1. ASSUME NEW k \in 1..m PROVE \A j \in 1..Len(t[k]) : t[k][j] = s[from + Off(k) + j]
      <4>1. CASE k = m
        BY <1>8, <2>2, <4>1
      <4>2. CASE k # m
        <5>1. t[k] = bs[k]
          BY <2>2, <4>2
        <5> QED
          BY <1>7, <5>1
      <4> QED
        BY <4>1, <4>2
    <3> QED
      BY <2>2, <3>1 DEF HoldBytes
  <2>5. RequestLen(t) = Off(m) + Len(head)
    BY <1>1, <2>2, <2>3, LenOf
  <2> QED
    BY <1>1, <1>3, <1>9, <2>1, <2>3, <2>4, <2>5 DEF t
<1>10. CASE n # Len(d)
  <2> DEFINE u == [bs EXCEPT ![m] = head]
             t == Append(u, tail)
  <2>1. Store(bs, d) = t
    BY <1>0, <1>10 DEF Store
  <2>2. /\ u \in Seq(Seq(Octets)) /\ Len(u) = m
        /\ \A k \in 1..m : u[k] = IF k = m THEN head ELSE bs[k]
    BY <1>5
  <2> HIDE DEF u
  <2>3. /\ t \in Seq(Seq(Octets)) /\ Len(t) = m + 1 /\ t[m + 1] = tail
        /\ \A k \in 1..m : t[k] = IF k = m THEN head ELSE bs[k]
    <3>1. /\ t \in Seq(Seq(Octets)) /\ Len(t) = m + 1 /\ t[m + 1] = tail
          /\ \A k \in 1..m : t[k] = u[k]
      <4>1. u \in Seq(Seq(Octets)) /\ Len(u) = m /\ tail \in Seq(Octets)
        BY <1>4, <2>2
      <4> QED
        BY <4>1, AppendProperties
    <3> QED
      BY <2>2, <3>1
  <2> HIDE DEF t
  <2>4. Len(head) = BufSize /\ Len(tail) \in Nat /\ Len(tail) <= BufSize
    BY <1>1, <1>2, <1>3, <1>4, <1>10
  <2>5. \A k \in 1..(m + 1) : k \in 1..m \/ k = m + 1
    BY <1>1
  <2>6. IsBlocks(t)
    <3>1. t # <<>>
      BY <1>1, <2>3
    <3>2. ASSUME NEW k \in 1..m PROVE Len(t[k]) = BufSize
      <4>1. CASE k = m
        BY <2>3, <2>4, <4>1
      <4>2. CASE k < m
        BY <1>6, <2>3, <4>2
      <4> QED
        BY <1>1, <4>1, <4>2
    <3>3. \A k \in 1..(m + 1) : Len(t[k]) <= BufSize /\ (k < m + 1 => Len(t[k]) = BufSize)
      BY <1>1, <2>3, <2>4, <2>5, <3>2
    <3> QED
      BY <2>3, <3>1, <3>3 DEF IsBlocks
  <2>7. \A j \in 1..Len(tail) : tail[j] = s[from + Off(m + 1) + j]
    <3> TAKE j \in 1..Len(tail)
    <3>1. n + j \in 1..Len(d) /\ tail[j] = d[n + j]
      BY <1>1, <1>2, <1>4
    <3>2. Off(m + 1) = Off(m) + BufSize
      BY <1>1, OffNext
    <3>3. from + RequestLen(bs) + (n + j) = from + Off(m + 1) + j
      BY <1>1, <1>2, <1>10, <2>4, <3>2
    <3> QED
      BY <3>1, <3>3
  <2>8. HoldBytes(t, s, from)
    <3>1. ASSUME NEW k \in 1..(m + 1) PROVE \A j \in 1..Len(t[k]) : t[k][j] = s[from + Off(k) + j]
      <4>1. CASE k = m + 1
        BY <2>3, <2>7, <4>1
      <4>2. CASE k = m
        BY <1>1, <1>8, <2>3, <4>2
      <4>3. CASE k \in 1..m /\ k # m
        BY <1>7, <2>3, <4>3
      <4> QED
        BY <2>5, <4>1, <4>2, <4>3
    <3> QED
      BY <2>3, <3>1 DEF HoldBytes
  <2>9. RequestLen(t) = Off(m + 1) + Len(tail)
    BY <1>1, <2>3, <2>6, LenOf
  <2>10. Off(m + 1) = Off(m) + BufSize
    BY <1>1, OffNext
  <2> QED
    BY <1>1, <1>2, <1>3, <1>4, <1>10, <2>1, <2>4, <2>6, <2>8, <2>9, <2>10
<1> QED
  BY <1>9, <1>10

\* What Read computes from a position: the block and the place in it.
LEMMA PositionSplits ==
  ASSUME NEW x \in Nat
  PROVE  /\ x \div BufSize + 1 \in Nat \ {0} /\ x % BufSize \in Nat /\ x % BufSize < BufSize
         /\ x = Off(x \div BufSize + 1) + (x % BufSize)
<1>1. BufSize \in Nat \ {0}
  BY BufSizeAssumption
<1>2. \A a, b \in Nat : b > 0 => a \div b \in Nat /\ a % b \in Nat /\ a % b < b /\ a = (a \div b) * b + (a % b)
  OBVIOUS
<1>3. /\ x \div BufSize \in Nat /\ x % BufSize \in Nat /\ x % BufSize < BufSize
      /\ x = (x \div BufSize) * BufSize + (x % BufSize)
  BY <1>1, <1>2
<1>4. (x \div BufSize + 1) - 1 = x \div BufSize
  BY <1>3
<1> QED
  BY <1>3, <1>4 DEF Off

\* The block in which a position lies holds a byte for it.
LEMMA BlockAt ==
  ASSUME NEW bs, IsBlocks(bs), NEW x \in Nat, x < RequestLen(bs),
         NEW q \in Nat \ {0}, NEW r \in Nat, r < BufSize, x = Off(q) + r
  PROVE  /\ q \in 1..Len(bs) /\ bs[q] \in Seq(Octets) /\ Len(bs[q]) \in Nat /\ r < Len(bs[q])
         /\ x - r + Len(bs[q]) <= RequestLen(bs)
<1>1. BufSize \in Nat \ {0}
  BY BufSizeAssumption
<1>2. /\ Len(bs) \in Nat \ {0}
      /\ \A k \in 1..Len(bs) : bs[k] \in Seq(Octets) /\ Len(bs[k]) \in Nat
      /\ RequestLen(bs) = Off(Len(bs)) + Len(bs[Len(bs)])
  BY LenOf
<1>3. Len(bs[Len(bs)]) \in Nat /\ Len(bs[Len(bs)]) <= BufSize
  BY <1>2 DEF IsBlocks
<1>4. Off(Len(bs)) \in Nat /\ Off(q) \in Nat
  BY <1>2, OffNext
<1>5. q <= Len(bs)
  <2>1. SUFFICES ASSUME Len(bs) < q PROVE FALSE
    BY <1>2
  <2>2. Off(Len(bs)) + BufSize <= Off(q)
    BY <1>2, <2>1, OffMonotone
  <2> QED
    BY <1>1, <1>2, <1>3, <1>4, <2>2
<1>6. CASE q = Len(bs)
  BY <1>2, <1>3, <1>4, <1>6
<1>7. CASE q < Len(bs)
  <2>1. Off(q) + BufSize <= Off(Len(bs))
    BY <1>2, <1>7, OffMonotone
  <2>2. q \in 1..Len(bs) /\ Len(bs[q]) = BufSize
    BY <1>2, <1>7 DEF IsBlocks
  <2> QED
    BY <1>1, <1>2, <1>3, <1>4, <2>1, <2>2
<1> QED
  BY <1>2, <1>5, <1>6, <1>7

----------------------------------------------------------------------------
(* The inductive invariant of the framing *)

\* No newline among the bytes of s after the first a up to b.
NoNewline(s, a, b) == \A i \in (a + 1)..b : s[i] # Newline

Unframed == LineStart(Len(requests) + 1)
Framed == Unframed + RequestLen(blocks)

Request == [data : Seq(Seq(Octets)), end : Nat]

FramingTypeOK ==
  /\ sent \in Seq(Octets) /\ unread \in Seq(Octets) /\ prevBuf \in Seq(Octets)
  /\ requests \in Seq(Request)
  /\ taken \in Nat /\ open \in BOOLEAN /\ pos \in Nat /\ room \in Nat
  /\ got \in Seq(Octets)

\* A request that starts after n bytes of s is a line of s.
IsLine(q, s, n) ==
  /\ IsBlocks(q.data) /\ HoldBytes(q.data, s, n)
  /\ q.end = n + RequestLen(q.data) + 1
  /\ q.end <= Len(s) /\ s[q.end] = Newline
  /\ NoNewline(s, n, q.end - 1)

LinesFramed == \A k \in 1..Len(requests) : IsLine(requests[k], sent, LineStart(k))

\* The rest of the stream is in the blocks, carried over or not read yet.
RestFollows ==
  /\ IF blocks = <<>> THEN TRUE ELSE IsBlocks(blocks) /\ HoldBytes(blocks, sent, Unframed)
  /\ sent = <<>> => blocks = <<>>
  /\ NoNewline(sent, Unframed, Framed)
  /\ Len(prevBuf) <= BufSize
  /\ Framed + Len(prevBuf) + Len(unread) = Len(sent)
  /\ \A i \in 1..Len(prevBuf) : prevBuf[i] = sent[Framed + i]
  /\ \A i \in 1..Len(unread) : unread[i] = sent[Framed + Len(prevBuf) + i]

\* The worker has read the first bytes of the line.
ReadsLine ==
  /\ taken <= Len(requests)
  /\ open => /\ taken > 0 /\ Len(got) = pos /\ pos <= RequestLen(Data)
             /\ \A i \in 1..Len(got) : got[i] = sent[LineStart(taken) + i]
  /\ room > 0 => open /\ pos < RequestLen(Data)

FramingInv == FramingTypeOK /\ LinesFramed /\ RestFollows /\ ReadsLine

\* Lines start at numbers.
LEMMA StartTyped ==
  ASSUME FramingTypeOK, NEW k \in 1..(Len(requests) + 1)
  PROVE  LineStart(k) \in Nat
<1>1. Len(requests) \in Nat
  BY DEF FramingTypeOK
<1>2. CASE k = 1
  BY <1>2 DEF LineStart
<1>3. CASE k # 1
  <2>1. k - 1 \in 1..Len(requests)
    BY <1>1, <1>3
  <2>2. requests[k - 1] \in Request
    BY <2>1 DEF FramingTypeOK
  <2>3. requests[k - 1].end \in Nat
    BY <2>2 DEF Request
  <2> QED
    BY <1>3, <2>3 DEF LineStart
<1> QED
  BY <1>2, <1>3

\* The numbers that the invariant is about.
LEMMA FramingNumbers ==
  ASSUME FramingInv
  PROVE  /\ Len(requests) \in Nat /\ Len(sent) \in Nat /\ Len(unread) \in Nat /\ Len(prevBuf) \in Nat
         /\ Unframed \in Nat /\ RequestLen(blocks) \in Nat /\ Framed \in Nat
         /\ Framed = Unframed + RequestLen(blocks)
<1>1. FramingTypeOK /\ RestFollows
  BY DEF FramingInv
<1>2. Len(requests) \in Nat /\ Len(sent) \in Nat /\ Len(unread) \in Nat /\ Len(prevBuf) \in Nat
  BY <1>1 DEF FramingTypeOK
<1>3. Unframed \in Nat
  BY <1>1, <1>2, StartTyped DEF Unframed
<1>4. RequestLen(blocks) \in Nat
  <2>1. CASE blocks = <<>>
    BY <2>1 DEF RequestLen
  <2>2. CASE blocks # <<>>
    BY <1>1, <2>2, LenOf DEF RestFollows
  <2> QED
    BY <2>1, <2>2
<1> QED
  BY <1>2, <1>3, <1>4 DEF Framed

\* Nothing is sent, framed or read at the start.
LEMMA FramingStart == FramingInit => FramingInv
<1> SUFFICES ASSUME FramingInit PROVE FramingInv
  OBVIOUS
<1>1. /\ sent = <<>> /\ unread = <<>> /\ prevBuf = <<>> /\ blocks = <<>> /\ requests = <<>>
      /\ taken = 0 /\ open = FALSE /\ pos = 0 /\ room = 0 /\ got = <<>>
  BY DEF FramingInit
<1>2. FramingTypeOK
  <2>1. /\ sent \in Seq(Octets) /\ unread \in Seq(Octets) /\ prevBuf \in Seq(Octets)
        /\ got \in Seq(Octets) /\ requests \in Seq(Request)
    BY <1>1
  <2>2. taken \in Nat /\ pos \in Nat /\ room \in Nat /\ open \in BOOLEAN
    BY <1>1
  <2> QED
    BY <2>1, <2>2 DEF FramingTypeOK
<1>3. LinesFramed
  BY <1>1 DEF LinesFramed
<1>4. Unframed = 0 /\ Framed = 0
  BY <1>1 DEF Unframed, Framed, LineStart, RequestLen
<1>5. RestFollows
  BY <1>1, <1>4, BufSizeAssumption DEF RestFollows, NoNewline
<1>6. ReadsLine
  BY <1>1 DEF ReadsLine
<1> QED
  BY <1>2, <1>3, <1>5, <1>6 DEF FramingInv

\* The invariant implies what the runs check.
LEMMA InvFramesExact == FramingInv => FramesExact
<1> SUFFICES ASSUME FramingInv PROVE FramesExact
  OBVIOUS
<1>1. FramingTypeOK /\ LinesFramed /\ RestFollows /\ ReadsLine
  BY DEF FramingInv
<1>2. /\ Len(requests) \in Nat /\ Len(sent) \in Nat /\ Len(unread) \in Nat /\ Len(prevBuf) \in Nat
      /\ Framed \in Nat
  BY FramingNumbers
<1>3. ASSUME NEW k \in DOMAIN requests
      PROVE  /\ requests[k].end = LineStart(k) + RequestLen(requests[k].data) + 1
             /\ sent[requests[k].end] = Newline
             /\ \A i \in (LineStart(k) + 1)..(requests[k].end - 1) : sent[i] # Newline
  <2>1. k \in 1..Len(requests)
    BY <1>1 DEF FramingTypeOK
  <2> QED
    BY <1>1, <2>1 DEF LinesFramed, IsLine, NoNewline
<1>4. open => /\ Len(got) = pos /\ pos <= RequestLen(Data)
              /\ \A i \in DOMAIN got : got[i] = sent[LineStart(taken) + i]
  BY <1>1 DEF ReadsLine, FramingTypeOK
<1>5. prevBuf \o unread = SubSeq(sent, Framed + 1, Len(sent))
  <2> DEFINE a == prevBuf \o unread
             b == SubSeq(sent, Framed + 1, Len(sent))
  <2>1. /\ a \in Seq(Octets) /\ Len(a) = Len(prevBuf) + Len(unread)
        /\ \A i \in 1..(Len(prevBuf) + Len(unread)) :
             a[i] = IF i <= Len(prevBuf) THEN prevBuf[i] ELSE unread[i - Len(prevBuf)]
    BY <1>1, ConcatProperties DEF FramingTypeOK
  <2>2. Framed + Len(prevBuf) + Len(unread) = Len(sent)
    BY <1>1 DEF RestFollows
  <2>3. /\ b \in Seq(Octets) /\ Len(b) = Len(sent) - Framed
        /\ \A i \in 1..(Len(sent) - Framed) : b[i] = sent[Framed + i]
    BY <1>1, <1>2, <2>2 DEF FramingTypeOK
  <2> HIDE DEF a, b
  <2>4. Len(a) = Len(b) /\ Len(a) \in Nat
    BY <1>2, <2>1, <2>2, <2>3
  <2>5. ASSUME NEW i \in 1..Len(a) PROVE a[i] = b[i]
    <3>1. i \in 1..(Len(prevBuf) + Len(unread)) /\ b[i] = sent[Framed + i]
      BY <1>2, <2>1, <2>2, <2>3
    <3>2. CASE i <= Len(prevBuf)
      BY <1>1, <1>2, <2>1, <3>1, <3>2 DEF RestFollows
    <3>3. CASE ~(i <= Len(prevBuf))
      <4>1. i - Len(prevBuf) \in 1..Len(unread) /\ Framed + Len(prevBuf) + (i - Len(prevBuf)) = Framed + i
        BY <1>2, <3>1, <3>3
      <4>2. unread[i - Len(prevBuf)] = sent[Framed + i]
        BY <1>1, <4>1 DEF RestFollows
      <4> QED
        BY <2>1, <3>1, <3>3, <4>2
    <3> QED
      BY <3>2, <3>3
  <2>6. a = b
    BY <2>1, <2>3, <2>4, <2>5, SeqEqual
  <2> QED
    BY <2>6 DEF a, b
<1>6. \A i \in (Unframed + 1)..Framed : sent[i] # Newline
  BY <1>1 DEF RestFollows, NoNewline
<1> QED
  BY <1>3, <1>4, <1>5, <1>6 DEF FramesExact, Framed, Unframed

----------------------------------------------------------------------------
(* The steps of the reader *)

\* A stream arrives before anything was framed.
LEMMA ConnectKeeps ==
  ASSUME FramingInv, NEW s \in Streams, Connect(s)
  PROVE  FramingInv'
<1>1. FramingTypeOK /\ LinesFramed /\ RestFollows /\ ReadsLine
  BY DEF FramingInv
<1>2. /\ sent = <<>> /\ sent' = s /\ unread' = s
      /\ prevBuf' = prevBuf /\ blocks' = blocks /\ requests' = requests
      /\ taken' = taken /\ open' = open /\ pos' = pos /\ room' = room /\ got' = got
  BY DEF Connect, workerVars
<1>3. s \in Seq(Octets) /\ Len(s) \in Nat
  BY StreamsAssumption
<1>4. blocks = <<>> /\ RequestLen(blocks) = 0 /\ Len(sent) = 0
  BY <1>1, <1>2 DEF RestFollows, RequestLen
<1>5. Framed = 0 /\ Len(prevBuf) = 0 /\ Unframed = 0
  <2>1. Framed + Len(prevBuf) + Len(unread) = Len(sent)
    BY <1>1 DEF RestFollows
  <2>2. /\ Framed \in Nat /\ Len(prevBuf) \in Nat /\ Len(unread) \in Nat /\ Unframed \in Nat
        /\ Framed = Unframed + RequestLen(blocks)
    BY FramingNumbers
  <2> QED
    BY <1>4, <2>1, <2>2
<1>6. Len(requests) = 0
  <2>1. SUFFICES ASSUME Len(requests) # 0 PROVE FALSE
    OBVIOUS
  <2>2. Len(requests) \in 1..Len(requests)
    BY <2>1, FramingNumbers
  <2>3. IsLine(requests[Len(requests)], sent, LineStart(Len(requests)))
    BY <1>1, <2>2 DEF LinesFramed
  <2>4. LineStart(Len(requests)) \in Nat /\ RequestLen(requests[Len(requests)].data) \in Nat
    BY <1>1, <2>2, <2>3, StartTyped, LenOf, FramingNumbers DEF IsLine
  <2> QED
    BY <1>4, <2>3, <2>4 DEF IsLine
<1>7. FramingTypeOK'
  BY <1>1, <1>2, <1>3 DEF FramingTypeOK
<1>8. LinesFramed'
  BY <1>2, <1>6 DEF LinesFramed
<1>9. Unframed' = 0 /\ Framed' = 0
  BY <1>2, <1>4, <1>5, <1>6 DEF Unframed, Framed, LineStart, RequestLen
<1>10. RestFollows'
  BY <1>2, <1>3, <1>4, <1>5, <1>9, BufSizeAssumption DEF RestFollows, NoNewline
<1>11. ReadsLine'
  <2>1. taken = 0 /\ ~open /\ ~(room > 0)
    BY <1>1, <1>6 DEF ReadsLine, FramingTypeOK
  <2> QED
    BY <1>2, <1>6, <2>1 DEF ReadsLine
<1> QED
  BY <1>7, <1>8, <1>10, <1>11 DEF FramingInv

\* The blocks that a round stores to hold what the blocks held.
LEMMA OpenedHolds ==
  ASSUME FramingInv
  PROVE  IsBlocks(Opened) /\ HoldBytes(Opened, sent, Unframed) /\ RequestLen(Opened) = RequestLen(blocks)
<1>1. RestFollows
  BY DEF FramingInv
<1>2. CASE blocks = <<>>
  <2>1. Opened = << <<>> >>
    BY <1>2 DEF Opened
  <2>2. /\ << <<>> >> \in Seq(Seq(Octets)) /\ << <<>> >> # <<>> /\ Len(<< <<>> >>) = 1
        /\ << <<>> >>[1] = <<>> /\ Len(<<>>) = 0
    OBVIOUS
  <2>3. IsBlocks(<< <<>> >>)
    BY <2>2, BufSizeAssumption DEF IsBlocks
  <2>4. HoldBytes(<< <<>> >>, sent, Unframed)
    BY <2>2 DEF HoldBytes
  <2>5. RequestLen(<< <<>> >>) = 0 /\ RequestLen(blocks) = 0
    BY <1>2, <2>2, BufSizeAssumption DEF RequestLen
  <2> QED
    BY <2>1, <2>3, <2>4, <2>5
<1>3. CASE blocks # <<>>
  BY <1>1, <1>3 DEF Opened, RestFollows
<1> QED
  BY <1>2, <1>3

\* What was framed is not touched when a request is appended, and the next line
\* starts where it ended.
LEMMA AppendedRequest ==
  ASSUME FramingTypeOK, NEW q \in Request, requests' = Append(requests, q)
  PROVE  /\ Len(requests') = Len(requests) + 1 /\ requests' \in Seq(Request)
         /\ \A k \in 1..Len(requests) : requests'[k] = requests[k]
         /\ requests'[Len(requests) + 1] = q
         /\ \A k \in 1..(Len(requests) + 1) : LineStart(k)' = LineStart(k)
         /\ Unframed' = q.end
<1>1. requests \in Seq(Request) /\ Len(requests) \in Nat
  BY DEF FramingTypeOK
<1>2. /\ Len(requests') = Len(requests) + 1 /\ requests' \in Seq(Request)
      /\ \A k \in 1..Len(requests) : requests'[k] = requests[k]
      /\ requests'[Len(requests) + 1] = q
  BY <1>1
<1>3. ASSUME NEW k \in 1..(Len(requests) + 1) PROVE LineStart(k)' = LineStart(k)
  <2>1. CASE k = 1
    BY <2>1 DEF LineStart
  <2>2. CASE k # 1
    <3>1. k - 1 \in 1..Len(requests)
      BY <1>1, <2>2
    <3> QED
      BY <1>2, <2>2, <3>1 DEF LineStart
  <2> QED
    BY <2>1, <2>2
<1>4. Unframed' = q.end
  <2>1. Len(requests') + 1 # 1 /\ (Len(requests') + 1) - 1 = Len(requests) + 1
    BY <1>1, <1>2
  <2> QED
    BY <1>2, <2>1 DEF Unframed, LineStart
<1> QED
  BY <1>2, <1>3, <1>4

\* The worker does not see the reader's rounds.
LEMMA WorkerUnmoved ==
  ASSUME FramingInv, UNCHANGED <<sent, workerVars>>,
         Len(requests') \in Nat, Len(requests) <= Len(requests'),
         \A k \in 1..Len(requests) : requests'[k] = requests[k] /\ LineStart(k)' = LineStart(k)
  PROVE  ReadsLine'
<1>1. ReadsLine /\ FramingTypeOK /\ Len(requests) \in Nat
  BY FramingNumbers DEF FramingInv
<1>2. sent' = sent /\ taken' = taken /\ open' = open /\ pos' = pos /\ room' = room /\ got' = got
  BY DEF workerVars
<1>3. taken \in Nat /\ taken <= Len(requests)
  BY <1>1 DEF ReadsLine, FramingTypeOK
<1>4. ASSUME open PROVE Data' = Data /\ LineStart(taken)' = LineStart(taken)
  <2>1. PICK t : t = taken
    OBVIOUS
  <2>2. t \in 1..Len(requests)
    BY <1>1, <1>3, <1>4, <2>1 DEF ReadsLine
  <2>3. LineStart(taken)' = LineStart(t)'
    BY <1>2, <2>1 DEF LineStart
  <2> QED
    BY <1>2, <2>1, <2>2, <2>3 DEF Data
<1>5. taken' <= Len(requests')
  BY <1>1, <1>2, <1>3
<1>6. CASE open
  BY <1>1, <1>2, <1>4, <1>5, <1>6 DEF ReadsLine
<1>7. CASE ~open
  BY <1>1, <1>2, <1>5, <1>7 DEF ReadsLine
<1> QED
  BY <1>6, <1>7

\* buf are the next bytes of the stream, rest those that follow.
NextBytes(buf, rest) ==
  /\ Len(buf) > 0 /\ Len(buf) <= BufSize
  /\ Framed + Len(buf) + Len(rest) = Len(sent)
  /\ \A i \in 1..Len(buf) : buf[i] = sent[Framed + i]
  /\ \A i \in 1..Len(rest) : rest[i] = sent[Framed + Len(buf) + i]

\* One round moves the bytes of buf, the next ones of the stream, to the blocks;
\* with a newline among them, the request is the line up to it.
LEMMA RoundKeeps ==
  ASSUME FramingInv, NEW buf \in Seq(Octets), NEW rest \in Seq(Octets),
         NextBytes(buf, rest), unread' = rest,
         UNCHANGED <<sent, workerVars>>, Round(buf)
  PROVE  FramingInv'
<1>1. FramingTypeOK /\ LinesFramed /\ RestFollows /\ ReadsLine
  BY DEF FramingInv
<1>2. /\ sent' = sent /\ taken' = taken /\ open' = open /\ pos' = pos /\ room' = room /\ got' = got
  BY DEF workerVars
<1>3. /\ Len(requests) \in Nat /\ Len(sent) \in Nat /\ Unframed \in Nat /\ Framed \in Nat
      /\ RequestLen(blocks) \in Nat /\ Framed = Unframed + RequestLen(blocks)
      /\ BufSize \in Nat /\ Len(buf) \in Nat /\ Len(rest) \in Nat
      /\ Len(buf) > 0 /\ Len(buf) <= BufSize
      /\ Framed + Len(buf) + Len(rest) = Len(sent)
  BY FramingNumbers, BufSizeAssumption DEF NextBytes
<1>f. Framed \in Nat /\ Len(buf) \in Nat /\ Unframed \in Nat
  BY <1>3
<1>l. Len(requests) \in Nat
  BY <1>3
<1>b. \A k \in 1..Len(buf) : buf[k] = sent[Framed + k]
  BY DEF NextBytes
<1>r. \A k \in 1..Len(rest) : rest[k] = sent[Framed + Len(buf) + k]
  BY DEF NextBytes
<1>4. IsBlocks(Opened) /\ HoldBytes(Opened, sent, Unframed) /\ RequestLen(Opened) = RequestLen(blocks)
  BY OpenedHolds
<1>5. sent # <<>>
  BY <1>3
<1>6. NoNewline(sent, Unframed, Framed)
  BY <1>1 DEF RestFollows
<1>7. CASE /\ \A i \in DOMAIN buf : buf[i] # Newline
           /\ blocks' = Store(Opened, buf) /\ prevBuf' = <<>> /\ requests' = requests
  <2>1. /\ IsBlocks(blocks') /\ HoldBytes(blocks', sent, Unframed)
        /\ RequestLen(blocks') = RequestLen(blocks) + Len(buf)
    <3>1. \A i \in 1..Len(buf) : buf[i] = sent[Unframed + RequestLen(Opened) + i]
      BY <1>3, <1>4, <1>b
    <3>2. Len(buf) <= BufSize /\ Unframed \in Nat
      BY <1>3
    <3> QED
      BY <1>4, <1>7, <3>1, <3>2, StoreAppends
  <2>2. Unframed' = Unframed /\ \A k : LineStart(k)' = LineStart(k)
    BY <1>7 DEF Unframed, LineStart
  <2>3. Framed' = Framed + Len(buf)
    <3>1. Framed' = Unframed' + RequestLen(blocks')
      BY DEF Framed, RequestLen
    <3> QED
      BY <1>3, <2>1, <2>2, <3>1
  <2>4. FramingTypeOK'
    BY <1>1, <1>2, <1>7 DEF FramingTypeOK
  <2>5. LinesFramed'
    BY <1>1, <1>2, <1>7, <2>2 DEF LinesFramed
  <2>6. NoNewline(sent', Unframed', Framed')
    <3>1. SUFFICES ASSUME NEW i \in (Unframed + 1)..(Framed + Len(buf)) PROVE sent[i] # Newline
      BY <1>2, <2>2, <2>3 DEF NoNewline
    <3>2. CASE i <= Framed
      <4>1. i \in (Unframed + 1)..Framed
        BY <1>f, <3>2
      <4> QED
        BY <1>6, <4>1 DEF NoNewline
    <3>3. CASE i > Framed
      <4>1. i - Framed \in 1..Len(buf) /\ Framed + (i - Framed) = i
        BY <1>f, <3>3
      <4>2. buf[i - Framed] = sent[i]
        BY <1>b, <4>1
      <4> QED
        BY <1>7, <4>1, <4>2
    <3> QED
      BY <1>3, <3>2, <3>3
  <2>7. RestFollows'
    <3>1. Len(prevBuf') = 0
      BY <1>7
    <3>a. Framed' + Len(prevBuf') = Framed + Len(buf)
      BY <1>f, <2>3, <3>1
    <3>2. Framed' + Len(prevBuf') + Len(unread') = Len(sent')
      <4>1. Framed + Len(buf) + Len(rest) = Len(sent)
        BY <1>3
      <4> QED
        BY <1>2, <3>a, <4>1, Zenon
    <3>3. \A i \in 1..Len(unread') : unread'[i] = sent'[Framed' + Len(prevBuf') + i]
      BY <1>2, <1>r, <3>a, Zenon
    <3>4. HoldBytes(blocks', sent', Unframed')
      BY <1>2, <2>1, <2>2
    <3>5. \A i \in 1..Len(prevBuf') : prevBuf'[i] = sent'[Framed' + i]
      BY <3>1
    <3>6. Len(prevBuf') <= BufSize
      BY <1>3, <3>1
    <3> QED
      BY <1>2, <1>5, <2>1, <2>6, <3>2, <3>3, <3>4, <3>5, <3>6 DEF RestFollows
  <2>8. ReadsLine'
    BY <1>3, <1>7, <2>2, WorkerUnmoved
  <2> QED
    BY <2>4, <2>5, <2>7, <2>8 DEF FramingInv
<1>8. ASSUME NEW i \in DOMAIN buf, IsNewlineIdx(buf, i),
             blocks' = <<>>, prevBuf' = AfterNewline(buf, i),
             requests' = Append(requests,
                                [data |-> Store(Opened, SubSeq(buf, 1, i - 1)),
                                 end  |-> Len(sent) - Len(unread') - Len(prevBuf')])
      PROVE  FramingInv'
  <2>1. PICK d, q : /\ d = SubSeq(buf, 1, i - 1)
                    /\ q = [data |-> Store(Opened, d), end |-> Len(sent) - Len(unread') - Len(prevBuf')]
    OBVIOUS
  <2>2. i \in Nat /\ i > 0 /\ i <= Len(buf)
    <3>1. \A m \in Nat : \A k \in 1..m : k \in Nat /\ k > 0 /\ k <= m
      OBVIOUS
    <3>2. i \in 1..Len(buf) /\ Len(buf) \in Nat
      BY <1>f
    <3> QED
      BY <3>1, <3>2, Zenon
  <2>3. /\ d \in Seq(Octets) /\ Len(d) = i - 1
        /\ \A j \in 1..(i - 1) : d[j] = buf[j]
    BY <2>1, <2>2
  <2>4. /\ prevBuf' \in Seq(Octets) /\ Len(prevBuf') = Len(buf) - i
        /\ \A j \in 1..(Len(buf) - i) : prevBuf'[j] = buf[i + j]
    <3>1. prevBuf' = SubSeq(buf, i + 1, Len(buf))
      BY <1>8 DEF AfterNewline
    <3>2. i + 1 \in Int /\ Len(buf) \in Int /\ \A j \in (i + 1)..Len(buf) : buf[j] \in Octets
      BY <1>f, <2>2
    <3>3. /\ prevBuf' \in Seq(Octets)
          /\ Len(prevBuf') = IF i + 1 <= Len(buf) THEN Len(buf) - (i + 1) + 1 ELSE 0
          /\ \A j \in 1..(Len(buf) - (i + 1) + 1) : prevBuf'[j] = buf[(i + 1) + j - 1]
      BY <3>1, <3>2, SubSeqProperties
    <3>4. \A m, k \in Nat : k <= m =>
            /\ (m - k) = IF k + 1 <= m THEN m - (k + 1) + 1 ELSE 0
            /\ m - (k + 1) + 1 = m - k
            /\ \A j \in 1..(m - k) : (k + 1) + j - 1 = k + j
      OBVIOUS
    <3>5. /\ Len(buf) - i = IF i + 1 <= Len(buf) THEN Len(buf) - (i + 1) + 1 ELSE 0
          /\ Len(buf) - (i + 1) + 1 = Len(buf) - i
          /\ \A j \in 1..(Len(buf) - i) : (i + 1) + j - 1 = i + j
      BY <1>f, <2>2, <3>4
    <3>6. Len(prevBuf') = Len(buf) - i
      BY <3>3, <3>5, Zenon
    <3>7. ASSUME NEW j \in 1..(Len(buf) - i) PROVE prevBuf'[j] = buf[i + j]
      BY <3>3, <3>5, Zenon
    <3> QED
      BY <3>3, <3>6, <3>7
  <2>5. /\ IsBlocks(q.data) /\ HoldBytes(q.data, sent, Unframed)
        /\ RequestLen(q.data) = RequestLen(blocks) + (i - 1)
    <3>1. \A j \in 1..Len(d) : d[j] = sent[Unframed + RequestLen(Opened) + j]
      <4> TAKE j \in 1..Len(d)
      <4>1. j \in 1..(i - 1) /\ j \in 1..Len(buf)
        BY <1>f, <2>2, <2>3
      <4>2. d[j] = sent[Framed + j]
        BY <1>b, <2>3, <4>1
      <4>3. Framed = Unframed + RequestLen(Opened)
        BY <1>3, <1>4
      <4> QED
        BY <4>2, <4>3
    <3>2. Unframed \in Nat /\ Len(d) <= BufSize
      BY <1>3, <2>2, <2>3
    <3>3. q.data = Store(Opened, d)
      BY <2>1
    <3> QED
      BY <1>4, <2>3, <3>1, <3>2, <3>3, StoreAppends
  <2>6. q.end = Framed + i /\ q.end \in Nat
    <3>1. q.end = Len(sent) - Len(rest) - Len(prevBuf')
      BY <2>1
    <3>2. Framed + Len(buf) + Len(rest) = Len(sent) /\ Len(rest) \in Nat /\ Len(sent) \in Nat
      BY <1>3
    <3>3. Len(prevBuf') = Len(buf) - i
      BY <2>4
    <3>4. Len(sent) - Len(rest) - (Len(buf) - i) = Framed + i /\ Framed + i \in Nat
      <4>1. \A x, y, z, j \in Nat : (x + y + z) - z - (y - j) = x + j /\ x + j \in Nat
        OBVIOUS
      <4>2. /\ (Framed + Len(buf) + Len(rest)) - Len(rest) - (Len(buf) - i) = Framed + i
            /\ Framed + i \in Nat
        <5>1. Framed \in Nat /\ Len(buf) \in Nat /\ Len(rest) \in Nat /\ i \in Nat
          BY <1>f, <2>2, <3>2
        <5> QED
          BY <4>1, <5>1
      <4> QED
        BY <3>2, <4>2, Zenon
    <3> QED
      BY <3>1, <3>3, <3>4, Zenon
  <2>7. q \in Request
    <3>1. q.data \in Seq(Seq(Octets))
      BY <2>5 DEF IsBlocks
    <3>2. q = [data |-> q.data, end |-> q.end]
      BY <2>1
    <3> QED
      BY <2>6, <3>1, <3>2 DEF Request
  <2>8. /\ Len(requests') = Len(requests) + 1 /\ requests' \in Seq(Request)
        /\ \A k \in 1..Len(requests) : requests'[k] = requests[k]
        /\ requests'[Len(requests) + 1] = q
        /\ \A k \in 1..(Len(requests) + 1) : LineStart(k)' = LineStart(k)
        /\ Unframed' = q.end
    BY <1>1, <1>8, <2>1, <2>7, AppendedRequest
  <2>9. FramingTypeOK'
    BY <1>1, <1>2, <2>4, <2>8 DEF FramingTypeOK
  <2>10. IsLine(q, sent, Unframed)
    <3>1. q.end = Unframed + RequestLen(q.data) + 1
      <4>1. RequestLen(blocks) \in Nat /\ Framed = Unframed + RequestLen(blocks)
        BY <1>3
      <4>2. RequestLen(q.data) = RequestLen(blocks) + (i - 1)
        BY <2>5
      <4> QED
        BY <1>f, <2>2, <2>6, <4>1, <4>2
    <3>2. q.end <= Len(sent)
      <4>1. Framed + Len(buf) + Len(rest) = Len(sent) /\ Len(rest) \in Nat
        BY <1>3
      <4> QED
        BY <1>f, <2>2, <2>6, <4>1
    <3>3. sent[q.end] = Newline
      <4>1. i \in 1..Len(buf)
        BY <1>f, <2>2
      <4>2. buf[i] = sent[Framed + i]
        BY <1>b, <4>1
      <4>3. buf[i] = Newline
        BY <1>8 DEF IsNewlineIdx
      <4> QED
        BY <2>6, <4>2, <4>3
    <3>4. NoNewline(sent, Unframed, q.end - 1)
      <4>1. SUFFICES ASSUME NEW m \in (Unframed + 1)..(Framed + i - 1) PROVE sent[m] # Newline
        <5>1. q.end - 1 = Framed + i - 1
          BY <1>f, <2>2, <2>6
        <5> QED
          BY <5>1 DEF NoNewline
      <4>2. CASE m <= Framed
        <5>1. m \in (Unframed + 1)..Framed
          BY <1>f, <2>2, <4>2
        <5> QED
          BY <1>6, <5>1 DEF NoNewline
      <4>3. CASE m > Framed
        <5>1. m - Framed \in 1..(i - 1) /\ m - Framed \in 1..Len(buf) /\ Framed + (m - Framed) = m
          BY <1>f, <2>2, <4>3
        <5>2. buf[m - Framed] = sent[m]
          BY <1>b, <5>1
        <5> QED
          BY <1>8, <5>1, <5>2 DEF IsNewlineIdx
      <4> QED
        BY <1>f, <2>2, <4>2, <4>3
    <3> QED
      BY <2>5, <3>1, <3>2, <3>3, <3>4 DEF IsLine
  <2>11. LinesFramed'
    <3>1. SUFFICES ASSUME NEW k \in 1..(Len(requests) + 1)
                   PROVE  IsLine(requests'[k], sent, LineStart(k))
      BY <1>2, <2>8 DEF LinesFramed, IsLine
    <3>2. CASE k = Len(requests) + 1
      BY <2>8, <2>10, <3>2 DEF Unframed
    <3>3. CASE k # Len(requests) + 1
      <4>1. k \in 1..Len(requests)
        BY <1>l, <3>3
      <4> QED
        BY <1>1, <2>8, <4>1 DEF LinesFramed
    <3> QED
      BY <3>2, <3>3
  <2>12. RestFollows'
    <3>1. Framed' = Framed + i
      <4>1. Framed' = Unframed' + RequestLen(blocks') /\ RequestLen(blocks') = 0
        BY <1>8 DEF Framed, RequestLen
      <4> QED
        BY <1>3, <2>2, <2>6, <2>8, <4>1
    <3>p. Len(prevBuf') = Len(buf) - i
      BY <2>4
    <3>2. Framed' + Len(prevBuf') + Len(unread') = Len(sent')
      <4>1. Framed + Len(buf) + Len(rest) = Len(sent) /\ Len(rest) \in Nat
        BY <1>3
      <4>2. Len(unread') = Len(rest) /\ Len(sent') = Len(sent)
        BY <1>2
      <4>3. (Framed + i) + (Len(buf) - i) + Len(rest) = Len(sent)
        BY <1>f, <2>2, <4>1
      <4> QED
        BY <3>1, <3>p, <4>2, <4>3
    <3>3. \A j \in 1..Len(unread') : unread'[j] = sent'[Framed' + Len(prevBuf') + j]
      <4>1. Framed' + Len(prevBuf') = Framed + Len(buf)
        BY <1>f, <2>2, <3>1, <3>p
      <4> QED
        BY <1>2, <1>r, <4>1
    <3>4. ASSUME NEW j \in 1..Len(prevBuf') PROVE prevBuf'[j] = sent'[Framed' + j]
      <4>1. i + j \in 1..Len(buf) /\ Framed + (i + j) = Framed' + j
        <5>1. \A f, m, a \in Nat : \A k \in 1..(m - a) :
                a + k \in 1..m /\ f + (a + k) = (f + a) + k
          OBVIOUS
        <5>2. j \in 1..(Len(buf) - i)
          BY <3>p
        <5> QED
          BY <1>f, <2>2, <3>1, <5>1, <5>2
      <4>2. prevBuf'[j] = buf[i + j]
        BY <2>4
      <4>3. buf[i + j] = sent[Framed + (i + j)]
        BY <1>b, <4>1
      <4> QED
        BY <1>2, <4>1, <4>2, <4>3
    <3>5. NoNewline(sent', Unframed', Framed')
      <4>1. Unframed' = Framed' /\ Framed' \in Nat
        BY <2>6, <2>8, <3>1
      <4>2. \A m \in Nat : (m + 1)..m = {}
        OBVIOUS
      <4> QED
        BY <4>1, <4>2, Zenon DEF NoNewline
    <3>6. Len(prevBuf') <= BufSize
      <4>1. Len(buf) <= BufSize /\ BufSize \in Nat
        BY <1>3
      <4> QED
        BY <1>f, <2>2, <3>p, <4>1
    <3> QED
      BY <1>8, <3>2, <3>3, <3>4, <3>5, <3>6 DEF RestFollows
  <2>13. ReadsLine'
    <3>1. Len(requests') \in Nat /\ Len(requests) <= Len(requests')
      BY <1>3, <2>8
    <3>2. ASSUME NEW k \in 1..Len(requests)
          PROVE  requests'[k] = requests[k] /\ LineStart(k)' = LineStart(k)
      <4>1. k \in 1..(Len(requests) + 1)
        BY <1>l
      <4> QED
        BY <2>8, <4>1, Zenon
    <3> QED
      BY <3>1, <3>2, WorkerUnmoved
  <2> QED
    BY <2>9, <2>11, <2>12, <2>13 DEF FramingInv
<1> QED
  BY <1>7, <1>8 DEF Round

\* A round on the carried bytes.
LEMMA RoundOnPreviousKeeps == FramingInv /\ RoundOnPrevious => FramingInv'
<1> SUFFICES ASSUME FramingInv, RoundOnPrevious PROVE FramingInv'
  OBVIOUS
<1>1. PICK buf, rest : buf = prevBuf /\ rest = unread
  OBVIOUS
<1>2. /\ buf # <<>> /\ rest = unread' /\ Round(buf)
      /\ UNCHANGED <<sent, workerVars>>
  BY <1>1 DEF RoundOnPrevious
<1>3. buf \in Seq(Octets) /\ rest \in Seq(Octets)
  BY <1>1 DEF FramingInv, FramingTypeOK
<1>4. Len(buf) > 0
  BY <1>2, <1>3
<1>5. NextBytes(buf, rest)
  BY <1>1, <1>4 DEF FramingInv, RestFollows, NextBytes
<1> QED
  BY <1>2, <1>3, <1>5, RoundKeeps

\* A round on the next bytes of the stream.
LEMMA RoundOnReadKeeps ==
  ASSUME FramingInv, NEW n \in 1..BufSize, RoundOnRead(n)
  PROVE  FramingInv'
<1>1. PICK buf, rest : buf = SubSeq(unread, 1, n) /\ rest = SubSeq(unread, n + 1, Len(unread))
  OBVIOUS
<1>2. /\ prevBuf = <<>> /\ n <= Len(unread) /\ rest = unread' /\ Round(buf)
      /\ UNCHANGED <<sent, workerVars>>
  BY <1>1 DEF RoundOnRead
<1>3. unread \in Seq(Octets) /\ Len(unread) \in Nat /\ Framed \in Nat /\ n \in Nat /\ n > 0 /\ n <= BufSize
  BY FramingNumbers, BufSizeAssumption DEF FramingInv, FramingTypeOK
<1>4. /\ buf \in Seq(Octets) /\ Len(buf) = n /\ \A i \in 1..n : buf[i] = unread[i]
  BY <1>1, <1>2, <1>3
<1>5. /\ rest \in Seq(Octets) /\ Len(rest) = Len(unread) - n
      /\ \A i \in 1..(Len(unread) - n) : rest[i] = unread[n + i]
  <2>1. n + 1 \in Int /\ Len(unread) \in Int /\ \A j \in (n + 1)..Len(unread) : unread[j] \in Octets
    BY <1>3
  <2>2. /\ rest \in Seq(Octets)
        /\ Len(rest) = IF n + 1 <= Len(unread) THEN Len(unread) - (n + 1) + 1 ELSE 0
        /\ \A j \in 1..(Len(unread) - (n + 1) + 1) : rest[j] = unread[(n + 1) + j - 1]
    BY <1>1, <2>1, SubSeqProperties
  <2> QED
    BY <1>2, <1>3, <2>2
<1>6. /\ Framed + Len(unread) = Len(sent)
      /\ \A i \in 1..Len(unread) : unread[i] = sent[Framed + i]
  <2>1. /\ Framed + Len(prevBuf) + Len(unread) = Len(sent)
        /\ \A i \in 1..Len(unread) : unread[i] = sent[Framed + Len(prevBuf) + i]
    BY DEF FramingInv, RestFollows
  <2>2. Framed + Len(prevBuf) = Framed
    BY <1>2, <1>3
  <2> QED
    BY <2>1, <2>2
<1>7. NextBytes(buf, rest)
  <2>1. ASSUME NEW i \in 1..Len(buf) PROVE buf[i] = sent[Framed + i]
    <3>1. i \in 1..n /\ n \in Nat /\ n <= Len(unread) /\ Len(unread) \in Nat
      BY <1>2, <1>3, <1>4
    <3>2. i \in 1..Len(unread)
      BY <3>1
    <3> QED
      BY <1>4, <1>6, <3>1, <3>2, Zenon
  <2>2. ASSUME NEW i \in 1..Len(rest) PROVE rest[i] = sent[Framed + Len(buf) + i]
    <3>1. n + i \in 1..Len(unread) /\ Framed + (n + i) = Framed + n + i /\ i \in 1..(Len(unread) - n)
      BY <1>2, <1>3, <1>5
    <3> QED
      BY <1>4, <1>5, <1>6, <3>1
  <2>3. Framed + Len(buf) + Len(rest) = Len(sent)
    <3>1. \A f, u, m \in Nat : f + m + (u - m) = f + u
      OBVIOUS
    <3>2. Framed + n + (Len(unread) - n) = Framed + Len(unread)
      BY <1>3, <3>1
    <3>3. Len(buf) = n /\ Len(rest) = Len(unread) - n /\ Framed + Len(unread) = Len(sent)
      BY <1>4, <1>5, <1>6
    <3> QED
      BY <3>2, <3>3
  <2>4. Len(buf) > 0 /\ Len(buf) <= BufSize
    BY <1>3, <1>4
  <2> QED
    BY <2>1, <2>2, <2>3, <2>4 DEF NextBytes
<1> QED
  BY <1>2, <1>4, <1>5, <1>7, RoundKeeps

----------------------------------------------------------------------------
(* The steps of the worker *)

\* The reader does not see the worker's steps.
LEMMA ReaderUnmoved ==
  ASSUME FramingInv, UNCHANGED readerVars
  PROVE  LinesFramed' /\ RestFollows' /\ \A k : LineStart(k)' = LineStart(k)
<1>1. UNCHANGED <<sent, unread, prevBuf, blocks, requests>>
  BY DEF readerVars
<1>2. LinesFramed /\ RestFollows
  BY DEF FramingInv
<1>3. \A k : LineStart(k)' = LineStart(k)
  BY <1>1 DEF LineStart
<1>4. Unframed' = Unframed /\ Framed' = Framed
  BY <1>1 DEF Unframed, Framed, LineStart, RequestLen
<1>5. LinesFramed'
  BY <1>1, <1>2, <1>3 DEF LinesFramed
<1>6. RestFollows'
  BY <1>1, <1>2, <1>4 DEF RestFollows
<1> QED
  BY <1>3, <1>5, <1>6

\* What the worker has of the request that it received.
LEMMA DataOf ==
  ASSUME FramingInv, open
  PROVE  /\ taken \in 1..Len(requests) /\ IsBlocks(Data) /\ RequestLen(Data) \in Nat
         /\ HoldBytes(Data, sent, LineStart(taken)) /\ LineStart(taken) \in Nat
<1>1. taken \in 1..Len(requests) /\ Len(requests) \in Nat
  BY FramingNumbers DEF FramingInv, FramingTypeOK, ReadsLine
<1>2. IsLine(requests[taken], sent, LineStart(taken))
  BY <1>1 DEF FramingInv, LinesFramed
<1>3. LineStart(taken) \in Nat
  BY <1>1, StartTyped DEF FramingInv
<1> QED
  BY <1>1, <1>2, <1>3, LenOf DEF IsLine, Data

\* A request is received with nothing read of it.
LEMMA ReceiveKeeps == FramingInv /\ Receive => FramingInv'
<1> SUFFICES ASSUME FramingInv, Receive PROVE FramingInv'
  OBVIOUS
<1>1. FramingTypeOK /\ ReadsLine /\ Len(requests) \in Nat /\ LinesFramed
  BY FramingNumbers DEF FramingInv
<1>2. /\ ~open /\ taken # Len(requests) /\ taken' = taken + 1 /\ open' = TRUE /\ pos' = 0
      /\ got' = <<>> /\ room' = room
      /\ sent' = sent /\ unread' = unread /\ prevBuf' = prevBuf /\ requests' = requests
      /\ UNCHANGED readerVars
  BY DEF Receive, HandedOver, readerVars
<1>3. LinesFramed' /\ RestFollows'
  BY <1>2, ReaderUnmoved
<1>4. taken \in Nat /\ taken <= Len(requests) /\ room \in Nat /\ ~(room > 0)
  BY <1>1, <1>2 DEF FramingTypeOK, ReadsLine
<1>5. FramingTypeOK'
  <2>1. got' \in Seq(Octets) /\ open' \in BOOLEAN /\ pos' \in Nat /\ taken' \in Nat
    BY <1>2, <1>4
  <2> QED
    BY <1>1, <1>2, <2>1 DEF FramingTypeOK
<1>6. taken + 1 \in 1..Len(requests)
  BY <1>1, <1>2, <1>4
<1>7. RequestLen(requests[taken + 1].data) \in Nat
  BY <1>1, <1>6, LenOf DEF LinesFramed, IsLine
<1>8. ReadsLine'
  <2>1. Data' = requests[taken + 1].data
    BY <1>2 DEF Data
  <2>2. Len(got') = 0
    BY <1>2
  <2>3. RequestLen(Data') \in Nat /\ RequestLen(Data)' = RequestLen(Data')
    BY <1>7, <2>1 DEF RequestLen
  <2> QED
    BY <1>1, <1>2, <1>4, <1>6, <2>2, <2>3 DEF ReadsLine
<1> QED
  BY <1>3, <1>5, <1>8 DEF FramingInv

\* Read, Seek and Close before and after the loop of a Read.
LEMMA WorkerCallKeeps ==
  ASSUME FramingInv, Seek \/ Close \/ \E p \in ReadSizes : Read(p)
  PROVE  FramingInv'
<1>1. FramingTypeOK /\ ReadsLine
  BY DEF FramingInv
<1>2. /\ open /\ UNCHANGED readerVars /\ taken' = taken
      /\ sent' = sent /\ unread' = unread /\ prevBuf' = prevBuf /\ requests' = requests
  BY DEF Seek, Close, Read, readerVars
<1>3. LinesFramed' /\ RestFollows' /\ LineStart(taken)' = LineStart(taken)
  BY <1>2, ReaderUnmoved DEF LineStart
<1>4. RequestLen(Data)' = RequestLen(Data) /\ RequestLen(Data) \in Nat
  BY <1>2, DataOf DEF Data, RequestLen
<1>5. CASE Seek
  <2>1. pos' = 0 /\ got' = <<>> /\ open' = open /\ room' = room /\ room = 0
    BY <1>5 DEF Seek
  <2>2. got' \in Seq(Octets) /\ Len(got') = 0
    BY <2>1
  <2>3. FramingTypeOK'
    BY <1>1, <1>2, <2>1, <2>2 DEF FramingTypeOK
  <2>4. ReadsLine'
    BY <1>1, <1>2, <1>4, <2>1, <2>2 DEF ReadsLine
  <2> QED
    BY <1>3, <2>3, <2>4 DEF FramingInv
<1>6. CASE Close
  <2>1. pos' = pos /\ got' = got /\ open' = FALSE /\ room' = room /\ room = 0
    BY <1>6 DEF Close
  <2>2. open' \in BOOLEAN
    BY <2>1
  <2>3. FramingTypeOK'
    BY <1>1, <1>2, <2>1, <2>2 DEF FramingTypeOK
  <2>4. ReadsLine'
    BY <1>1, <1>2, <2>1 DEF ReadsLine
  <2> QED
    BY <1>3, <2>3, <2>4 DEF FramingInv
<1>7. ASSUME NEW p \in ReadSizes, Read(p) PROVE FramingInv'
  <2>1. /\ pos' = pos /\ got' = got /\ open' = open /\ room' = p /\ p \in Nat
        /\ pos < RequestLen(Data)
    BY <1>7, ReadSizesAssumption DEF Read
  <2>2. FramingTypeOK'
    BY <1>1, <1>2, <2>1 DEF FramingTypeOK
  <2>3. ReadsLine'
    BY <1>1, <1>2, <1>3, <1>4, <2>1 DEF ReadsLine
  <2> QED
    BY <1>3, <2>2, <2>3 DEF FramingInv
<1> QED
  BY <1>5, <1>6, <1>7

\* One turn of the loop in Read returns the next bytes of the line, at least one
\* of them.
LEMMA ReadTurnKeeps ==
  ASSUME FramingInv, ReadTurn
  PROVE  FramingInv' /\ pos' > pos
<1>1. FramingTypeOK /\ ReadsLine
  BY DEF FramingInv
<1>2. room > 0 /\ open /\ pos < RequestLen(Data) /\ room \in Nat /\ pos \in Nat /\ got \in Seq(Octets)
  BY <1>1 DEF ReadTurn, ReadsLine, FramingTypeOK
<1>3. PICK q, r, block, n :
        /\ q = pos \div BufSize + 1 /\ r = pos % BufSize /\ block = Data[q]
        /\ n = IF room < Len(block) - r THEN room ELSE Len(block) - r
  OBVIOUS
<1>4. /\ q \in Nat \ {0} /\ r \in Nat /\ r < BufSize /\ pos = Off(q) + r
  BY <1>2, <1>3, PositionSplits
<1>5. /\ taken \in 1..Len(requests) /\ IsBlocks(Data) /\ RequestLen(Data) \in Nat
      /\ HoldBytes(Data, sent, LineStart(taken)) /\ LineStart(taken) \in Nat
  BY <1>2, DataOf
<1>6. /\ q \in 1..Len(Data) /\ block \in Seq(Octets) /\ Len(block) \in Nat /\ r < Len(block)
      /\ (pos - r) + Len(block) <= RequestLen(Data)
  BY <1>2, <1>3, <1>4, <1>5, BlockAt
<1>7. n \in Nat /\ n > 0 /\ n <= room /\ r + n <= Len(block) /\ pos + n <= RequestLen(Data)
  <2>1. n = IF room < Len(block) - r THEN room ELSE Len(block) - r
    BY <1>3
  <2>2. room \in Nat /\ room > 0 /\ r \in Nat /\ Len(block) \in Nat /\ r < Len(block)
    BY <1>2, <1>4, <1>6
  <2>3. n \in Nat /\ n > 0 /\ n <= room /\ r + n <= Len(block)
    BY <2>1, <2>2
  <2>4. pos \in Nat /\ RequestLen(Data) \in Nat /\ (pos - r) + Len(block) <= RequestLen(Data)
    BY <1>2, <1>5, <1>6
  <2>5. pos + n <= RequestLen(Data)
    BY <2>2, <2>3, <2>4
  <2> QED
    BY <2>3, <2>5
<1>8. /\ got' = got \o SubSeq(block, r + 1, r + n) /\ pos' = pos + n
      /\ room' = (IF pos + n < RequestLen(Data) THEN room - n ELSE 0)
      /\ UNCHANGED readerVars /\ taken' = taken /\ open' = open
      /\ sent' = sent /\ unread' = unread /\ prevBuf' = prevBuf /\ requests' = requests
  BY <1>3 DEF ReadTurn, readerVars
<1>9. LinesFramed' /\ RestFollows' /\ LineStart(taken)' = LineStart(taken)
  BY <1>8, ReaderUnmoved DEF LineStart
<1>10. RequestLen(Data)' = RequestLen(Data)
  BY <1>8 DEF Data, RequestLen
<1>11. Len(got) = pos /\ \A i \in 1..pos : got[i] = sent[LineStart(taken) + i]
  BY <1>1, <1>2 DEF ReadsLine
<1>12. PICK part : part = SubSeq(block, r + 1, r + n)
  OBVIOUS
<1>13. /\ part \in Seq(Octets) /\ Len(part) = n
       /\ \A j \in 1..n : part[j] = block[r + j]
  <2>1. r + 1 \in Int /\ r + n \in Int /\ \A j \in (r + 1)..(r + n) : block[j] \in Octets
    BY <1>4, <1>6, <1>7
  <2>2. /\ part \in Seq(Octets)
        /\ Len(part) = IF r + 1 <= r + n THEN (r + n) - (r + 1) + 1 ELSE 0
        /\ \A j \in 1..((r + n) - (r + 1) + 1) : part[j] = block[(r + 1) + j - 1]
    BY <1>12, <2>1, SubSeqProperties
  <2> QED
    BY <1>4, <1>7, <2>2
<1>14. /\ got' \in Seq(Octets) /\ Len(got') = pos + n
       /\ \A i \in 1..(pos + n) : got'[i] = IF i <= pos THEN got[i] ELSE part[i - pos]
  <2>1. /\ got \in Seq(Octets) /\ part \in Seq(Octets) /\ got' = got \o part
        /\ Len(got) = pos /\ Len(part) = n
    BY <1>2, <1>8, <1>11, <1>12, <1>13
  <2> QED
    BY <2>1, ConcatProperties
<1>15. ASSUME NEW i \in 1..(pos + n) PROVE got'[i] = sent[LineStart(taken) + i]
  <2>1. CASE i <= pos
    BY <1>2, <1>11, <1>14, <2>1
  <2>2. CASE ~(i <= pos)
    <3>1. i - pos \in 1..n /\ r + (i - pos) \in 1..Len(block)
      <4>1. \A p, m, a, l, k \in Nat :
              k <= p + m /\ ~(k <= p) /\ a + m <= l => k - p \in 1..m /\ a + (k - p) \in 1..l
        OBVIOUS
      <4>2. pos \in Nat /\ n \in Nat /\ r \in Nat /\ Len(block) \in Nat /\ r + n <= Len(block)
        BY <1>2, <1>4, <1>6, <1>7
      <4>3. i \in Nat /\ i <= pos + n
        BY <4>2
      <4> QED
        BY <2>2, <4>1, <4>2, <4>3
    <3>2. got'[i] = block[r + (i - pos)]
      BY <1>13, <1>14, <2>2, <3>1
    <3>3. block[r + (i - pos)] = sent[LineStart(taken) + Off(q) + (r + (i - pos))]
      BY <1>3, <1>5, <1>6, <3>1 DEF HoldBytes
    <3>4. LineStart(taken) + Off(q) + (r + (i - pos)) = LineStart(taken) + i
      <4>1. Off(q) \in Nat /\ pos = Off(q) + r
        BY <1>4, OffNext
      <4>2. i \in Nat
        BY <1>2, <1>7
      <4>3. \A s, o, a, k \in Nat : s + o + (a + (k - (o + a))) = s + k
        OBVIOUS
      <4>4. LineStart(taken) \in Nat /\ r \in Nat
        BY <1>4, <1>5
      <4> QED
        BY <4>1, <4>2, <4>3, <4>4
    <3> QED
      BY <3>2, <3>3, <3>4
  <2> QED
    BY <2>1, <2>2
<1>16. room' \in Nat /\ (room' > 0 => pos + n < RequestLen(Data))
  BY <1>2, <1>7, <1>8
<1>17. FramingTypeOK'
  <2>1. pos' \in Nat
    BY <1>2, <1>7, <1>8
  <2> QED
    BY <1>1, <1>8, <1>14, <1>16, <2>1 DEF FramingTypeOK
<1>18. ReadsLine'
  <2>1. taken' <= Len(requests') /\ taken' > 0
    BY <1>1, <1>2, <1>8 DEF ReadsLine
  <2>2. Len(got') = pos' /\ pos' <= RequestLen(Data)'
    BY <1>7, <1>8, <1>10, <1>14
  <2>3. \A i \in 1..Len(got') : got'[i] = sent'[LineStart(taken)' + i]
    BY <1>8, <1>9, <1>14, <1>15
  <2>4. room' > 0 => open' /\ pos' < RequestLen(Data)'
    BY <1>2, <1>8, <1>10, <1>16
  <2> QED
    BY <2>1, <2>2, <2>3, <2>4 DEF ReadsLine
<1>19. pos' > pos
  BY <1>2, <1>7, <1>8
<1> QED
  BY <1>9, <1>17, <1>18, <1>19 DEF FramingInv

----------------------------------------------------------------------------
(* The theorems about the framing *)

\* A step that is none of the framing changes nothing.
LEMMA FramingStutters == FramingInv /\ UNCHANGED framingVars => FramingInv'
<1> SUFFICES ASSUME FramingInv, UNCHANGED framingVars PROVE FramingInv'
  OBVIOUS
<1>1. /\ UNCHANGED readerVars /\ sent' = sent /\ unread' = unread /\ prevBuf' = prevBuf
      /\ requests' = requests
      /\ taken' = taken /\ open' = open /\ pos' = pos /\ room' = room /\ got' = got
  BY DEF framingVars, readerVars, workerVars
<1>2. LinesFramed' /\ RestFollows'
  BY <1>1, ReaderUnmoved
<1>3. FramingTypeOK'
  BY <1>1 DEF FramingInv, FramingTypeOK
<1>4. LineStart(taken)' = LineStart(taken) /\ RequestLen(Data)' = RequestLen(Data)
  BY <1>1 DEF LineStart, RequestLen, Data
<1>5. ReadsLine'
  BY <1>1, <1>4 DEF FramingInv, ReadsLine
<1> QED
  BY <1>2, <1>3, <1>5 DEF FramingInv

\* Every step of the reader and of the worker keeps the invariant.
LEMMA FramingStep == FramingInv /\ [FramingNext]_framingVars => FramingInv'
<1> SUFFICES ASSUME FramingInv, [FramingNext]_framingVars PROVE FramingInv'
  OBVIOUS
<1>1. ASSUME NEW s \in Streams, Connect(s) PROVE FramingInv'
  BY <1>1, ConnectKeeps
<1>2. CASE RoundOnPrevious
  BY <1>2, RoundOnPreviousKeeps
<1>3. ASSUME NEW n \in 1..BufSize, RoundOnRead(n) PROVE FramingInv'
  BY <1>3, RoundOnReadKeeps
<1>4. CASE Receive
  BY <1>4, ReceiveKeeps
<1>5. CASE ReadTurn
  BY <1>5, ReadTurnKeeps
<1>6. CASE Seek \/ Close \/ \E p \in ReadSizes : Read(p)
  BY <1>6, WorkerCallKeeps
<1>7. CASE UNCHANGED framingVars
  BY <1>7, FramingStutters
<1> QED
  BY <1>1, <1>2, <1>3, <1>4, <1>5, <1>6, <1>7 DEF FramingNext

\* However a stream of any length is cut by the Reads of the connection, whatever
\* the block size and whatever the sizes of the worker's Reads: requests are the
\* lines of the stream, and the worker reads of each what was sent
\* (nextRequestBuffer and requestBuffer of the job centre's server.go).
THEOREM FramingIsExact == FramingSpec => []FramesExact
<1>1. FramingInit => FramingInv
  BY FramingStart
<1>2. FramingInv /\ [FramingNext]_framingVars => FramingInv'
  BY FramingStep
<1>3. FramingInv => FramesExact
  BY InvFramesExact
<1> QED
  BY <1>1, <1>2, <1>3, PTL DEF FramingSpec

\* A turn of the loop in requestBuffer.Read copies at least one byte, so that the
\* loop, which ends only at the end of the buffer or of the request, does end.
THEOREM ReadAdvances == FramingSpec => [][ReadTurn => pos' > pos]_framingVars
<1>1. FramingInit => FramingInv
  BY FramingStart
<1>2. FramingInv /\ [FramingNext]_framingVars => FramingInv'
  BY FramingStep
<1>3. FramingInv /\ ReadTurn => pos' > pos
  BY ReadTurnKeeps
<1> QED
  BY <1>1, <1>2, <1>3, PTL DEF FramingSpec
=============================================================================
