-------------------------- MODULE HeapQueueProofs --------------------------
(***************************************************************************)
(* Proofs about HeapQueue, for every array size and every set of times:    *)
(* the heap order between calls, and that the root is the earliest event.  *)
(***************************************************************************)
EXTENDS HeapQueue, WellFoundedInduction, TLAPS

(* Some well-founded relation has all that is less.                        *)
LEMMA LessIsWellFounded ==
    \E R : /\ IsWellFoundedOn(R, Nat)
           /\ \A x, y \in Nat : x < y => <<x, y>> \in R
<1> DEFINE R == OpToRel(<, Nat)
<1>1. IsWellFoundedOn(R, Nat)
  BY NatLessThanWellFounded
<1>2. \A x, y \in Nat : x < y => <<x, y>> \in R
  BY Zenon DEF OpToRel
<1> QED
  BY <1>1, <1>2, Zenon

(* A set of numbers has a minimal element under such a relation.           *)
LEMMA MinimalElement ==
    ASSUME NEW R, IsWellFoundedOn(R, Nat), NEW S, S \subseteq Nat, S # {}
    PROVE  \E m \in S : \A n \in S : ~ (<<n, m>> \in R)
BY WFMin, Zenon

(* Every non-empty set of natural numbers has a least element.             *)
LEMMA LeastNat ==
    ASSUME NEW S, S \subseteq Nat, S # {}
    PROVE  \E m \in S : \A n \in S : m <= n
<1>1. PICK R : /\ IsWellFoundedOn(R, Nat)
               /\ \A x, y \in Nat : x < y => <<x, y>> \in R
  BY LessIsWellFounded
<1>2. PICK m \in S : \A n \in S : ~ (<<n, m>> \in R)
  BY <1>1, MinimalElement, Zenon
<1>3. \A x, y \in Nat : x < y => <<x, y>> \in R
  BY <1>1
<1>4. \A n \in S : ~ (n < m)
  BY <1>2, <1>3, Zenon
<1> QED
  BY <1>2, <1>4, SMT

(***************************************************************************)
(* The arithmetic of the index macros (queue.c:17-19): Parent undoes Left  *)
(* and Right, and every cell but the first is a child of its parent.       *)
(***************************************************************************)
LEMMA ParentFacts ==
    ASSUME NEW k \in Nat, k # 0
    PROVE  /\ Parent(k) \in Nat
           /\ Parent(k) < k
           /\ k = Left(Parent(k)) \/ k = Right(Parent(k))
BY SMT DEF Parent, Left, Right

LEMMA ChildFacts ==
    ASSUME NEW j \in Nat
    PROVE  /\ Left(j) \in Nat /\ j < Left(j) /\ Parent(Left(j)) = j
           /\ Right(j) \in Nat /\ j < Right(j) /\ Parent(Right(j)) = j
BY SMT DEF Parent, Left, Right

(***************************************************************************)
(* _queue_resize leaves room for an insertion when its assert holds, and   *)
(* never makes the array smaller than what is in use.                      *)
(***************************************************************************)
LEMMA ResizeFacts ==
    ASSUME NEW n \in Nat, NEW s \in 1 .. SizeMax, n <= s, ResizeAsserts(n, s)
    PROVE  /\ Resized(n, s) \in 1 .. SizeMax
           /\ n < Resized(n, s)
BY SMT, SizeAssumption DEF ResizeAsserts, Resized, Doubled

(***************************************************************************)
(* What the choice of the child in _queue_heapify returns.                 *)
(***************************************************************************)
LEMMA SmallestFacts ==
    ASSUME TypeOK, Cells, pc = "down", nevents # 0, i \in Live
    PROVE  /\ Smallest(i) \in Live
           /\ Smallest(i) # i => /\ Parent(Smallest(i)) = i
                                 /\ Smallest(i) # 0
                                 /\ events[Smallest(i)].vtime < events[i].vtime
           /\ \A k \in Live \ {0} : Parent(k) = i => Ordered(Smallest(i), k)
<1> USE VTimeAssumption DEF TypeOK, Live, Cells, Stored
<1>1. \A k \in Live : events[k].vtime \in Nat
  BY DEF Event
<1>2. i \in Nat /\ Left(i) \in Nat /\ Right(i) \in Nat
  BY ChildFacts
<1>3. \A k \in Live \ {0} : Parent(k) = i => k = Left(i) \/ k = Right(i)
  BY ParentFacts
<1> QED
  BY <1>1, <1>2, <1>3, ChildFacts DEF Smallest, LesserOf, Ordered

LEMMA InitIInv == Init => IInv
BY SizeAssumption, NoEventAssumption
   DEF Init, IInv, TypeOK, Capacity, FailsOnlyWhenFull, Cells, Stored,
       HeapOrder, UpOrder, DownOrder, Live, Cell

LEMMA InsertStep ==
    ASSUME IInv, NEW e \in Event, Insert(e)
    PROVE  IInv'
<1> USE DEF IInv, TypeOK, Capacity, Insert
<1>1. /\ size' \in 1 .. SizeMax
      /\ nevents < size'
  BY ResizeFacts
<1>2. TypeOK'
  <2>1. i' \in Cell /\ nevents' \in 0 .. SizeMax
    BY <1>1, SizeAssumption DEF Cell
  <2> QED
    BY <1>1, <2>1
<1>3. Capacity' /\ FailsOnlyWhenFull'
  BY <1>1 DEF Live, FailsOnlyWhenFull
<1>4. Cells'
  BY DEF Cells, Stored, Live
<1>5. UpOrder'
  <2>1. \A k \in Live' \ {0} : i' # Parent(k)
    BY ParentFacts DEF Live
  <2>2. \A k \in Live' \ {0} : i' # k => k \in Live \ {0}
    BY DEF Live
  <2> QED
    BY <2>1, <2>2 DEF UpOrder, HeapOrder, Ordered
<1> QED
  BY <1>2, <1>4, <1>5, <1>3 DEF HeapOrder, DownOrder

LEMMA SiftUpStep ==
    ASSUME IInv, SiftUp
    PROVE  IInv'
<1> DEFINE p == Parent(i)
<1> USE DEF IInv, TypeOK, Capacity, SiftUp, MoveUp
<1>1. i \in Live /\ i # 0 /\ i \in Nat
  BY DEF Live, Cell
<1>2. p \in Live /\ p < i /\ p \in Nat
  BY <1>1, ParentFacts DEF Live
<1>3. TypeOK'
  <2>1. p \in Cell /\ events[p] \in Event \union {Garbage}
    BY <1>2, SizeAssumption DEF Live, Cell
  <2> QED
    BY <2>1
<1>4. Capacity' /\ FailsOnlyWhenFull'
  BY <1>2 DEF Live, FailsOnlyWhenFull
<1>5. /\ events[p] \in Event
      /\ \A k \in Live : events'[k] = IF k = i THEN events[p] ELSE events[k]
  BY <1>1, <1>2 DEF Live, Cell, Cells, Stored
<1>6. Cells'
  BY <1>1, <1>2, <1>5 DEF Cells, Stored, Live
<1>7. UpOrder'
  <2> SUFFICES ASSUME NEW k \in Live \ {0}
               PROVE  /\ p # k /\ p # Parent(k) => Ordered(Parent(k), k)'
                      /\ p = Parent(k) =>
                            /\ cur.vtime < events'[k].vtime
                            /\ p # 0 => events'[Parent(p)].vtime <= events'[k].vtime
    BY DEF UpOrder, Live, Ordered
  <2> DEFINE q == Parent(k)
  <2>1. q \in Live /\ k \in Live /\ q < k /\ q \in Nat /\ k \in Nat
    BY ParentFacts DEF Live
  <2>2. cur.vtime \in Nat
    BY VTimeAssumption DEF Cells, Event
  <2>3. \A j \in Live \ {i} : events[j].vtime \in Nat
    BY VTimeAssumption DEF Cells, Stored, Event
  <2>4. ASSUME p # 0
        PROVE  Parent(p) \in Live \ {i} /\ Ordered(Parent(p), p)
    BY <1>1, <1>2, <2>4, ParentFacts DEF UpOrder, Live
  <2>5. CASE p # k /\ p # q
    <3>1. k # i
      BY <2>5
    <3>2. CASE q = i
      BY <1>1, <1>2, <1>5, <2>1, <2>5, <3>1, <3>2 DEF UpOrder, Ordered
    <3>3. CASE q # i
      BY <1>5, <2>1, <2>5, <3>1, <3>3 DEF UpOrder, Ordered
    <3> QED
      BY <2>5, <3>2, <3>3
  <2>6. CASE p = q
    <3>1. cur.vtime < events'[k].vtime
      BY <1>1, <1>2, <1>5, <2>1, <2>2, <2>3, <2>6 DEF UpOrder, Ordered
    <3>2. ASSUME p # 0 PROVE  events'[Parent(p)].vtime <= events'[k].vtime
      <4>1. events'[Parent(p)] = events[Parent(p)]
        BY <1>5, <2>4, <3>2
      <4>2. Parent(p) # i /\ events[Parent(p)].vtime <= events[p].vtime
        BY <2>4, <3>2 DEF Ordered
      <4>3. events[p].vtime <= events'[k].vtime
        BY <1>1, <1>2, <1>5, <2>1, <2>3, <2>6 DEF UpOrder, Ordered
      <4>4. events'[k] \in {events[j] : j \in Live \ {i}}
        BY <1>2, <1>5, <2>1
      <4> QED
        BY <1>2, <2>3, <2>4, <3>2, <4>1, <4>2, <4>3, <4>4
    <3> QED
      BY <2>6, <3>1, <3>2
  <2> QED
    BY <2>1, <2>5, <2>6
<1> QED
  BY <1>3, <1>6, <1>7, <1>4 DEF HeapOrder, DownOrder

LEMMA PlaceStep ==
    ASSUME IInv, Place
    PROVE  IInv'
<1> USE DEF IInv, TypeOK, Capacity, Place
<1>1. i \in Live /\ i \in Nat /\ 0 \in Cell
  BY SizeAssumption DEF Live, Cell
<1>2. TypeOK' /\ Capacity' /\ FailsOnlyWhenFull'
  BY <1>1 DEF Live, Cell, FailsOnlyWhenFull, Cells
<1>3. \A k \in Live : events'[k] = IF k = i THEN cur ELSE events[k]
  BY <1>1 DEF Live, Cell
<1>4. Cells'
  BY <1>3 DEF Cells, Stored, Live
<1>5. HeapOrder'
  <2> SUFFICES ASSUME NEW k \in Live \ {0}
               PROVE  Ordered(Parent(k), k)'
    BY DEF HeapOrder, Live
  <2>1. Parent(k) \in Live /\ k \in Live /\ Parent(k) < k /\ Parent(k) \in Nat
    BY ParentFacts DEF Live
  <2>2. cur.vtime \in Nat /\ \A j \in Live \ {i} : events[j].vtime \in Nat
    BY VTimeAssumption DEF Cells, Stored, Event
  <2>3. CASE k = i
    BY <1>3, <2>1, <2>2, <2>3 DEF Ordered, MoveUp
  <2>4. CASE Parent(k) = i
    BY <1>3, <2>1, <2>2, <2>4 DEF Ordered, UpOrder
  <2>5. CASE k # i /\ Parent(k) # i
    BY <1>3, <2>1, <2>2, <2>5 DEF Ordered, UpOrder
  <2> QED
    BY <2>3, <2>4, <2>5
<1> QED
  BY <1>2, <1>4, <1>5 DEF UpOrder, DownOrder

LEMMA PopStep ==
    ASSUME IInv, Pop
    PROVE  IInv'
<1> USE DEF IInv, TypeOK, Capacity, Pop
<1>1. /\ nevents \in Nat \ {0} /\ nevents' = nevents - 1
      /\ 0 \in Live /\ nevents - 1 \in Live
      /\ Live \subseteq Cell /\ Live' \subseteq Live
  BY SizeAssumption DEF Live, Cell
<1>2. events[0] \in Event /\ events[nevents - 1] \in Event
  BY <1>1 DEF Cells, Stored
<1>3. TypeOK'
  <2>1. 0 \in Cell /\ nevents' \in 0 .. SizeMax
    BY <1>1, SizeAssumption
  <2> QED
    BY <1>2, <2>1
<1>4. Capacity' /\ FailsOnlyWhenFull'
  BY <1>1 DEF Live, FailsOnlyWhenFull
<1>5. \A k \in Live' : events'[k] = IF k = 0 THEN events[nevents - 1]
                                             ELSE events[k]
  BY <1>1 DEF Live
<1>6. Cells'
  BY <1>1, <1>2, <1>5 DEF Cells, Stored
<1>7. DownOrder'
  <2> SUFFICES ASSUME NEW k \in Live' \ {0}, Parent(k) # 0
               PROVE  Ordered(Parent(k), k)'
    BY DEF DownOrder
  <2>1. Parent(k) \in Live'
    BY <1>1, ParentFacts DEF Live
  <2>2. Ordered(Parent(k), k)
    BY <1>1 DEF HeapOrder
  <2> QED
    BY <1>5, <2>1, <2>2 DEF Ordered
<1> QED
  BY <1>3, <1>4, <1>6, <1>7 DEF HeapOrder, UpOrder

LEMMA SiftDownStep ==
    ASSUME IInv, SiftDown
    PROVE  IInv'
<1> DEFINE s == Smallest(i)
<1>1. /\ IInv /\ TypeOK /\ Cells /\ pc = "down" /\ s # i
      /\ events' = Swap(i, s) /\ i' = s
      /\ UNCHANGED <<size, nevents, pc, cur, out>>
  BY DEF IInv, SiftDown
<1>2. /\ nevents # 0 /\ i \in Live /\ i \in Nat /\ nevents \in Nat
      /\ Live \subseteq Cell /\ Live' = Live
  <2>1. nevents # 0
    BY <1>1 DEF Smallest, LesserOf, TypeOK, Cell, Left, Right
  <2> QED
    BY <1>1, <2>1, SizeAssumption DEF IInv, TypeOK, Capacity, Live, Cell
<1>3. /\ s \in Live /\ s # 0 /\ Parent(s) = i
      /\ events[s].vtime < events[i].vtime
      /\ \A k \in Live \ {0} : Parent(k) = i => Ordered(s, k)
  BY <1>1, <1>2, SmallestFacts
<1>4. \A k \in Live : events'[k] = IF k = i THEN events[s]
                                   ELSE IF k = s THEN events[i]
                                   ELSE events[k]
  BY <1>1, <1>2, <1>3 DEF Swap, TypeOK
<1> HIDE DEF s
<1>5. events[s] \in Event /\ events[i] \in Event
  BY <1>1, <1>2, <1>3 DEF Cells, Stored
<1>6. TypeOK'
  BY <1>1, <1>2, <1>3, <1>5 DEF TypeOK, Swap
<1>7. Capacity' /\ FailsOnlyWhenFull'
  BY <1>1, <1>2, <1>3 DEF IInv, Capacity, FailsOnlyWhenFull
<1>8. Cells'
  BY <1>1, <1>2, <1>4, <1>5 DEF Cells, Stored
<1>9. DownOrder'
  <2> SUFFICES ASSUME NEW k \in Live \ {0}
               PROVE  /\ s # Parent(k) => Ordered(Parent(k), k)'
                      /\ s = Parent(k) => events'[i].vtime <= events'[k].vtime
    BY <1>1, <1>2, <1>3 DEF DownOrder, Ordered
  <2>1. /\ Parent(k) \in Live /\ k \in Live
        /\ Parent(k) < k /\ Parent(k) \in Nat /\ k \in Nat /\ i < s
    BY <1>2, <1>3, ParentFacts DEF Live
  <2>2. \A j \in Live : events[j].vtime \in Nat
    BY <1>1, VTimeAssumption DEF Cells, Stored, Event
  <2>3. i # Parent(k) => events[Parent(k)].vtime <= events[k].vtime
    BY <1>1 DEF IInv, DownOrder, Ordered
  <2>4. i # 0 => events[Parent(i)].vtime <= events[s].vtime
    BY <1>1, <1>3 DEF IInv, DownOrder, Ordered
  <2>5. CASE s = Parent(k)
    <3>1. k # i /\ k # s
      BY <2>1, <2>5, <1>3
    <3> QED
      BY <1>2, <1>3, <1>4, <2>1, <2>3, <2>5, <3>1
  <2>6. CASE s # Parent(k)
    <3>1. CASE i = Parent(k)
      BY <1>2, <1>3, <1>4, <2>1, <2>2, <2>6, <3>1 DEF Ordered
    <3>2. CASE i # Parent(k) /\ k = i
      BY <1>2, <1>3, <1>4, <2>1, <2>2, <2>4, <2>6, <3>2 DEF Ordered
    <3>3. CASE i # Parent(k) /\ k # i
      BY <1>2, <1>3, <1>4, <2>1, <2>2, <2>3, <2>6, <3>3 DEF Ordered
    <3> QED
      BY <2>6, <3>1, <3>2, <3>3
  <2> QED
    BY <2>5, <2>6
<1> QED
  BY <1>1, <1>6, <1>7, <1>8, <1>9 DEF IInv, HeapOrder, UpOrder

LEMMA PopReturnsStep ==
    ASSUME IInv, PopReturns
    PROVE  IInv'
<1>1. /\ TypeOK /\ Cells /\ Capacity /\ pc = "down" /\ Smallest(i) = i
      /\ pc' = IF ResizeAsserts(nevents, size) THEN "idle" ELSE "failed"
      /\ size' = Resized(nevents, size) /\ i' = 0
      /\ UNCHANGED <<nevents, events, cur, out>>
  BY DEF IInv, PopReturns
<1>2. ResizeAsserts(nevents, size) /\ pc' = "idle"
  BY <1>1 DEF Capacity, TypeOK, ResizeAsserts
<1>3. size' \in 1 .. SizeMax /\ nevents < size'
  BY <1>1, <1>2, ResizeFacts DEF TypeOK, Capacity
<1>4. TypeOK'
  BY <1>1, <1>2, <1>3, SizeAssumption DEF TypeOK, Cell
<1>5. Capacity' /\ FailsOnlyWhenFull'
  BY <1>1, <1>2, <1>3 DEF Capacity, TypeOK, FailsOnlyWhenFull
<1>6. Cells'
  BY <1>1, <1>2 DEF Cells, Stored, Live
<1>7. HeapOrder'
  <2> SUFFICES ASSUME NEW k \in Live \ {0}
               PROVE  Ordered(Parent(k), k)
    BY <1>1 DEF HeapOrder, Live, Ordered
  <2>1. i = Parent(k) => Ordered(i, k)
    BY <1>1, SmallestFacts DEF Capacity, Live
  <2> QED
    BY <1>1, <2>1 DEF IInv, DownOrder
<1> QED
  BY <1>2, <1>4, <1>5, <1>6, <1>7 DEF IInv, UpOrder, DownOrder

LEMMA OtherStep ==
    ASSUME IInv, InsertFails \/ PopEmpty \/ UNCHANGED vars
    PROVE  IInv'
<1>1. CASE InsertFails
  <2>1. nevents = SizeMax /\ size = SizeMax
    BY <1>1, SizeAssumption DEF IInv, InsertFails, ResizeAsserts, TypeOK
  <2> QED
    BY <1>1, <2>1 DEF IInv, InsertFails, TypeOK, Capacity, Cells, Stored, Live,
                      FailsOnlyWhenFull, HeapOrder, UpOrder, DownOrder
<1>2. CASE PopEmpty
  BY <1>2 DEF IInv, PopEmpty, TypeOK, Capacity, Cells, Stored, Live, Ordered,
              FailsOnlyWhenFull, HeapOrder, UpOrder, DownOrder
<1>3. CASE UNCHANGED vars
  BY <1>3 DEF IInv, vars, TypeOK, Capacity, Cells, Stored, Live, Ordered,
              FailsOnlyWhenFull, HeapOrder, UpOrder, DownOrder
<1> QED
  BY <1>1, <1>2, <1>3

LEMMA NextIInv ==
    ASSUME IInv, [Next]_vars
    PROVE  IInv'
BY InsertStep, SiftUpStep, PlaceStep, PopStep, SiftDownStep, PopReturnsStep,
   OtherStep DEF Next, Step

(***************************************************************************)
(* IInv, with its parts TypeOK, Capacity (no loop indexes a cell that is   *)
(* not in use, and the array is never smaller than its contents),          *)
(* FailsOnlyWhenFull and HeapOrder, holds whatever the sizes and times.    *)
(***************************************************************************)
THEOREM Invariance == Spec => []IInv
<1>1. IInv /\ [Next]_vars => IInv'
  BY NextIInv
<1> QED
  BY InitIInv, <1>1, PTL DEF Spec

(* The values the variables take, and the bounds of every index.           *)
THEOREM TypeCorrect == Spec => [](TypeOK /\ Capacity)
<1>1. IInv => TypeOK /\ Capacity
  BY DEF IInv
<1> QED
  BY <1>1, Invariance, PTL

(* Between calls no event is due before the one at its parent cell.        *)
THEOREM HeapOrdered == Spec => []HeapOrder
<1>1. IInv => HeapOrder
  BY DEF IInv
<1> QED
  BY <1>1, Invariance, PTL

(* The assert on the size fails only with a full array of the largest size.*)
THEOREM FailsFull == Spec => []FailsOnlyWhenFull
<1>1. IInv => FailsOnlyWhenFull
  BY DEF IInv
<1> QED
  BY <1>1, Invariance, PTL

-----------------------------------------------------------------------------
(***************************************************************************)
(* In an ordered heap nothing is due before the root.  The first cell to   *)
(* hold an earlier event would have a parent that holds one too.           *)
(***************************************************************************)
LEMMA RootIsEarliest ==
    ASSUME IInv, pc = "idle", NEW k \in Live
    PROVE  Ordered(0, k)
<1> DEFINE Early == {j \in Live : events[j].vtime < events[0].vtime}
<1>1. Live \subseteq Nat /\ 0 \in Live /\ nevents \in Nat
  BY DEF IInv, TypeOK, Live
<1>2. \A j \in Live : events[j].vtime \in Nat
  BY VTimeAssumption DEF IInv, Cells, Stored, Event
<1>3. Early = {}
  <2> SUFFICES ASSUME Early # {} PROVE FALSE
    OBVIOUS
  <2>1. Early \subseteq Nat
    BY <1>1
  <2>2. PICK m \in Early : \A j \in Early : m <= j
    BY <2>1, LeastNat
  <2>3. m \in Live \ {0} /\ m \in Nat
    BY <1>1, <1>2
  <2>4. Parent(m) \in Live /\ Parent(m) < m /\ Parent(m) \in Nat
    BY <1>1, <2>3, ParentFacts DEF Live
  <2>5. Parent(m) \notin Early
    BY <2>2, <2>3, <2>4
  <2>6. Ordered(Parent(m), m)
    BY <2>3 DEF IInv, HeapOrder
  <2> QED
    BY <1>1, <1>2, <2>2, <2>3, <2>4, <2>5, <2>6 DEF Ordered
<1> QED
  BY <1>1, <1>2, <1>3 DEF Ordered

(***************************************************************************)
(* What the next queue_pop returns is due no later than anything queued.   *)
(***************************************************************************)
THEOREM EarliestFirst == Spec => []TopIsEarliest
<1>1. ASSUME IInv PROVE TopIsEarliest
  <2>1. CASE nevents = 0
    BY <2>1 DEF TopIsEarliest, Contents, QueueTop, Live
  <2>2. CASE nevents # 0
    <3>1. 0 \in Live
      BY <1>1, <2>2 DEF IInv, TypeOK, Live
    <3>2. pc = "idle" => \A k \in Live : events[0].vtime <= events[k].vtime
      BY <1>1, RootIsEarliest DEF Ordered
    <3> QED
      BY <2>2, <3>1, <3>2 DEF TopIsEarliest, Contents, QueueTop
  <2> QED
    BY <2>1, <2>2
<1> QED
  BY <1>1, Invariance, PTL

-----------------------------------------------------------------------------
(***************************************************************************)
(* NoCopies, step by step: a call copies an event down and overwrites the  *)
(* cell it came from, so no event is ever held twice.                      *)
(***************************************************************************)
LEMMA InsertNoCopies ==
    ASSUME IInv, NoCopies, NEW e \in Event, Insert(e)
    PROVE  /\ NoCopies'
           /\ Contents' = Contents \union {e}
<1>1. /\ pc = "idle" /\ pc' = "up" /\ i' = nevents /\ cur' = e
      /\ events' = events /\ nevents' = nevents + 1 /\ e \notin Contents
      /\ nevents \in Nat
  BY DEF Insert, IInv, TypeOK
<1>2. Live' \ {i'} = Live
  BY <1>1 DEF Live
<1> QED
  BY <1>1, <1>2 DEF NoCopies, Stored, Contents

LEMMA SiftUpNoCopies ==
    ASSUME IInv, NoCopies, SiftUp
    PROVE  /\ NoCopies'
           /\ Contents' = Contents
<1> DEFINE p == Parent(i)
<1>1. /\ pc = "up" /\ pc' = "up" /\ i' = p /\ cur' = cur /\ Live' = Live
      /\ events' = [events EXCEPT ![i] = events[p]]
      /\ i \in Live /\ i # 0 /\ i \in Nat /\ Live \subseteq Cell
      /\ events \in [Cell -> Event \union {Garbage}]
  BY SizeAssumption DEF SiftUp, MoveUp, IInv, TypeOK, Capacity, Live, Cell
<1>2. p \in Live /\ p # i
  BY <1>1, ParentFacts DEF IInv, TypeOK, Live
<1> HIDE DEF p
<1>3. \A k \in Live : events'[k] = IF k = i THEN events[p] ELSE events[k]
  BY <1>1
<1>4. NoCopies'
  BY <1>1, <1>2, <1>3 DEF NoCopies, Stored
<1>5. {events'[k] : k \in Live \ {p}} = {events[k] : k \in Live \ {i}}
  <2>1. ASSUME NEW k \in Live \ {p}
        PROVE  \E j \in Live \ {i} : events'[k] = events[j]
    BY <1>2, <1>3
  <2>2. ASSUME NEW k \in Live \ {i}
        PROVE  \E j \in Live \ {p} : events'[j] = events[k]
    BY <1>1, <1>2, <1>3
  <2> QED
    BY <2>1, <2>2
<1> QED
  BY <1>1, <1>4, <1>5 DEF Contents

LEMMA PlaceNoCopies ==
    ASSUME IInv, NoCopies, Place
    PROVE  /\ NoCopies'
           /\ Contents' = Contents
<1>1. /\ pc = "up" /\ pc' = "idle" /\ Live' = Live
      /\ events' = [events EXCEPT ![i] = cur]
      /\ i \in Live /\ Live \subseteq Cell
      /\ events \in [Cell -> Event \union {Garbage}]
  BY SizeAssumption DEF Place, IInv, TypeOK, Capacity, Live, Cell
<1>2. \A k \in Live : events'[k] = IF k = i THEN cur ELSE events[k]
  BY <1>1
<1>3. NoCopies'
  BY <1>1, <1>2 DEF NoCopies, Stored
<1>4. {events'[k] : k \in Live} = {events[k] : k \in Live \ {i}} \union {cur}
  BY <1>1, <1>2
<1> QED
  BY <1>1, <1>3, <1>4 DEF Contents

LEMMA PopNoCopies ==
    ASSUME IInv, NoCopies, Pop
    PROVE  /\ NoCopies'
           /\ Contents' = Contents \ {events[0]}
<1> DEFINE last == nevents - 1
<1>1. /\ pc = "idle" /\ pc' = "down"
      /\ events' = [events EXCEPT ![0] = events[last], ![last] = Garbage]
      /\ events \in [Cell -> Event \union {Garbage}]
  BY DEF Pop, IInv, TypeOK
<1>2. /\ 0 \in Live /\ last \in Live /\ Live \subseteq Cell
      /\ Live' = Live \ {last}
  BY SizeAssumption DEF Pop, IInv, TypeOK, Capacity, Live, Cell
<1> HIDE DEF last
<1>3. \A k \in Live' : events'[k] = IF k = 0 THEN events[last] ELSE events[k]
  BY <1>1, <1>2
<1>4. \A j, k \in Live : events[j] = events[k] => j = k
  BY <1>1 DEF NoCopies, Stored
<1>5. NoCopies'
  BY <1>1, <1>2, <1>3, <1>4 DEF NoCopies, Stored
<1>6. {events'[k] : k \in Live'} = {events[k] : k \in Live} \ {events[0]}
  <2>1. ASSUME NEW k \in Live'
        PROVE  \E j \in Live \ {0} : events'[k] = events[j]
    BY <1>2, <1>3
  <2>2. ASSUME NEW k \in Live \ {0}
        PROVE  \E j \in Live' : events'[j] = events[k]
    BY <1>2, <1>3
  <2>3. \A k \in Live \ {0} : events[k] # events[0]
    BY <1>2, <1>4
  <2> QED
    BY <1>2, <2>1, <2>2, <2>3
<1> QED
  BY <1>1, <1>5, <1>6 DEF Contents

LEMMA SiftDownNoCopies ==
    ASSUME IInv, NoCopies, SiftDown
    PROVE  /\ NoCopies'
           /\ Contents' = Contents
<1> DEFINE s == Smallest(i)
<1>1. /\ pc = "down" /\ pc' = "down" /\ s # i /\ events' = Swap(i, s)
      /\ Live' = Live /\ nevents \in Nat
      /\ events \in [Cell -> Event \union {Garbage}]
  BY DEF SiftDown, IInv, TypeOK, Live
<1>2. nevents # 0
  BY <1>1 DEF IInv, Smallest, LesserOf, TypeOK, Cell, Left, Right
<1>3. i \in Live /\ s \in Live /\ Live \subseteq Cell
  BY <1>1, <1>2, SmallestFacts, SizeAssumption
     DEF IInv, Capacity, TypeOK, Live, Cell
<1> HIDE DEF s
<1>4. \A k \in Live : events'[k] = IF k = i THEN events[s]
                                   ELSE IF k = s THEN events[i]
                                   ELSE events[k]
  BY <1>1, <1>3 DEF Swap
<1>5. NoCopies'
  BY <1>1, <1>3, <1>4 DEF NoCopies, Stored
<1>6. {events'[k] : k \in Live} = {events[k] : k \in Live}
  <2>1. \A k \in Live : \E j \in Live : events'[k] = events[j]
    BY <1>3, <1>4
  <2>2. \A k \in Live : \E j \in Live : events'[j] = events[k]
    BY <1>1, <1>3, <1>4
  <2> QED
    BY <2>1, <2>2
<1> QED
  BY <1>1, <1>5, <1>6 DEF Contents

LEMMA OtherNoCopies ==
    ASSUME IInv, NoCopies,
           PopReturns \/ InsertFails \/ PopEmpty \/ UNCHANGED vars
    PROVE  /\ NoCopies'
           /\ Contents' = Contents
<1>1. /\ events' = events /\ Live' = Live /\ cur' = cur
      /\ pc = "up" <=> pc' = "up"
      /\ pc = "up" => i' = i
  BY DEF PopReturns, InsertFails, PopEmpty, vars, Live
<1> QED
  BY <1>1 DEF NoCopies, Contents, Stored

(* No event is held in two cells, whatever calls are made.                 *)
THEOREM NeverCopied == Spec => []NoCopies
<1>1. Init => NoCopies
  BY DEF Init, NoCopies, Stored, Live
<1>2. IInv /\ NoCopies /\ [Next]_vars => NoCopies'
  BY InsertNoCopies, SiftUpNoCopies, PlaceNoCopies, PopNoCopies,
     SiftDownNoCopies, OtherNoCopies DEF Next, Step
<1> QED
  BY <1>1, <1>2, Invariance, PTL DEF Spec

(***************************************************************************)
(* The heap implements the priority queue.  Insert and Pop take effect in  *)
(* their first step; all other steps leave the contents as they are.       *)
(***************************************************************************)
THEOREM Implementation == Spec => ImplementsPriorityQueue
<1>1. Init => Abstract!Init
  BY DEF Init, Abstract!Init, Contents, Live
<1>2. ASSUME IInv, NoCopies, [Next]_vars
      PROVE  [Abstract!Next]_(Abstract!vars)
  <2>1. ASSUME NEW e \in Event, Insert(e)
        PROVE  Abstract!Insert(e)
    BY <1>2, <2>1, InsertNoCopies DEF Insert, Abstract!Insert
  <2>2. ASSUME Pop
        PROVE  events[0] \in Event /\ Abstract!Pop(events[0])
    <3>1. 0 \in Live /\ pc = "idle" /\ out' = events[0]
      BY <1>2, <2>2 DEF Pop, IInv, TypeOK, Live
    <3>2. events[0] \in Event
      BY <1>2, <3>1 DEF IInv, Cells, Stored
    <3>3. \A k \in Live : events[0].vtime <= events[k].vtime
      BY <1>2, <3>1, RootIsEarliest DEF Ordered
    <3>4. Contents' = Contents \ {events[0]}
      BY <1>2, <2>2, PopNoCopies
    <3> QED
      BY <3>1, <3>2, <3>3, <3>4 DEF Abstract!Pop, Contents
  <2>3. ASSUME PopEmpty
        PROVE  Abstract!PopEmpty
    <3>1. Contents = {}
      BY <2>3 DEF PopEmpty, Contents, Live
    <3> QED
      BY <1>2, <2>3, <3>1, OtherNoCopies DEF PopEmpty, Abstract!PopEmpty
  <2>4. ASSUME Step \/ InsertFails \/ UNCHANGED vars
        PROVE  UNCHANGED Abstract!vars
    <3>1. Contents' = Contents
      BY <1>2, <2>4, SiftUpNoCopies, PlaceNoCopies, SiftDownNoCopies,
         OtherNoCopies DEF Step
    <3>2. out' = out
      BY <2>4 DEF Step, SiftUp, Place, SiftDown, PopReturns, InsertFails, vars
    <3> QED
      BY <3>1, <3>2 DEF Abstract!vars
  <2>5. \A e \in Event : e \in Abstract!Event
    BY DEF Event, Abstract!Event
  <2> QED
    BY <1>2, <2>1, <2>2, <2>3, <2>4, <2>5 DEF Next, Abstract!Next
<1> QED
  BY <1>1, <1>2, Invariance, NeverCopied, PTL DEF Spec, Abstract!Spec, ImplementsPriorityQueue
=============================================================================
