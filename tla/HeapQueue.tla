----------------------------- MODULE HeapQueue -----------------------------
(***************************************************************************)
(* radio2/src/queue.c: the binary heap, held in an array that grows and    *)
(* shrinks, which orders the events of the simulator.                      *)
(*                                                                         *)
(* One action is one call, or one turn of the loop inside a call: the loop *)
(* of queue_insert that moves a hole towards the root, and the loop of     *)
(* _queue_heapify that sinks the root.  Cells of the array at nevents and  *)
(* above are never read; the model keeps Garbage there.                    *)
(***************************************************************************)
EXTENDS Naturals

CONSTANTS
    VTime,     \* the virtual times events are due at
    Item,      \* what an event carries: its node, packet and extra pointers
    NullEvent, \* QUEUE_EVENT_NULL, whose vtime is VTIME_INF
    Garbage,   \* the contents of an array cell nothing was stored in
    SizeMin,   \* QUEUE_HEAP_SIZE_MIN, the first size of the array
    SizeMax    \* QUEUE_HEAP_SIZE_MAX, the size the array never exceeds

Event == [vtime : VTime, item : Item]

ASSUME VTimeAssumption == VTime \subseteq Nat
ASSUME NoEventAssumption == NullEvent \notin Event /\ Garbage \notin Event
ASSUME SizeAssumption ==
    /\ SizeMin \in Nat \ {0}
    /\ SizeMax \in Nat
    /\ SizeMin <= SizeMax

VARIABLES
    size,     \* cells the array has
    nevents,  \* cells in use
    events,   \* the array
    pc,       \* "idle" between calls; "up": in the loop of queue_insert;
              \* "down": in _queue_heapify, called by queue_pop;
              \* "failed": an assert ended the program
    i,        \* the variable i of the loop pc is in
    cur,      \* the argument of queue_insert, while it runs
    out       \* the event queue_pop took from the heap, its return value

vars == <<size, nevents, events, pc, i, cur, out>>

Cell == 0 .. SizeMax - 1
Live == 0 .. nevents - 1

Parent(x) == (x + 1) \div 2 - 1
Left(x)   == (x + 1) * 2 - 1
Right(x)  == (x + 1) * 2

(***************************************************************************)
(* _queue_resize: whether its assert holds, and the size it leaves.        *)
(***************************************************************************)
\* mutant: the assert is on the doubled size
AssertsDoubled(n, s) == n = s => 2 * s < SizeMax

ResizeAsserts(n, s) == n = s => s < SizeMax

Doubled(s) == IF 2 * s > SizeMax THEN SizeMax ELSE 2 * s

Resized(n, s) ==
    IF n = s THEN Doubled(s)
    ELSE IF n < s \div 5 /\ s > SizeMin THEN s \div 2
    ELSE s

(***************************************************************************)
(* The cell the element at x changes places with in _queue_heapify: the    *)
(* lesser child when it is less than x, and x itself when none is.         *)
(***************************************************************************)
LesserOf(x, y) ==
    IF y < nevents /\ events[y].vtime < events[x].vtime THEN y ELSE x

\* mutants: the right child is not looked at; the loop is left out
SmallestLeft(x) == LesserOf(x, Left(x))
SmallestOnce(x) == IF x = 0 THEN LesserOf(LesserOf(x, Left(x)), Right(x)) ELSE x

Smallest(x) == LesserOf(LesserOf(x, Left(x)), Right(x))

Swap(x, y) == [events EXCEPT ![x] = events[y], ![y] = events[x]]

(***************************************************************************)
(* The collection the heap stands for.  While queue_insert runs, the cell  *)
(* at i is a hole (its event has been copied down) and cur is not stored.  *)
(***************************************************************************)
Contents ==
    IF pc = "up"
    THEN {events[k] : k \in Live \ {i}} \union {cur}
    ELSE {events[k] : k \in Live}

-----------------------------------------------------------------------------
Init ==
    /\ size = SizeMin
    /\ nevents = 0
    /\ events = [k \in Cell |-> Garbage]
    /\ pc = "idle"
    /\ i = 0
    /\ cur = NullEvent
    /\ out = NullEvent

\* queue_insert up to its loop
Insert(e) ==
    /\ pc = "idle"
    /\ e \notin Contents
    /\ ResizeAsserts(nevents, size)
    /\ size' = Resized(nevents, size)
    /\ i' = nevents
    /\ nevents' = nevents + 1
    /\ cur' = e
    /\ pc' = "up"
    /\ UNCHANGED <<events, out>>

\* queue_insert when the assert in _queue_resize fails
InsertFails ==
    /\ pc = "idle"
    /\ ~ResizeAsserts(nevents, size)
    /\ pc' = "failed"
    /\ UNCHANGED <<size, nevents, events, i, cur, out>>

MoveUp == i # 0 /\ cur.vtime < events[Parent(i)].vtime

\* one turn of the loop of queue_insert
SiftUp ==
    /\ pc = "up"
    /\ MoveUp
    /\ events' = [events EXCEPT ![i] = events[Parent(i)]]
    /\ i' = Parent(i)
    /\ UNCHANGED <<size, nevents, pc, cur, out>>

\* the end of queue_insert
Place ==
    /\ pc = "up"
    /\ ~MoveUp
    /\ events' = [events EXCEPT ![i] = cur]
    /\ pc' = "idle"
    /\ i' = 0
    /\ cur' = NullEvent
    /\ UNCHANGED <<size, nevents, out>>

PopEmpty ==
    /\ pc = "idle"
    /\ nevents = 0
    /\ out' = NullEvent
    /\ UNCHANGED <<size, nevents, events, pc, i, cur>>

\* mutant: the root is overwritten before it is read
PopOverwritten ==
    /\ pc = "idle"
    /\ nevents # 0
    /\ out' = events[nevents - 1]
    /\ events' = [events EXCEPT ![0] = events[nevents - 1],
                                ![nevents - 1] = Garbage]
    /\ nevents' = nevents - 1
    /\ i' = 0
    /\ pc' = "down"
    /\ UNCHANGED <<size, cur>>

\* queue_pop up to the loop of _queue_heapify
Pop ==
    /\ pc = "idle"
    /\ nevents # 0
    /\ out' = events[0]
    /\ events' = [events EXCEPT ![0] = events[nevents - 1],
                                ![nevents - 1] = Garbage]
    /\ nevents' = nevents - 1
    /\ i' = 0
    /\ pc' = "down"
    /\ UNCHANGED <<size, cur>>

\* one turn of the loop of _queue_heapify
SiftDown ==
    /\ pc = "down"
    /\ Smallest(i) # i
    /\ events' = Swap(i, Smallest(i))
    /\ i' = Smallest(i)
    /\ UNCHANGED <<size, nevents, pc, cur, out>>

\* mutant: the loop is left only at a leaf
PopReturnsAtLeaf ==
    /\ pc = "down"
    /\ Left(i) >= nevents
    /\ pc' = IF ResizeAsserts(nevents, size) THEN "idle" ELSE "failed"
    /\ size' = Resized(nevents, size)
    /\ i' = 0
    /\ UNCHANGED <<nevents, events, cur, out>>

\* the break out of _queue_heapify and the rest of queue_pop
PopReturns ==
    /\ pc = "down"
    /\ Smallest(i) = i
    /\ pc' = IF ResizeAsserts(nevents, size) THEN "idle" ELSE "failed"
    /\ size' = Resized(nevents, size)
    /\ i' = 0
    /\ UNCHANGED <<nevents, events, cur, out>>

Step == SiftUp \/ Place \/ SiftDown \/ PopReturns

Next ==
    \/ \E e \in Event : Insert(e)
    \/ InsertFails
    \/ PopEmpty
    \/ Pop
    \/ Step

Spec == Init /\ [][Next]_vars

\* a call that has begun goes on: the loops run in the caller's thread
FairSpec == Spec /\ WF_vars(Step)

\* queue_top
QueueTop == IF nevents # 0 THEN events[0] ELSE NullEvent

-----------------------------------------------------------------------------
(***************************************************************************)
(* The values of the variables; an index held by a running call is one the *)
(* array has.                                                              *)
(***************************************************************************)
TypeOK ==
    /\ size \in 1 .. SizeMax
    /\ nevents \in 0 .. SizeMax
    /\ events \in [Cell -> Event \union {Garbage}]
    /\ pc \in {"idle", "up", "down", "failed"}
    /\ i \in Cell
    /\ cur \in Event \union {NullEvent}
    /\ out \in Event \union {NullEvent}

(***************************************************************************)
(* Doubling before an insertion and halving after a removal never leave    *)
(* the array with fewer cells than are in use, and no loop indexes a cell  *)
(* outside those in use (queue.c:23-38).                                   *)
(***************************************************************************)
Capacity ==
    /\ nevents <= size
    /\ pc = "up" => i \in Live
    /\ pc = "down" => nevents < size /\ (nevents # 0 => i \in Live)

(***************************************************************************)
(* The program is stopped by the assert on the size only when the array is *)
(* at its largest and full, never by an array that was left too small      *)
(* (queue.c:25).                                                           *)
(***************************************************************************)
FailsOnlyWhenFull == pc = "failed" => nevents = SizeMax /\ size = SizeMax

(***************************************************************************)
(* An event is due no earlier than the one above it: the order that both   *)
(* loops restore and that lets queue_pop look at one cell only.            *)
(***************************************************************************)
Ordered(j, k) == events[j].vtime <= events[k].vtime

HeapOrder == pc = "idle" => \A k \in Live \ {0} : Ordered(Parent(k), k)

(***************************************************************************)
(* Between calls queue_top, and so the next queue_pop, returns an event    *)
(* that is due no later than any other (queue.c:95-107), and the null      *)
(* event only when nothing is queued.                                      *)
(***************************************************************************)
TopIsEarliest ==
    pc = "idle" =>
        IF Contents = {} THEN QueueTop = NullEvent
        ELSE /\ QueueTop \in Contents
             /\ \A e \in Contents : QueueTop.vtime <= e.vtime

(***************************************************************************)
(* No event is held in two cells: copying events down and swapping them    *)
(* neither loses nor repeats one.                                          *)
(***************************************************************************)
Stored == IF pc = "up" THEN Live \ {i} ELSE Live

NoCopies ==
    /\ \A j, k \in Stored : events[j] = events[k] => j = k
    /\ pc = "up" => \A k \in Stored : events[k] # cur

(***************************************************************************)
(* Every call returns: the hole reaches the root, or a sunk element a      *)
(* leaf, after finitely many turns.                                        *)
(***************************************************************************)
CallsReturn == pc \in {"up", "down"} ~> pc \in {"idle", "failed"}

(***************************************************************************)
(* The heap implements the priority queue: every call takes effect in its  *)
(* first step, and the turns of its loop change nothing a caller can see.  *)
(***************************************************************************)
Abstract == INSTANCE PriorityQueue WITH pending <- Contents
ImplementsPriorityQueue == Abstract!Spec

(***************************************************************************)
(* The strengthening that makes HeapOrder inductive.  In each loop exactly *)
(* one place is out of order, and what is above that place is no later     *)
(* than what is below it.                                                  *)
(***************************************************************************)
UpOrder ==
    pc = "up" =>
        /\ \A k \in Live \ {0} : i # k /\ i # Parent(k) => Ordered(Parent(k), k)
        /\ \A k \in Live \ {0} : i = Parent(k) =>
                /\ cur.vtime < events[k].vtime
                /\ i # 0 => Ordered(Parent(i), k)

DownOrder ==
    pc = "down" =>
        /\ \A k \in Live \ {0} : i # Parent(k) => Ordered(Parent(k), k)
        /\ \A k \in Live \ {0} : i = Parent(k) /\ i # 0 => Ordered(Parent(i), k)

Cells ==
    /\ \A k \in Stored : events[k] \in Event
    /\ pc = "up" => cur \in Event

IInv ==
    /\ TypeOK
    /\ Capacity
    /\ FailsOnlyWhenFull
    /\ Cells
    /\ HeapOrder
    /\ UpOrder
    /\ DownOrder
=============================================================================
