--------------------------- MODULE PriorityQueue ---------------------------
(***************************************************************************)
(* What a caller of radio2/src/queue.h relies on: a collection of events   *)
(* from which queue_pop takes one with the least vtime, or a null event    *)
(* when there is none.  Events with the same vtime come out in any order.  *)
(*                                                                         *)
(* The queue never looks at anything of an event but its vtime, so two     *)
(* events that are equal in C are told apart here by their item, and the   *)
(* collection is a set.                                                    *)
(***************************************************************************)
EXTENDS Naturals

CONSTANTS
    VTime,     \* the virtual times events are due at, natural numbers
    Item,      \* what an event carries: its node, packet and extra pointers
    NullEvent  \* QUEUE_EVENT_NULL, no member of Event

Event == [vtime : VTime, item : Item]

VARIABLES
    pending,  \* the events inserted and not yet popped
    out       \* what the last queue_pop returned

vars == <<pending, out>>

Init == pending = {} /\ out = NullEvent

Insert(e) ==
    /\ e \notin pending
    /\ pending' = pending \union {e}
    /\ UNCHANGED out

Pop(e) ==
    /\ e \in pending
    /\ \A f \in pending : e.vtime <= f.vtime
    /\ pending' = pending \ {e}
    /\ out' = e

PopEmpty ==
    /\ pending = {}
    /\ out' = NullEvent
    /\ UNCHANGED pending

Next == PopEmpty \/ \E e \in Event : Insert(e) \/ Pop(e)

Spec == Init /\ [][Next]_vars
=============================================================================
