------------------------------- MODULE Serial -------------------------------
(***************************************************************************)
(* radio2/src/serial.c: one node of radio2/src/node.c behind a radio, with *)
(* a single variable for the time of its next timer.  The node's tables    *)
(* and what its beacons list are in module Mesh; here is when it sends,    *)
(* and what becomes of the timers it asks for.                             *)
(*                                                                         *)
(* vtime is the clock as vtime_from_wall returned it last; it may have got *)
(* ahead by any amount up to Lag past the time that was waited for.        *)
(***************************************************************************)
EXTENDS Integers

CONSTANTS
    BeaconPeriod, \* NODE_BEACON_PERIOD
    TimerDelay,   \* half to three halves of the period
    WakeupPeriod, \* NODE_WAKEUP_PERIOD
    Eschaton,     \* the time after which the program ends
    Inf,          \* VTIME_INF
    Lag           \* bound: how late a reading of the clock can be

ASSUME SerialAssumption ==
    /\ {BeaconPeriod, WakeupPeriod, Eschaton} \union TimerDelay \subseteq Nat \ {0}
    /\ \E d \in TimerDelay : d <= BeaconPeriod
    /\ Lag \in Nat
    /\ Inf \in Nat /\ \A d \in TimerDelay : Eschaton + 2 * Lag + d < Inf

VARIABLES
    id,     \* of the node: node 0 is started, the others wait to be woken
    vtime,
    timer,  \* Timer
    status, \* of the node
    wake,   \* wake_time
    pc,     \* "run" in the loops, "ended", or "failed" by the assert of serial_callback
    sent    \* the time of the last beacon, Never before the first

vars == <<id, vtime, timer, status, wake, pc, sent>>

Never == -1

Init ==
    /\ id \in {0, 1}
    /\ vtime = 0
    /\ timer = IF id = 0 THEN 0 ELSE Inf
    /\ status = "ASLEEP"
    /\ wake = 0
    /\ pc = "run"
    /\ sent = Never

\* what the inner loop waits for
Timeout == IF timer < Eschaton THEN timer ELSE Eschaton

\* the clock at v after one turn of the inner loop: the last one when time is up
Turned(v, t) == IF v >= Eschaton /\ v < t THEN "ended" ELSE "run"

\* radio_wait or radio_recv returns nothing
Idle ==
    /\ pc = "run"
    /\ vtime < timer
    /\ \E v \in vtime .. Timeout + Lag : vtime' = v /\ pc' = Turned(v, timer)
    /\ UNCHANGED <<id, timer, status, wake, sent>>

\* the assert of serial_callback: the timer set may only be made earlier
Accepted(t, due) == due < t

\* a beacon is heard that wakes nobody: from a waking node, or by a woken one
Hear ==
    /\ pc = "run"
    /\ vtime < timer
    /\ \E v \in vtime .. Timeout + 2 * Lag : vtime' = v /\ pc' = Turned(v, timer)
    /\ UNCHANGED <<id, timer, status, wake, sent>>

(***************************************************************************)
(* A beacon from a node that is not waking wakes this one: node_set_status *)
(* asks for a timer after d, and then node_receive_beacon for another one  *)
(* after a period (node.c:174-187).  The clock is v, and u afterwards.     *)
(***************************************************************************)
Wake(d) ==
    /\ pc = "run"
    /\ vtime < timer
    /\ status = "ASLEEP"
    /\ \E v \in vtime .. Timeout + Lag : \E u \in v .. v + Lag :
          LET due == v + BeaconPeriod
          IN  IF Accepted(timer, v + d) /\ Accepted(v + d, due)
                THEN /\ status' = "WAKING"
                     /\ wake' = v + WakeupPeriod
                     /\ timer' = due
                     /\ vtime' = u
                     /\ pc' = Turned(u, due)
                     /\ UNCHANGED <<id, sent>>
                ELSE pc' = "failed" /\ UNCHANGED <<id, vtime, timer, status, wake, sent>>

\* mutant: a waking node is never seen to have waited long enough
AwakesLate(v) == status = "WAKING" /\ v >= wake + WakeupPeriod

Awakes(v) == status = "WAKING" /\ v >= wake

\* mutant: the timer is cleared after node_timer and not before
RearmedAndCleared(v, d) == Inf

\* mutant: the delay is forgotten
RearmedAtOnce(v, d) == v

\* the timer is cleared, and set again by node_timer
Rearmed(v, d) == v + d

(***************************************************************************)
(* The timer is due: node_timer sends a beacon and asks for the next timer *)
(* after d2, but when the node becomes awake node_set_status has asked for *)
(* one after d1 already (node.c:345-367).                                  *)
(***************************************************************************)
Timer(d1, d2) ==
    /\ pc = "run"
    /\ vtime >= timer
    /\ sent' = vtime
    /\ IF ~Awakes(vtime) \/ Accepted(vtime + d1, vtime + d2)
         THEN /\ status' = IF Awakes(vtime) THEN "AWAKE" ELSE status
              /\ timer' = Rearmed(vtime, d2)
              /\ vtime' \in vtime .. vtime + Lag
              /\ pc' = IF vtime' < Eschaton THEN "run" ELSE "ended"
         ELSE pc' = "failed" /\ UNCHANGED <<vtime, timer, status>>
    /\ UNCHANGED <<id, wake>>

Next ==
    \/ Idle
    \/ Hear
    \/ \E d \in TimerDelay : Wake(d)
    \/ \E d1, d2 \in TimerDelay : Timer(d1, d2)

Spec == Init /\ [][Next]_vars

-----------------------------------------------------------------------------
\* the values of the variables that the properties are about
TypeOK ==
    /\ {vtime, timer, wake} \subseteq Nat
    /\ sent \in Nat \union {Never}
    /\ status \in {"ASLEEP", "WAKING", "AWAKE"}

Started == id = 0 \/ status # "ASLEEP"

(***************************************************************************)
(* A node that was started or woken always has a timer pending, due within *)
(* three halves of a period: though one variable stands for all the timers *)
(* asked for, the chain of beacons never breaks while the program runs     *)
(* (serial.c:41-43, 89-92).                                                *)
(***************************************************************************)
TimerPending ==
    Started => \E d \in TimerDelay \union {BeaconPeriod} : timer <= vtime + d

(***************************************************************************)
(* Two beacons are sent at least half a period apart, whichever of its     *)
(* timers a node keeps: there is one chain of timers here, when the        *)
(* simulator runs up to three for every node (serial.c:29-31).             *)
(***************************************************************************)
BeaconsApart ==
    [][(\E d1, d2 \in TimerDelay : Timer(d1, d2)) /\ sent # Never
            => \E d \in TimerDelay : sent' >= sent + d]_vars

(***************************************************************************)
(* A waking node becomes awake at the latest with the first timer after    *)
(* its wake_time, and that is no later than three halves of a period after *)
(* (node.c:353-355).                                                       *)
(***************************************************************************)
AwakeInTime ==
    status = "WAKING" => \E d \in TimerDelay \union {BeaconPeriod} : timer < wake + d

(***************************************************************************)
(* What makes the three inductive: between a beacon and the next timer     *)
(* there is at least the shortest delay, and the timer that a waking node  *)
(* waits for is there.                                                     *)
(***************************************************************************)
Spaced ==
    pc # "failed" /\ sent # Never => sent <= vtime /\ \E d \in TimerDelay : timer >= sent + d

IInv == TypeOK /\ TimerPending /\ AwakeInTime /\ Spaced

(***************************************************************************)
(* assert(vtime < Timer) (serial.c:41): no timer is asked for that is due  *)
(* later than the one already set.                                         *)
(***************************************************************************)
AssertHolds == pc # "failed"
=============================================================================
