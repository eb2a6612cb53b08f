---------------------------- MODULE SerialProofs ----------------------------
(***************************************************************************)
(* Proofs about Serial: with any periods and delays, and however late the  *)
(* clock is read, the one timer variable keeps a node beaconing.           *)
(***************************************************************************)
EXTENDS Serial, TLAPS

(* Every delay is a number, and so is what a turn of the loop waits for.   *)
LEMMA Numbers ==
    /\ {BeaconPeriod, WakeupPeriod, Eschaton} \subseteq Nat \ {0} /\ Lag \in Nat
    /\ Inf \in Nat
    /\ \A d \in TimerDelay : d \in Nat /\ d > 0
    /\ \E d \in TimerDelay : d <= BeaconPeriod
    /\ Never \notin Nat
BY SerialAssumption DEF Never

LEMMA Later == \A a, b, d \in Nat : b >= a => a + d <= b + d
OBVIOUS

LEMMA Initially == Init => IInv
BY Numbers DEF Init, IInv, TypeOK, TimerPending, AwakeInTime, Spaced, Started

(* A turn that sets no timer only lets time pass.                          *)
LEMMA PassingStep ==
    ASSUME IInv, Idle \/ Hear
    PROVE  IInv'
<1>1. /\ vtime' \in Nat /\ vtime' >= vtime
      /\ UNCHANGED <<id, timer, status, wake, sent>>
      /\ pc = "run"
  BY Numbers DEF Idle, Hear, Timeout, IInv, TypeOK
<1>2. TimerPending'
  BY <1>1, Numbers DEF IInv, TypeOK, TimerPending, Started
<1>3. Spaced'
  BY <1>1, Numbers DEF IInv, TypeOK, Spaced
<1>4. QED
  BY <1>1, <1>2, <1>3 DEF IInv, TypeOK, AwakeInTime

(* The timer of a woken node is due a period after it was woken.           *)
LEMMA WakeStep ==
    ASSUME IInv, NEW d \in TimerDelay, Wake(d)
    PROVE  IInv'
<1>1. PICK v \in vtime .. Timeout + Lag : \E u \in v .. v + Lag :
          LET due == v + BeaconPeriod
          IN  IF Accepted(timer, v + d) /\ Accepted(v + d, due)
                THEN /\ status' = "WAKING"
                     /\ wake' = v + WakeupPeriod
                     /\ timer' = due
                     /\ vtime' = u
                     /\ pc' = Turned(u, due)
                     /\ UNCHANGED <<id, sent>>
                ELSE pc' = "failed" /\ UNCHANGED <<id, vtime, timer, status, wake, sent>>
  BY DEF Wake
<1>2. v \in Nat /\ v >= vtime
  BY Numbers DEF Timeout, IInv, TypeOK
<1>3. CASE pc' = "failed" /\ UNCHANGED <<id, vtime, timer, status, wake, sent>>
  BY <1>3 DEF IInv, TypeOK, TimerPending, Started, AwakeInTime, Spaced
<1>4. CASE /\ status' = "WAKING" /\ wake' = v + WakeupPeriod /\ timer' = v + BeaconPeriod
           /\ vtime' \in v .. v + Lag /\ UNCHANGED <<id, sent>>
  <2>1. TypeOK' /\ vtime' >= v
    BY <1>2, <1>4, Numbers DEF IInv, TypeOK
  <2>2. TimerPending'
    BY <1>2, <1>4, <2>1, Numbers DEF TimerPending, TypeOK
  <2>3. AwakeInTime'
    BY <1>2, <1>4, Numbers DEF AwakeInTime
  <2>4. Spaced'
    <3>1. PICK d0 \in TimerDelay : d0 <= BeaconPeriod
      BY Numbers
    <3>2. pc = "run" /\ (sent # Never => sent \in Nat /\ sent <= vtime)
      BY DEF Wake, IInv, TypeOK, Spaced
    <3>3. sent # Never => sent' <= vtime' /\ timer' >= sent' + d0
      BY <1>2, <1>4, <2>1, <3>1, <3>2, Numbers DEF IInv, TypeOK
    <3>4. QED
      BY <1>4, <3>1, <3>3 DEF Spaced
  <2>5. QED
    BY <2>1, <2>2, <2>3, <2>4 DEF IInv
<1>5. QED
  BY <1>1, <1>3, <1>4

(* A timer that fires sets the next, one of its delays ahead.              *)
LEMMA TimerStep ==
    ASSUME IInv, NEW d1 \in TimerDelay, NEW d2 \in TimerDelay, Timer(d1, d2)
    PROVE  IInv'
<1>1. /\ sent' = vtime /\ UNCHANGED <<id, wake>> /\ pc = "run" /\ vtime >= timer
      /\ vtime \in Nat /\ d2 \in Nat
  BY Numbers DEF Timer, IInv, TypeOK
<1>2. CASE pc' = "failed" /\ UNCHANGED <<vtime, timer, status>>
  BY <1>1, <1>2 DEF IInv, TypeOK, TimerPending, Started, AwakeInTime, Spaced
<1>3. CASE /\ status' = IF Awakes(vtime) THEN "AWAKE" ELSE status
           /\ timer' = vtime + d2
           /\ vtime' \in vtime .. vtime + Lag
  <2>1. TypeOK' /\ vtime' \in Nat /\ vtime' >= vtime
    BY <1>1, <1>3, Numbers DEF IInv, TypeOK
  <2>2. TimerPending'
    <3>1. timer' <= vtime' + d2
      BY <1>1, <1>3, <2>1, Later
    <3>2. QED
      BY <3>1 DEF TimerPending
  <2>3. AwakeInTime'
    BY <1>1, <1>3 DEF AwakeInTime, Awakes, IInv, TypeOK
  <2>4. Spaced'
    BY <1>1, <1>3, <2>1 DEF Spaced
  <2>5. QED
    BY <2>1, <2>2, <2>3, <2>4 DEF IInv
<1>4. QED
  BY <1>2, <1>3 DEF Timer, Rearmed

LEMMA NextPreserves == IInv /\ [Next]_vars => IInv'
<1>1. IInv /\ UNCHANGED vars => IInv'
  BY DEF vars, IInv, TypeOK, TimerPending, Started, AwakeInTime, Spaced
<1>2. QED
  BY <1>1, PassingStep, WakeStep, TimerStep DEF Next

(***************************************************************************)
(* The timer of a waking node is always pending, and between a beacon and  *)
(* the next timer lies at least the shortest delay (node_timer).           *)
(***************************************************************************)
THEOREM Invariance == Spec => []IInv
BY Initially, NextPreserves, PTL DEF Spec

(***************************************************************************)
(* The chain of beacons never breaks: a timer is always pending, though a  *)
(* single variable stands for all those asked for (serial.c:41-43, 89-92). *)
(***************************************************************************)
THEOREM ChainKept == Spec => []TimerPending
<1>1. IInv => TimerPending
  BY DEF IInv
<1>2. QED
  BY <1>1, Invariance, PTL

(***************************************************************************)
(* A waking node's timer is due soon after its wake_time (node.c:353-355). *)
(***************************************************************************)
THEOREM WakesInTime == Spec => []AwakeInTime
<1>1. IInv => AwakeInTime
  BY DEF IInv
<1>2. QED
  BY <1>1, Invariance, PTL

(***************************************************************************)
(* Beacons keep apart: whatever wakes the node and however late the timer  *)
(* is seen to be due, the next beacon is no sooner than the shortest delay *)
(* after the last (serial.c:29-31, 89-92).                                 *)
(***************************************************************************)
THEOREM Apart == Spec => BeaconsApart
<1>1. IInv /\ [Next]_vars =>
        [(\E d1, d2 \in TimerDelay : Timer(d1, d2)) /\ sent # Never
            => \E d \in TimerDelay : sent' >= sent + d]_vars
  <2>1. SUFFICES ASSUME IInv, NEW d1 \in TimerDelay, NEW d2 \in TimerDelay,
                        Timer(d1, d2), sent # Never
                 PROVE  \E d \in TimerDelay : sent' >= sent + d
    OBVIOUS
  <2>2. PICK d \in TimerDelay : timer >= sent + d
    BY <2>1 DEF IInv, Spaced, Timer
  <2>3. sent' = vtime /\ vtime >= timer
    BY <2>1 DEF Timer
  <2>4. sent' >= sent + d
    BY <2>1, <2>2, <2>3, Numbers DEF IInv, TypeOK
  <2>5. QED
    BY <2>4
<1>2. QED
  BY <1>1, Invariance, PTL DEF Spec, BeaconsApart
=============================================================================
