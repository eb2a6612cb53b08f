--------------------------- MODULE TxQueueProofs ---------------------------
(***************************************************************************)
(* Proofs about TxQueue: in every interleaving of any number of callers    *)
(* with the two threads, and of queue_stop with all of them, the mutexes   *)
(* do what they are for and no wakeup is lost.                             *)
(***************************************************************************)
EXTENDS TxQueue, TLAPS

LEMMA Initially == Init => IInv
BY NullAssumption, ThreadAssumption
   DEF Init, IInv, TypeOK, Locks, EndsAgree, NoLostWakeup

(* A caller's step: only AddFirst can fill the list, and it wakes the      *)
(* sender; the callers exclude each other and the sender by sendMutex.     *)
LEMMA CallerStep ==
    ASSUME IInv, NEW c \in Caller,
           GetSize(c) \/ CallerNext(c) \/ \E p \in Packet : Send(c, p)
    PROVE  IInv'
<1> USE NullAssumption, ThreadAssumption
    DEF IInv, TypeOK, Locks, EndsAgree, NoLostWakeup, list, line, callers, history
<1>1. CASE GetSize(c)
  BY <1>1 DEF GetSize
<1>2. CASE CallerLocks(c)
  BY <1>2 DEF CallerLocks, LockSend
<1>3. CASE AddFirst(c)
  BY <1>3 DEF AddFirst
<1>4. CASE AddNext(c)
  BY <1>4 DEF AddNext
<1>5. CASE CallerUnlocks(c)
  BY <1>5 DEF CallerUnlocks
<1>6. CASE \E p \in Packet : Send(c, p)
  BY <1>6 DEF Send
<1>7. QED
  BY <1>1, <1>2, <1>3, <1>4, <1>5, <1>6 DEF CallerNext

(* A step of queue_sender, its end included.                               *)
LEMMA SenderStep ==
    ASSUME IInv, SenderLocks \/ SpuriousWakeup \/ SenderNext
    PROVE  IInv'
<1> USE NullAssumption, ThreadAssumption
    DEF IInv, TypeOK, Locks, EndsAgree, NoLostWakeup, list, line, callers, history
<1>1. CASE SenderLocks
  BY <1>1 DEF SenderLocks, LockSend
<1>2. CASE SpuriousWakeup
  BY <1>2 DEF SpuriousWakeup
<1>3. CASE SenderWaits
  BY <1>3 DEF SenderWaits
<1>4. CASE SenderPops
  BY <1>4 DEF SenderPops
<1>5. CASE SenderHolds
  BY <1>5 DEF SenderHolds
<1>6. CASE Sent
  BY <1>6 DEF Sent
<1>7. CASE SenderEnds
  BY <1>7 DEF SenderEnds
<1>8. CASE SenderEndsUnsent
  BY <1>8 DEF SenderEndsUnsent
<1>9. QED
  BY <1>1, <1>2, <1>3, <1>4, <1>5, <1>6, <1>7, <1>8 DEF SenderNext

(* A step of queue_receiver, its end included.                             *)
LEMMA ReceiverStep ==
    ASSUME IInv, ReceiverNext
    PROVE  IInv'
<1> USE NullAssumption, ThreadAssumption
    DEF IInv, TypeOK, Locks, EndsAgree, NoLostWakeup, list, line, callers, history
<1>1. CASE ReadSymbol
  BY <1>1 DEF ReadSymbol
<1>2. CASE ReceiverHolds
  BY <1>2 DEF ReceiverHolds
<1>3. CASE ReadFrame
  BY <1>3 DEF ReadFrame
<1>4. CASE FrameTimeout
  BY <1>4 DEF FrameTimeout
<1>5. CASE HoldoffEnds
  BY <1>5 DEF HoldoffEnds
<1>6. CASE ReceiverEnds
  BY <1>6 DEF ReceiverEnds
<1>7. CASE ReceiverEndsUnread
  BY <1>7 DEF ReceiverEndsUnread
<1>8. QED
  BY <1>1, <1>2, <1>3, <1>4, <1>5, <1>6, <1>7 DEF ReceiverNext

(* The other stations, queue_stop, and a program that has stopped.         *)
LEMMA OtherStep ==
    ASSUME IInv, HearStart \/ HearEnd \/ Stop \/ Returned \/ UNCHANGED vars
    PROVE  IInv'
<1> USE DEF IInv, TypeOK, Locks, EndsAgree, NoLostWakeup, list, line, callers, history
<1>1. CASE HearStart
  BY <1>1 DEF HearStart
<1>2. CASE HearEnd
  BY <1>2 DEF HearEnd
<1>3. CASE Stop
  BY <1>3 DEF Stop
<1>4. CASE Returned \/ UNCHANGED vars
  <2>1. UNCHANGED <<head, tail, next, sendMutex, holdoffMutex, caller, item, sender,
                    xqueue, receiver, cancelled>>
    BY <1>4 DEF Returned, vars
  <2>2. QED
    BY <2>1
<1>5. QED
  BY <1>1, <1>2, <1>3, <1>4

LEMMA NextPreserves == IInv /\ [Next]_vars => IInv'
BY CallerStep, SenderStep, ReceiverStep, OtherStep DEF Next

(***************************************************************************)
(* The inductive invariant: the types, the discipline of the two mutexes,  *)
(* and that only an empty list is slept on (queue.c:73-173, 190-198).      *)
(***************************************************************************)
THEOREM Invariance == Spec => []IInv
BY Initially, NextPreserves, PTL DEF Spec

(***************************************************************************)
(* No wakeup is lost, though only the packet that ends an empty list is    *)
(* signalled: for any number of callers and packets (queue.c:85-94).       *)
(***************************************************************************)
THEOREM WakeupsKept == Spec => []NoLostWakeup
<1>1. IInv => NoLostWakeup
  BY DEF IInv
<1>2. QED
  BY <1>1, Invariance, PTL

(***************************************************************************)
(* The sender and the receiver are never both at the radio                 *)
(* (queue.c:140-145, 163-170).                                             *)
(***************************************************************************)
THEOREM Exclusion == Spec => []RadioExclusion
<1>1. IInv => RadioExclusion
  BY DEF IInv, Locks, RadioExclusion
<1>2. QED
  BY <1>1, Invariance, PTL

-----------------------------------------------------------------------------
(* What a packet put at the end of the list makes of Fresh and of Taken.   *)
LEMMA AcceptedOne ==
    ASSUME IInv, Fresh, NEW c \in Caller, caller[c] = "adding",
           accepted' = Append(accepted, item[c]),
           UNCHANGED <<sent, xqueue, item>>,
           caller' = [caller EXCEPT ![c] = "added"]
    PROVE  /\ item[c] \in Packet
           /\ accepted' \in Seq(Packet)
           /\ Len(accepted') = Len(accepted) + 1
           /\ \A j \in 1 .. Len(accepted) : accepted'[j] = accepted[j]
           /\ accepted'[Len(accepted) + 1] = item[c]
           /\ \A j, k \in DOMAIN accepted' : accepted'[j] = accepted'[k] => j = k
           /\ \A d \in Caller : OnTheWay(d)' => item[d] \notin Range(accepted')
           /\ Taken' = Taken
<1>1. item[c] \in Packet /\ accepted \in Seq(Packet)
  BY DEF IInv, TypeOK, Fresh
<1>2. /\ accepted' \in Seq(Packet)
      /\ Len(accepted') = Len(accepted) + 1
      /\ \A j \in 1 .. Len(accepted) : accepted'[j] = accepted[j]
      /\ accepted'[Len(accepted) + 1] = item[c]
  BY <1>1
<1>3. \A j \in 1 .. Len(accepted) : accepted[j] # item[c]
  BY <1>1 DEF Fresh, OnTheWay, Range
<1>4. \A j, k \in DOMAIN accepted' : accepted'[j] = accepted'[k] => j = k
  BY <1>1, <1>2, <1>3 DEF Fresh
<1>5. \A d \in Caller : OnTheWay(d)' => OnTheWay(d) /\ d # c
  BY DEF OnTheWay, IInv, TypeOK
<1>6. \A d \in Caller : OnTheWay(d)' => item[d] \notin Range(accepted')
  <2>1. SUFFICES ASSUME NEW d \in Caller, OnTheWay(d)', NEW j \in DOMAIN accepted',
                        accepted'[j] = item[d]
                 PROVE  FALSE
    BY DEF Range
  <2>2. OnTheWay(d) /\ d # c
    BY <1>5, <2>1
  <2>3. item[d] # item[c]
    BY <2>2 DEF Fresh, OnTheWay
  <2>4. j \in 1 .. Len(accepted) /\ accepted[j] = item[d]
    BY <1>1, <1>2, <2>1, <2>3
  <2>5. QED
    BY <1>1, <2>2, <2>4 DEF Fresh, Range
<1>7. Taken' = Taken
  BY DEF Taken, InHand
<1>8. QED
  BY <1>1, <1>2, <1>4, <1>6, <1>7

(* What an action must leave alone not to disturb InOrder, and Fresh.      *)
LEMMA OrderUndisturbed ==
    ASSUME InOrder, UNCHANGED <<head, tail, next, accepted, sent, xqueue>>
    PROVE  InOrder'
BY DEF InOrder, Taken, InHand

LEMMA FreshUndisturbed ==
    ASSUME Fresh, UNCHANGED <<next, accepted, sent, caller, item, xqueue>>,
           \/ UNCHANGED sender
           \/ sender' \in {"start", "testing", "waiting", "woken"} /\ xqueue = Null
           \/ sender' = "sending" /\ xqueue # Null
           \/ sender' = "ended"
    PROVE  Fresh'
BY DEF Fresh, OnTheWay

(* The steps that change neither what is queued nor what is on its way.    *)
LEMMA QuietStep ==
    ASSUME Fresh, InOrder,
           \/ SenderLocks \/ SpuriousWakeup \/ SenderWaits \/ SenderHolds
           \/ SenderEnds \/ SenderEndsUnsent \/ ReceiverNext
           \/ HearStart \/ HearEnd \/ Stop \/ Returned \/ UNCHANGED vars
    PROVE  Fresh' /\ InOrder'
<1>1. UNCHANGED <<head, tail, next, accepted, sent, caller, item, xqueue>>
  BY DEF SenderLocks, SpuriousWakeup, SenderWaits, SenderHolds, SenderEnds,
         SenderEndsUnsent, ReceiverNext, ReadSymbol, ReceiverHolds, ReadFrame,
         FrameTimeout, HoldoffEnds, ReceiverEnds, ReceiverEndsUnread,
         HearStart, HearEnd, Stop, Returned, vars, list, line, callers, history
<1>2. \/ UNCHANGED sender
      \/ sender' \in {"start", "testing", "waiting", "woken"} /\ xqueue = Null
      \/ sender' = "sending" /\ xqueue # Null
      \/ sender' = "ended"
  BY DEF SenderLocks, SpuriousWakeup, SenderWaits, SenderHolds, SenderEnds,
         SenderEndsUnsent, ReceiverNext, ReadSymbol, ReceiverHolds, ReadFrame,
         FrameTimeout, HoldoffEnds, ReceiverEnds, ReceiverEndsUnread,
         HearStart, HearEnd, Stop, Returned, vars, Fresh
<1>3. QED
  BY <1>1, <1>2, OrderUndisturbed, FreshUndisturbed

(* A caller takes a new packet to the list, or goes away from it.          *)
LEMMA CallerMoves ==
    ASSUME IInv, Fresh, InOrder, NEW c \in Caller,
           GetSize(c) \/ CallerLocks(c) \/ CallerUnlocks(c)
    PROVE  Fresh' /\ InOrder'
<1>1. UNCHANGED <<head, tail, next, accepted, sent, xqueue, sender>>
  BY DEF GetSize, CallerLocks, CallerUnlocks, list, history
<1>2. \A d \in Caller : OnTheWay(d)' => OnTheWay(d) /\ item'[d] = item[d]
  BY DEF GetSize, CallerLocks, CallerUnlocks, IInv, TypeOK, OnTheWay, callers
<1>3. \A d \in Caller : item'[d] = item[d] \/ item'[d] = Null
  BY DEF GetSize, CallerLocks, CallerUnlocks, IInv, TypeOK, callers
<1>4. \A d \in Caller : OnTheWay(d) => item[d] # Null
  BY NullAssumption DEF IInv, TypeOK, OnTheWay
<1>5. Fresh'
  BY <1>1, <1>2, <1>3, <1>4 DEF Fresh
<1>6. QED
  BY <1>1, <1>5, OrderUndisturbed

LEMMA SendStep ==
    ASSUME IInv, Fresh, InOrder, NEW c \in Caller, NEW p \in Packet, Send(c, p)
    PROVE  Fresh' /\ InOrder'
<1>1. /\ UNCHANGED <<head, tail, accepted, sent, xqueue, sender>>
      /\ next' = [next EXCEPT ![p] = Null]
      /\ item' = [item EXCEPT ![c] = p]
      /\ caller' = [caller EXCEPT ![c] = "sending"]
      /\ p \notin Range(accepted) /\ p \notin Range(item)
  BY DEF Send, history
<1>2. \A d \in Caller : item[d] # p
  BY <1>1 DEF IInv, TypeOK, Range
<1>3. \A j \in DOMAIN accepted : accepted[j] # p /\ accepted[j] \in Packet
  BY <1>1 DEF Fresh, Range
<1>4. Fresh'
  BY <1>1, <1>2 DEF Fresh, IInv, TypeOK, OnTheWay
<1>5. InOrder'
  <2>1. Taken' = Taken
    BY <1>1 DEF Taken, InHand
  <2>2. \A j \in DOMAIN accepted : next'[accepted[j]] = next[accepted[j]]
    BY <1>1, <1>3 DEF IInv, TypeOK
  <2>3. Taken \in Seq(Packet) /\ accepted \in Seq(Packet)
    BY DEF Fresh, Taken, InHand, IInv, TypeOK
  <2>4. QED
    BY <1>1, <2>1, <2>2, <2>3 DEF InOrder
<1>6. QED
  BY <1>4, <1>5

(* What InOrder says of a list that is empty, and of one that is not.      *)
LEMMA Ends ==
    ASSUME IInv, Fresh, InOrder
    PROVE  /\ Taken \in Seq(Packet) /\ accepted \in Seq(Packet)
           /\ Len(Taken) \in Nat /\ Len(accepted) \in Nat
           /\ Len(Taken) = Len(accepted) <=> tail = Null
           /\ head = Null <=> tail = Null
<1>1. Taken \in Seq(Packet) /\ accepted \in Seq(Packet)
  BY DEF Fresh, Taken, InHand, IInv, TypeOK
<1>2. Len(Taken) \in Nat /\ Len(accepted) \in Nat
  BY <1>1
<1>3. Len(Taken) < Len(accepted) => tail \in Packet
  BY <1>1, <1>2 DEF InOrder
<1>4. QED
  BY <1>1, <1>2, <1>3, NullAssumption DEF InOrder, IInv, EndsAgree

LEMMA AddFirstStep ==
    ASSUME IInv, Fresh, InOrder, NEW c \in Caller, AddFirst(c)
    PROVE  Fresh' /\ InOrder'
<1>1. /\ caller[c] = "adding" /\ tail = Null
      /\ accepted' = Append(accepted, item[c])
      /\ UNCHANGED <<sent, xqueue, item, next>>
      /\ caller' = [caller EXCEPT ![c] = "added"]
      /\ head' = item[c] /\ tail' = item[c]
      /\ sender' = IF sender = "waiting" THEN "woken" ELSE sender
  BY DEF AddFirst
<1>2. /\ item[c] \in Packet
      /\ accepted' \in Seq(Packet)
      /\ Len(accepted') = Len(accepted) + 1
      /\ \A j \in 1 .. Len(accepted) : accepted'[j] = accepted[j]
      /\ accepted'[Len(accepted) + 1] = item[c]
      /\ \A j, k \in DOMAIN accepted' : accepted'[j] = accepted'[k] => j = k
      /\ \A d \in Caller : OnTheWay(d)' => item[d] \notin Range(accepted')
      /\ Taken' = Taken
  BY <1>1, AcceptedOne
<1>3. \A d \in Caller : OnTheWay(d)' => OnTheWay(d)
  BY <1>1 DEF OnTheWay, IInv, TypeOK
<1>4. Fresh'
  BY <1>1, <1>2, <1>3 DEF Fresh
<1>5. Len(Taken) = Len(accepted) /\ Len(accepted) \in Nat
  BY <1>1, Ends
<1>6. next'[item[c]] = Null
  BY <1>1 DEF Fresh, OnTheWay
<1>7. InOrder'
  BY <1>1, <1>2, <1>5, <1>6 DEF InOrder
<1>8. QED
  BY <1>4, <1>7

LEMMA AddNextStep ==
    ASSUME IInv, Fresh, InOrder, NEW c \in Caller, AddNext(c)
    PROVE  Fresh' /\ InOrder'
<1>1. /\ caller[c] = "adding" /\ tail # Null
      /\ accepted' = Append(accepted, item[c])
      /\ UNCHANGED <<sent, xqueue, item, head, sender>>
      /\ caller' = [caller EXCEPT ![c] = "added"]
      /\ next' = [next EXCEPT ![tail] = item[c]] /\ tail' = item[c]
  BY DEF AddNext
<1>2. /\ item[c] \in Packet
      /\ accepted' \in Seq(Packet)
      /\ Len(accepted') = Len(accepted) + 1
      /\ \A j \in 1 .. Len(accepted) : accepted'[j] = accepted[j]
      /\ accepted'[Len(accepted) + 1] = item[c]
      /\ \A j, k \in DOMAIN accepted' : accepted'[j] = accepted'[k] => j = k
      /\ \A d \in Caller : OnTheWay(d)' => item[d] \notin Range(accepted')
      /\ Taken' = Taken
  BY <1>1, AcceptedOne
<1>3. /\ Len(Taken) \in Nat /\ Len(accepted) \in Nat
      /\ Len(Taken) < Len(accepted)
      /\ tail = accepted[Len(accepted)] /\ accepted \in Seq(Packet)
  BY <1>1, Ends DEF InOrder
<1>4. tail \in Packet /\ next \in [Packet -> Packet \union {Null}]
  BY <1>3 DEF IInv, TypeOK
<1>5. \A d \in Caller : OnTheWay(d)' => OnTheWay(d) /\ item[d] # tail
  BY <1>1, <1>3 DEF OnTheWay, IInv, TypeOK, Fresh, Range
<1>6. \A d \in Caller : OnTheWay(d)' => next'[item[d]] = Null
  BY <1>1, <1>4, <1>5 DEF Fresh, IInv, TypeOK, OnTheWay
<1>7. Fresh'
  BY <1>1, <1>2, <1>5, <1>6 DEF Fresh
<1>8. item[c] # tail
  BY <1>1, <1>3 DEF Fresh, OnTheWay, Range
<1>9. next'[tail'] = Null /\ next'[tail] = item[c]
  BY <1>1, <1>2, <1>4, <1>8 DEF Fresh, OnTheWay
<1>10. \A j \in 1 .. Len(accepted) - 1 : next'[accepted[j]] = next[accepted[j]]
  BY <1>1, <1>3, <1>4 DEF Fresh
<1>11. \A j \in Len(Taken) + 1 .. Len(accepted) : next'[accepted'[j]] = accepted'[j + 1]
  <2>1. SUFFICES ASSUME NEW j \in Len(Taken) + 1 .. Len(accepted)
                 PROVE  next'[accepted'[j]] = accepted'[j + 1]
    OBVIOUS
  <2>2. CASE j = Len(accepted)
    BY <1>2, <1>3, <1>9, <2>2
  <2>3. CASE j # Len(accepted)
    BY <1>2, <1>3, <1>10, <2>1, <2>3 DEF InOrder
  <2>4. QED
    BY <2>2, <2>3
<1>12. InOrder'
  BY <1>1, <1>2, <1>3, <1>9, <1>11 DEF InOrder
<1>13. QED
  BY <1>7, <1>12

LEMMA SenderPopsStep ==
    ASSUME IInv, Fresh, InOrder, SenderPops
    PROVE  Fresh' /\ InOrder'
<1>1. /\ sender = "testing" /\ head # Null /\ xqueue = Null
      /\ xqueue' = head /\ head' = next[head] /\ sender' = "popped"
      /\ tail' = IF next[head] = Null THEN Null ELSE tail
      /\ UNCHANGED <<next, caller, item, accepted, sent>>
  BY DEF SenderPops, callers, history, Fresh
<1>2. Fresh'
  BY <1>1 DEF Fresh, OnTheWay
<1>3. /\ Len(Taken) \in Nat /\ Len(accepted) \in Nat /\ Len(Taken) < Len(accepted)
      /\ Taken \in Seq(Packet) /\ accepted \in Seq(Packet)
  BY <1>1, Ends DEF InOrder
<1>4. head = accepted[Len(Taken) + 1]
  BY <1>3 DEF InOrder
<1>5. /\ Taken = sent /\ Taken' = Append(Taken, head)
  BY <1>1 DEF Taken, InHand, Fresh, IInv, TypeOK
<1>6. CASE Len(Taken) + 1 = Len(accepted)
  <2>1. next[head] = Null
    BY <1>3, <1>4, <1>6 DEF InOrder
  <2>2. QED
    BY <1>1, <1>2, <1>3, <1>4, <1>5, <1>6, <2>1 DEF InOrder
<1>7. CASE Len(Taken) + 1 # Len(accepted)
  <2>1. next[head] = accepted[Len(Taken) + 2] /\ next[head] # Null
    BY <1>3, <1>4, <1>7, NullAssumption DEF InOrder
  <2>2. Len(Taken') = Len(Taken) + 1
    BY <1>3, <1>4, <1>5
  <2>3. \A j \in 1 .. Len(Taken') : Taken'[j] = accepted[j]
    BY <1>3, <1>4, <1>5, <2>2 DEF InOrder
  <2>4. QED
    BY <1>1, <1>2, <1>3, <1>7, <2>1, <2>2, <2>3 DEF InOrder
<1>8. QED
  BY <1>6, <1>7

LEMMA SentStep ==
    ASSUME IInv, Fresh, InOrder, Sent
    PROVE  Fresh' /\ InOrder'
<1>1. /\ sender = "sending" /\ xqueue \in Packet
      /\ sent' = Append(sent, xqueue) /\ xqueue' = Null /\ sender' = "start"
      /\ UNCHANGED <<head, tail, next, caller, item, accepted>>
  BY DEF Sent, list, callers, Fresh, IInv, TypeOK
<1>2. Fresh'
  BY <1>1 DEF Fresh, OnTheWay
<1>3. Taken' = Taken
  BY <1>1, NullAssumption DEF Taken, InHand, Fresh
<1>4. InOrder'
  BY <1>1, <1>3 DEF InOrder
<1>5. QED
  BY <1>2, <1>4

LEMMA OrderPreserved == IInv /\ Fresh /\ InOrder /\ [Next]_vars => Fresh' /\ InOrder'
BY QuietStep, CallerMoves, SendStep, AddFirstStep, AddNextStep, SenderPopsStep, SentStep
   DEF Next, CallerNext, SenderNext

(***************************************************************************)
(* Whatever the threads interleave, packets are sent once each and in the  *)
(* order they were queued in, for any number of callers and packets, and   *)
(* when the threads are cancelled nothing is sent out of turn              *)
(* (queue.c:73-95, 122-151, 190-198).                                      *)
(***************************************************************************)
THEOREM OrderKept == Spec => []InOrder
<1>1. Init => Fresh /\ InOrder
  BY NullAssumption DEF Init, Fresh, OnTheWay, InOrder, Taken, InHand
<1>2. QED
  BY <1>1, Invariance, OrderPreserved, PTL DEF Spec
=============================================================================
