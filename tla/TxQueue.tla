------------------------------ MODULE TxQueue ------------------------------
(***************************************************************************)
(* radio/serial/queue.c: a linked list of packets to send, the thread that *)
(* sends them, and the thread that receives, kept apart by a mutex.        *)
(*                                                                         *)
(* A step of a thread is a statement that another thread can see: locking, *)
(* unlocking, waiting on the condition variable, and the body of a         *)
(* critical section.  The serial line delivers the symbols of frames sent  *)
(* by others; only the Start and End symbols matter here.                  *)
(***************************************************************************)
EXTENDS Naturals, Sequences, FiniteSets, Functions

CONSTANTS
    Caller,    \* the threads that call queue_send_packet
    Packet,    \* the list nodes they allocate, one for each packet
    Null,      \* the null pointer
    Free,      \* the owner of a mutex that is not locked
    MaxFrames  \* bound: frames other stations send

ASSUME NullAssumption == Null \notin Packet
ASSUME ThreadAssumption ==
    /\ Free \notin Caller \union {"sender", "receiver"}
    /\ Caller \intersect {"sender", "receiver"} = {}
ASSUME FramesAssumption == MaxFrames \in Nat

VARIABLES
    head, tail,   \* queue_send_head, queue_send_tail
    next,         \* next[p], the link in list node p
    sendMutex,    \* the thread that holds queue_send_mutex
    holdoffMutex, \* the thread that holds queue_holdoff_mutex
    caller,       \* caller[c]: where c is
    item,         \* item[c]: the packet c is sending
    sender,       \* where queue_sender is
    xqueue,       \* its variable: the packet it has taken
    receiver,     \* where queue_receiver is
    input,        \* the symbols received and not yet read
    frames,       \* frames other stations have begun
    open,         \* the last of them has not ended
    cancelled,    \* the threads that queue_stop has cancelled
    accepted,     \* the packets put in the list, in order
    sent          \* the packets given to send_packet, in order; that it could
                  \* not write one is not noticed (queue.c:143)

list == <<head, tail, next>>
line == <<input, frames, open>>
callers == <<caller, item>>
history == <<cancelled, accepted, sent>>
vars == <<list, sendMutex, holdoffMutex, callers, sender, xqueue, receiver,
          line, history>>

Init ==
    /\ head = Null /\ tail = Null
    /\ next = [p \in Packet |-> Null]
    /\ sendMutex = Free /\ holdoffMutex = Free
    /\ caller = [c \in Caller |-> "idle"]
    /\ item = [c \in Caller |-> Null]
    /\ sender = "start" /\ xqueue = Null
    /\ receiver = "wait"
    /\ input = <<>> /\ frames = 0 /\ open = FALSE
    /\ cancelled = {} /\ accepted = <<>> /\ sent = <<>>

LockSend(t) == sendMutex = Free /\ sendMutex' = t

-----------------------------------------------------------------------------
\* queue_send_packet, until it needs the mutex
Send(c, p) ==
    /\ caller[c] = "idle" /\ cancelled = {}
    /\ p \notin Range(accepted) \union Range(item)
    /\ item' = [item EXCEPT ![c] = p]
    /\ next' = [next EXCEPT ![p] = Null]
    /\ caller' = [caller EXCEPT ![c] = "sending"]
    /\ UNCHANGED <<head, tail, sendMutex, holdoffMutex, sender, xqueue, receiver,
                   line, history>>

CallerLocks(c) ==
    /\ caller[c] = "sending" \/ caller[c] = "sizing"
    /\ LockSend(c)
    /\ caller' = [caller EXCEPT ![c] = IF @ = "sending" THEN "adding" ELSE "counting"]
    /\ UNCHANGED <<list, holdoffMutex, item, sender, xqueue, receiver,
                   line, history>>

\* mutant: the sender is not signalled
AddFirstSilently(c) ==
    /\ caller[c] = "adding"
    /\ tail = Null
    /\ head' = item[c] /\ tail' = item[c]
    /\ caller' = [caller EXCEPT ![c] = "added"]
    /\ accepted' = Append(accepted, item[c])
    /\ UNCHANGED <<next, sendMutex, holdoffMutex, item, sender, xqueue, receiver,
                   line, sent, cancelled>>

\* an empty list is filled, and the sender woken if it waits
AddFirst(c) ==
    /\ caller[c] = "adding"
    /\ tail = Null
    /\ head' = item[c] /\ tail' = item[c]
    /\ sender' = IF sender = "waiting" THEN "woken" ELSE sender
    /\ caller' = [caller EXCEPT ![c] = "added"]
    /\ accepted' = Append(accepted, item[c])
    /\ UNCHANGED <<next, sendMutex, holdoffMutex, item, xqueue, receiver, line,
                   sent, cancelled>>

AddNext(c) ==
    /\ caller[c] = "adding"
    /\ tail # Null
    /\ next' = [next EXCEPT ![tail] = item[c]]
    /\ tail' = item[c]
    /\ caller' = [caller EXCEPT ![c] = "added"]
    /\ accepted' = Append(accepted, item[c])
    /\ UNCHANGED <<head, sendMutex, holdoffMutex, item, sender, xqueue, receiver,
                   line, sent, cancelled>>

\* queue_send_get_size reads the head before it locks, and need not lock at all
GetSize(c) ==
    /\ caller[c] = "idle" /\ cancelled = {}
    /\ head # Null
    /\ caller' = [caller EXCEPT ![c] = "sizing"]
    /\ UNCHANGED <<list, sendMutex, holdoffMutex, item, sender, xqueue, receiver,
                   line, history>>

\* a packet was added, or the list was counted
CallerUnlocks(c) ==
    /\ caller[c] \in {"added", "counting"}
    /\ sendMutex' = Free
    /\ caller' = [caller EXCEPT ![c] = "idle"]
    /\ item' = [item EXCEPT ![c] = Null]
    /\ UNCHANGED <<list, holdoffMutex, sender, xqueue, receiver, line, history>>

-----------------------------------------------------------------------------
\* queue_sender: the mutex is locked, at the top of the loop or to leave the wait
SenderLocks ==
    /\ sender \in {"start", "woken"}
    /\ LockSend("sender")
    /\ sender' = "testing"
    /\ UNCHANGED <<list, holdoffMutex, callers, xqueue, receiver, line, history>>

\* pthread_cond_wait unlocks the mutex and waits
SenderWaits ==
    /\ sender = "testing" /\ "sender" \notin cancelled
    /\ head = Null
    /\ sendMutex' = Free
    /\ sender' = "waiting"
    /\ UNCHANGED <<list, holdoffMutex, callers, xqueue, receiver, line, history>>

\* POSIX lets the wait end without a signal
SpuriousWakeup ==
    /\ sender = "waiting" /\ "sender" \notin cancelled
    /\ sender' = "woken"
    /\ UNCHANGED <<list, sendMutex, holdoffMutex, callers, xqueue, receiver, line,
                   history>>

\* mutant: the tail of an emptied list stays
SenderPopsLeavingTail ==
    /\ sender = "testing"
    /\ head # Null
    /\ xqueue' = head
    /\ head' = next[head]
    /\ sendMutex' = Free
    /\ sender' = "popped"
    /\ UNCHANGED <<tail, next, holdoffMutex, callers, receiver, line, history>>

SenderPops ==
    /\ sender = "testing"
    /\ head # Null
    /\ xqueue' = head
    /\ head' = next[head]
    /\ tail' = IF next[head] = Null THEN Null ELSE tail
    /\ sendMutex' = Free
    /\ sender' = "popped"
    /\ UNCHANGED <<next, holdoffMutex, callers, receiver, line, history>>

\* mutant: the sender does not wait for the mutex
SenderBargesIn ==
    /\ sender = "popped" /\ "sender" \notin cancelled
    /\ holdoffMutex' = "sender"
    /\ sender' = "sending"
    /\ UNCHANGED <<list, sendMutex, callers, xqueue, receiver, line, history>>

SenderHolds ==
    /\ sender = "popped" /\ "sender" \notin cancelled
    /\ holdoffMutex = Free
    /\ holdoffMutex' = "sender"
    /\ sender' = "sending"
    /\ UNCHANGED <<list, sendMutex, callers, xqueue, receiver, line, history>>

\* mutant: the mutex stays locked
SentAndHeld ==
    /\ sender = "sending"
    /\ sent' = Append(sent, xqueue)
    /\ UNCHANGED holdoffMutex
    /\ xqueue' = Null
    /\ sender' = "start"
    /\ UNCHANGED <<list, sendMutex, callers, receiver, line, accepted, cancelled>>

\* send_packet returns, the mutex is unlocked and the node is freed
Sent ==
    /\ sender = "sending"
    /\ sent' = Append(sent, xqueue)
    /\ holdoffMutex' = Free
    /\ xqueue' = Null
    /\ sender' = "start"
    /\ UNCHANGED <<list, sendMutex, callers, receiver, line, accepted, cancelled>>

-----------------------------------------------------------------------------
\* wait_packet reads one symbol; receiver is in it before and after locking
ReadSymbol ==
    /\ receiver \in {"wait", "holdoff"} /\ "receiver" \notin cancelled
    /\ input # <<>>
    /\ input' = Tail(input)
    /\ receiver' = IF Head(input) # "Start" THEN receiver
                   ELSE IF receiver = "wait" THEN "started" ELSE "receive"
    /\ UNCHANGED <<list, sendMutex, holdoffMutex, callers, sender, xqueue, frames, open,
                   history>>

ReceiverHolds ==
    /\ receiver = "started" /\ "receiver" \notin cancelled
    /\ holdoffMutex = Free
    /\ holdoffMutex' = "receiver"
    /\ receiver' = "receive"
    /\ UNCHANGED <<list, sendMutex, callers, sender, xqueue, line, history>>

(***************************************************************************)
(* recv_packet reads what has come, drops whatever follows an End symbol   *)
(* that came with it, and returns; without an End it reads on.             *)
(***************************************************************************)
ReadFrame ==
    /\ receiver = "receive" /\ "receiver" \notin cancelled
    /\ \E k \in 1 .. Len(input) :
          /\ input' = SubSeq(input, k + 1, Len(input))
          /\ receiver' = IF \E j \in 1 .. k : input[j] = "End" THEN "holdoff" ELSE receiver
    /\ UNCHANGED <<list, sendMutex, holdoffMutex, callers, sender, xqueue, frames, open,
                   history>>

\* recv_packet gives up on a frame that breaks off
FrameTimeout ==
    /\ receiver = "receive" /\ "receiver" \notin cancelled
    /\ input = <<>>
    /\ receiver' = "holdoff"
    /\ UNCHANGED <<list, sendMutex, holdoffMutex, callers, sender, xqueue, line,
                   history>>

\* nothing has started for as long as the random holdoff
HoldoffEnds ==
    /\ receiver = "holdoff"
    /\ input = <<>>
    /\ holdoffMutex' = Free
    /\ receiver' = "wait"
    /\ UNCHANGED <<list, sendMutex, callers, sender, xqueue, line, history>>

\* another station begins a frame; one it had not ended is broken off
HearStart ==
    /\ frames < MaxFrames
    /\ input' = Append(input, "Start")
    /\ frames' = frames + 1
    /\ open' = TRUE
    /\ UNCHANGED <<list, sendMutex, holdoffMutex, callers, sender, xqueue, receiver,
                   history>>

HearEnd ==
    /\ open
    /\ input' = Append(input, "End")
    /\ open' = FALSE
    /\ UNCHANGED <<list, sendMutex, holdoffMutex, callers, sender, xqueue, receiver,
                   frames, history>>

-----------------------------------------------------------------------------
\* mutant: the same thread is cancelled twice
StopSenderOnly ==
    /\ cancelled = {}
    /\ \A c \in Caller : caller[c] = "idle"
    /\ cancelled' = {"sender"}
    /\ UNCHANGED <<list, sendMutex, holdoffMutex, callers, sender, xqueue, receiver,
                   line, accepted, sent>>

(***************************************************************************)
(* queue_stop, when nobody calls the queue any more (use_queue.c:46).  The *)
(* threads are not joined.  Each ends where it waits next: for a symbol to *)
(* read or to write, or for the condition variable; a mutex is not such a  *)
(* place.  Nobody unlocks what it held.                                    *)
(***************************************************************************)
Stop ==
    /\ cancelled = {}
    /\ \A c \in Caller : caller[c] = "idle"
    /\ cancelled' = {"sender", "receiver"}
    /\ UNCHANGED <<list, sendMutex, holdoffMutex, callers, sender, xqueue, receiver,
                   line, accepted, sent>>

\* in pthread_cond_wait, which locks the mutex again, or while it writes
SenderEnds ==
    /\ "sender" \in cancelled
    /\ \/ sender = "waiting" /\ sendMutex = Free /\ sendMutex' = "sender"
       \/ sender = "testing" /\ head = Null /\ UNCHANGED sendMutex
       \/ sender = "sending" /\ UNCHANGED sendMutex
    /\ sender' = "ended"
    /\ UNCHANGED <<list, holdoffMutex, callers, xqueue, receiver, line, history>>

\* before it writes anything; the mutex, when free, may have been destroyed
SenderEndsUnsent ==
    /\ "sender" \in cancelled
    /\ sender = "popped" /\ holdoffMutex = Free
    /\ sender' = "ended"
    /\ holdoffMutex' \in {"sender", Free}
    /\ UNCHANGED <<list, sendMutex, callers, xqueue, receiver, line, history>>

\* in a poll
ReceiverEnds ==
    /\ "receiver" \in cancelled
    /\ receiver \in {"wait", "receive", "holdoff"}
    /\ receiver' = "ended"
    /\ UNCHANGED <<list, sendMutex, holdoffMutex, callers, sender, xqueue, line, history>>

\* in the first poll of recv_packet
ReceiverEndsUnread ==
    /\ "receiver" \in cancelled
    /\ receiver = "started" /\ holdoffMutex = Free
    /\ receiver' = "ended"
    /\ holdoffMutex' \in {"receiver", Free}
    /\ UNCHANGED <<list, sendMutex, callers, sender, xqueue, line, history>>

\* main has returned from queue_stop, and the program ends
Returned == cancelled # {} /\ UNCHANGED vars

-----------------------------------------------------------------------------
CallerNext(c) == CallerLocks(c) \/ AddFirst(c) \/ AddNext(c) \/ CallerUnlocks(c)

SenderNext ==
    SenderWaits \/ SenderPops \/ SenderHolds \/ Sent \/ SenderEnds \/ SenderEndsUnsent

ReceiverNext ==
    \/ ReadSymbol \/ ReceiverHolds \/ ReadFrame \/ FrameTimeout \/ HoldoffEnds
    \/ ReceiverEnds \/ ReceiverEndsUnread

Next ==
    \/ \E c \in Caller : GetSize(c) \/ CallerNext(c) \/ \E p \in Packet : Send(c, p)
    \/ SenderLocks \/ SpuriousWakeup \/ SenderNext
    \/ ReceiverNext
    \/ HearStart \/ HearEnd
    \/ Stop \/ Returned

Spec == Init /\ [][Next]_vars

(***************************************************************************)
(* The threads run.  Callers sleep between their calls (use_queue.c:37),   *)
(* so the list's mutex is not kept from the sender for ever.  The other    *)
(* mutex needs no more than that a thread takes one that stays free: the   *)
(* properties speak of the time when the other thread has come to rest.    *)
(***************************************************************************)
Fairness ==
    /\ \A c \in Caller : SF_vars(CallerLocks(c)) /\ WF_vars(CallerNext(c))
    /\ SF_vars(SenderLocks) /\ WF_vars(SenderNext)
    /\ WF_vars(ReceiverNext)

FairSpec == Spec /\ Fairness

-----------------------------------------------------------------------------
(* The values of the variables.                                            *)
TypeOK ==
    /\ {head, tail, xqueue} \subseteq Packet \union {Null}
    /\ next \in [Packet -> Packet \union {Null}]
    /\ sendMutex \in Caller \union {"sender", Free}
    /\ holdoffMutex \in {"sender", "receiver", Free}
    /\ caller \in [Caller -> {"idle", "sending", "adding", "added", "sizing", "counting"}]
    /\ item \in [Caller -> Packet \union {Null}]
    /\ \A c \in Caller : caller[c] \in {"sending", "adding"} => item[c] \in Packet
    /\ sender \in {"start", "testing", "waiting", "woken", "popped", "sending", "ended"}
    /\ receiver \in {"wait", "started", "receive", "holdoff", "ended"}
    /\ cancelled \subseteq {"sender", "receiver"}

(***************************************************************************)
(* A mutex is held by the one thread that is in its critical section, and  *)
(* by no other, unless queue_stop has ended the thread there.              *)
(***************************************************************************)
Locks ==
    /\ \A c \in Caller :
          sendMutex = c <=> caller[c] \in {"adding", "added", "counting"}
    /\ sender # "ended" =>
          /\ sendMutex = "sender" <=> sender = "testing"
          /\ holdoffMutex = "sender" <=> sender = "sending"
    /\ receiver # "ended" =>
          (holdoffMutex = "receiver" <=> receiver \in {"receive", "holdoff"})

InHand == IF xqueue = Null THEN <<>> ELSE <<xqueue>>
Taken == sent \o InHand

(***************************************************************************)
(* Nothing is lost, sent twice or overtaken, whatever the interleaving:    *)
(* the packets put in the list are, in order, those that were sent, the    *)
(* one the sender has taken, and those the links lead to from the head to  *)
(* the tail (queue.c:73-95, 122-151).                                      *)
(***************************************************************************)
InOrder ==
    LET m == Len(Taken)
        k == Len(accepted)
    IN  /\ m <= k /\ \A j \in 1 .. m : Taken[j] = accepted[j]
        /\ IF m = k THEN head = Null /\ tail = Null
           ELSE /\ head = accepted[m + 1]
                /\ \A j \in m + 1 .. k - 1 : next[accepted[j]] = accepted[j + 1]
                /\ tail = accepted[k] /\ next[tail] = Null

(***************************************************************************)
(* The sender never sleeps on a list that is not empty, though only the    *)
(* packet that ends an empty list is signalled (queue.c:85-94, 130-132).   *)
(***************************************************************************)
NoLostWakeup == sender = "waiting" => head = Null

\* the two ends of the list agree on whether it is empty
EndsAgree == head = Null <=> tail = Null

(* What makes NoLostWakeup and RadioExclusion inductive.                   *)
IInv == TypeOK /\ Locks /\ EndsAgree /\ NoLostWakeup

(***************************************************************************)
(* What makes InOrder inductive: no packet is put in the list twice, a     *)
(* packet on its way there has no link and no other caller, and the sender *)
(* has one in hand from taking it to sending it.                           *)
(***************************************************************************)
OnTheWay(c) == caller[c] \in {"sending", "adding"}

Fresh ==
    /\ {accepted, sent} \subseteq Seq(Packet)
    /\ \A j, k \in DOMAIN accepted : accepted[j] = accepted[k] => j = k
    /\ \A c \in Caller : OnTheWay(c) =>
          /\ item[c] \notin Range(accepted) /\ next[item[c]] = Null
          /\ \A d \in Caller : item[d] = item[c] => d = c
    /\ sender \in {"start", "testing", "waiting", "woken"} => xqueue = Null
    /\ sender \in {"popped", "sending"} => xqueue # Null

(***************************************************************************)
(* The two threads are never both at the radio: from its first packet to   *)
(* the end of the holdoff the receiver keeps the sender out                *)
(* (queue.c:140-145, 163-170).                                             *)
(***************************************************************************)
RadioExclusion == ~(sender = "sending" /\ receiver \in {"receive", "holdoff"})

(* Every packet handed to queue_send_packet is given to send_packet in the *)
(* end, when the other stations fall silent and queue_stop is not called.  *)
AllSent ==
    \A p \in Packet : p \in Range(item) ~> (p \in Range(sent) \/ cancelled # {})

(***************************************************************************)
(* When the start of a frame was read, and the sender comes to rest, the   *)
(* receiver gets the mutex and goes on to read the frame (queue.c:162-166).*)
(* While packets keep coming nothing promises it the mutex, and what the   *)
(* sender sends in between may spoil the frame (SendsOnlyInSilence).       *)
(***************************************************************************)
HeardIsRead ==
    <>[](sender # "sending") =>
        (receiver = "started" ~> (receiver = "receive" \/ cancelled # {}))

\* thread t has ended, or waits for a mutex that the other ended with
Gone(t, location, place) ==
    \/ location = "ended"
    \/ location = place /\ holdoffMutex \in {"sender", "receiver"} \ {t}

(***************************************************************************)
(* After queue_stop no thread stays at work: each ends, or is left waiting *)
(* for the mutex with which the other has ended (queue.c:190-197).         *)
(***************************************************************************)
StopEndsBoth ==
    cancelled # {} ~> /\ Gone("sender", sender, "popped")
                      /\ Gone("receiver", receiver, "started")
                      /\ sender = "ended" \/ receiver = "ended"

(***************************************************************************)
(* "This mutex is used to prevent the send thread trying to send while the *)
(* recv thread is receiving" (queue.c:25-26): the sender begins to send    *)
(* only while the receiver waits for a frame to start.                     *)
(***************************************************************************)
SendsOnlyInSilence ==
    [][sender' = "sending" /\ sender # "sending" => receiver = "wait"]_vars
=============================================================================
