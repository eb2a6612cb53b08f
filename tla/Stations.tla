------------------------------ MODULE Stations ------------------------------
(***************************************************************************)
(* The programs of radio/serial that share one radio channel, and how each *)
(* waits for its turn:                                                     *)
(*   - chatter.c, topofind.c and virtloc.c, one loop that listens for a    *)
(*     time-out, puts it off when it hears a packet late, and sends;       *)
(*   - tchatter.c and tvirtloc.c (mvirtloc.c has the same threads), where  *)
(*     a reader holds collision_mutex from the first packet it hears until *)
(*     nothing starts for a random time, and a writer sends under it.      *)
(*                                                                         *)
(* Each program has times of its own.  What the packets say is left out    *)
(* (module Beacons has the tables), and so is the end of a program.  Time  *)
(* passes in ticks, when nobody has anything left to do at the moment.     *)
(* Only collisions damage a frame.                                         *)
(***************************************************************************)
EXTENDS Integers, FiniteSets, FiniteSetsExt

CONSTANTS
    Station,     \* the programs that run
    Threaded,    \* those with a reader and a writer
    Chatter,     \* those that run chatter.c
    Hears,       \* <<s, h>>: h can hear s
    Timeout,     \* of each program: TIMEOUT, and what its writer sleeps
    HoldoffMin,  \* of each program: HOLDOFFMIN
    HoldoffMax,  \* of each program: HOLDOFFMAX
    Airtime,     \* how long the frames of each are on the air
    RecvTimeout, \* what recv_packet waits for another symbol
    None, Noise  \* no frame; a frame nobody can decode

ASSUME StationAssumption ==
    /\ IsFiniteSet(Station) /\ Station # {}
    /\ Threaded \subseteq Station /\ Chatter \subseteq Station \ Threaded
    /\ Hears \subseteq Station \X Station /\ \A s \in Station : <<s, s>> \notin Hears
    /\ None # Noise /\ {None, Noise} \cap Station = {}
ASSUME TimeAssumption ==
    /\ {Timeout, HoldoffMin, HoldoffMax, Airtime} \subseteq [Station -> Nat \ {0}]
    /\ RecvTimeout \in Nat \ {0}
    /\ \A s \in Station : /\ HoldoffMin[s] < HoldoffMax[s]
                          /\ RecvTimeout + HoldoffMax[s] <= Timeout[s]
\* a station's frame is over before its next is due, and a writer's before that
\* by as much as any other frame takes
ASSUME FrameAssumption ==
    /\ \A s \in Station : Airtime[s] < Timeout[s]
    /\ \A s \in Threaded, t \in Station : Airtime[s] + Airtime[t] <= Timeout[s]

VARIABLES
    reader, \* where the station is in reading the line
    writer, \* where it is in sending
    asked,  \* the time-out of the wait_packet or recv_packet that runs
    left,   \* what is left of it: poll starts again with each symbol
    since,  \* the time since the station last sent, as far as TIMEOUT is over
    silent, \* the time since it last sent or heard anything
    air,    \* what is left of the frame it is sending
    from,   \* whose frame the reader is in
    quiet,  \* the time since it last received a packet, up to HoldoffMin
    jammed  \* whether frames it could hear collided since it last sent

line == <<asked, left>>
vars == <<reader, writer, line, since, silent, air, from, quiet, jammed>>

Holdoff(s) == HoldoffMin[s] .. HoldoffMax[s] - 1

\* who is sending near h; h hears nothing while it sends itself
OnAir(h) == {s \in Station : <<s, h>> \in Hears /\ air[s] > 0}
Audible(h) == IF air[h] = 0 THEN OnAir(h) ELSE {}

\* the reader's part of collision_mutex
ReaderHolds(h) == reader[h] \in {"receive", "holdoff"}

Init ==
    /\ reader = [s \in Station |-> "wait"]
    /\ writer = [s \in Station |-> IF s \in Threaded THEN "prepared" ELSE "sleep"]
    /\ asked = [s \in Station |-> IF s \in Threaded THEN 0 ELSE Timeout[s]]
    /\ left = asked
    /\ since = [s \in Station |-> 0]
    /\ silent = [s \in Station |-> 0]
    /\ air = [s \in Station |-> 0]
    /\ from = [s \in Station |-> None]
    /\ quiet = HoldoffMin
    /\ jammed = [s \in Station |-> FALSE]

-----------------------------------------------------------------------------
\* a frame of s would collide with another near h
Spoils(s, h) == <<s, h>> \in Hears /\ OnAir(h) # {}

(***************************************************************************)
(* send_packet begins: the station hears nothing while it sends, and its   *)
(* frame spoils the one that any of its hearers is in.                     *)
(***************************************************************************)
Begin(s) ==
    /\ air' = [air EXCEPT ![s] = Airtime[s]]
    /\ from' = [h \in Station |->
                  IF from[h] # None /\ (h = s \/ Spoils(s, h)) THEN Noise ELSE from[h]]
    /\ writer' = [writer EXCEPT ![s] = "send"]
    /\ since' = [since EXCEPT ![s] = 0]
    /\ silent' = [silent EXCEPT ![s] = 0]
    /\ jammed' = [h \in Station |->
                    h # s /\ (jammed[h] \/ Spoils(s, h))]
    /\ UNCHANGED <<reader, line, quiet>>

\* the inner loop ends: no packet was heard for as long as was left
LoopSends(s) ==
    /\ s \notin Threaded
    /\ reader[s] = "wait" /\ left[s] = 0 /\ writer[s] = "sleep"
    /\ Begin(s)

\* the writer has slept, and prepares a packet
Prepare(s) ==
    /\ s \in Threaded
    /\ writer[s] = "sleep" /\ since[s] >= Timeout[s]
    /\ writer' = [writer EXCEPT ![s] = "prepared"]
    /\ UNCHANGED <<reader, line, since, silent, air, from, quiet, jammed>>

\* mutant: the writer does not lock collision_mutex
WriterBargesIn(s) ==
    /\ s \in Threaded
    /\ writer[s] = "prepared"
    /\ Begin(s)

WriterSends(s) ==
    /\ s \in Threaded
    /\ writer[s] = "prepared" /\ ~ReaderHolds(s)
    /\ Begin(s)

\* send_packet returns, once the last symbols are written; a loop listens again
Sent(s) ==
    /\ writer[s] = "send"
    /\ writer' = [writer EXCEPT ![s] = "sleep"]
    /\ asked' = [asked EXCEPT ![s] = IF s \in Threaded THEN @ ELSE Timeout[s]]
    /\ left' = [left EXCEPT ![s] = IF s \in Threaded THEN @ ELSE Timeout[s]]
    /\ UNCHANGED <<reader, since, silent, air, from, quiet, jammed>>

-----------------------------------------------------------------------------
Listening(h) ==
    /\ air[h] = 0 /\ writer[h] # "send"
    /\ \/ reader[h] = "wait" /\ (h \in Threaded \/ left[h] > 0)
       \/ reader[h] = "holdoff" /\ left[h] > 0

Starting(h) == {s \in Audible(h) : air[s] = Airtime[s]}

\* wait_packet reads the start of a frame; of several at once it may not
Hear(h) ==
    /\ Listening(h)
    /\ Starting(h) # {}
    /\ from' = [from EXCEPT ![h] = IF Cardinality(Audible(h)) = 1
                                     THEN CHOOSE s \in Starting(h) : TRUE ELSE Noise]
    /\ reader' = [reader EXCEPT ![h] = IF h \in Threaded /\ @ = "wait" THEN "started"
                                       ELSE "receive"]
    /\ asked' = [asked EXCEPT ![h] = IF h \in Chatter THEN @ ELSE RecvTimeout]
    /\ left' = [left EXCEPT ![h] = asked'[h]]
    /\ UNCHANGED <<writer, since, silent, air, quiet, jammed>>

\* the reader locks collision_mutex
ReaderLocks(h) ==
    /\ reader[h] = "started" /\ writer[h] # "send"
    /\ reader' = [reader EXCEPT ![h] = "receive"]
    /\ UNCHANGED <<writer, line, since, silent, air, from, quiet, jammed>>

(***************************************************************************)
(* How recv_packet can end: with a packet when the frame ends; anywhere in *)
(* what nobody can decode, with a packet of nonsense or none; with none    *)
(* when the line has been silent.                                          *)
(***************************************************************************)
Outcomes(h) ==
    IF left[h] = 0 THEN {"none"}
    ELSE IF from[h] = Noise THEN IF left[h] = asked[h] THEN {"none", "nonsense"} ELSE {}
    ELSE IF air[from[h]] = 0 THEN {"packet"} ELSE {}

\* mutant: no holdoff
WaitsNoHoldoff(h, outcome) == {Max({Timeout[h] - since[h], 0})}

\* how long the inner loop listens after recv_packet
Waits(h, outcome) ==
    LET timeout == Timeout[h] - since[h]
    IN  IF outcome # "none" /\ timeout < HoldoffMax[h]
          THEN {Max({timeout, holdoff}) : holdoff \in Holdoff(h)}
          ELSE {Max({timeout, 0})}

\* recv_packet returns, and the next wait_packet begins
Receive(h) ==
    /\ reader[h] = "receive"
    /\ \E outcome \in Outcomes(h) :
          /\ \E wait \in IF h \in Threaded THEN Holdoff(h) ELSE Waits(h, outcome) :
                /\ asked' = [asked EXCEPT ![h] = wait]
                /\ left' = [left EXCEPT ![h] = wait]
          /\ quiet' = [quiet EXCEPT ![h] = IF outcome = "none" /\ h \notin Threaded
                                              THEN HoldoffMin[h] ELSE 0]
    /\ reader' = [reader EXCEPT ![h] = IF h \in Threaded THEN "holdoff" ELSE "wait"]
    /\ from' = [from EXCEPT ![h] = None]
    /\ UNCHANGED <<writer, since, silent, air, jammed>>

\* mutant: the reader goes on receiving when nothing has started in its holdoff
HoldoffGoesOn(h) ==
    /\ reader[h] = "holdoff" /\ left[h] = 0
    /\ reader' = [reader EXCEPT ![h] = "receive"]
    /\ UNCHANGED <<writer, line, since, silent, air, from, quiet, jammed>>

\* the reader unlocks collision_mutex
HoldoffEnds(h) ==
    /\ reader[h] = "holdoff" /\ left[h] = 0
    /\ reader' = [reader EXCEPT ![h] = "wait"]
    /\ asked' = [asked EXCEPT ![h] = 0]
    /\ UNCHANGED <<writer, left, since, silent, air, from, quiet, jammed>>

-----------------------------------------------------------------------------
\* s has something to do before time passes
Busy(s) ==
    \/ writer[s] = "send" /\ air[s] = 0
    \/ s \notin Threaded /\ reader[s] = "wait" /\ left[s] = 0 /\ writer[s] = "sleep"
    \/ s \in Threaded /\ writer[s] = "sleep" /\ since[s] >= Timeout[s]
    \/ writer[s] = "prepared" /\ ~ReaderHolds(s)
    \/ Listening(s) /\ Cardinality(Audible(s)) = 1 /\ Starting(s) # {}
    \/ reader[s] = "started" /\ writer[s] # "send"
    \/ reader[s] = "receive" /\ (Outcomes(s) = {"packet"} \/ left[s] = 0)
    \/ reader[s] = "holdoff" /\ left[s] = 0

Tick ==
    /\ \A s \in Station : ~Busy(s)
    /\ left' = [s \in Station |->
                  IF Audible(s) # {} THEN asked[s] ELSE Max({left[s] - 1, 0})]
    /\ since' = [s \in Station |->
                  IF writer[s] = "send" THEN 0 ELSE Min({since[s] + 1, Timeout[s] + 1})]
    /\ silent' = [s \in Station |->
                    IF air[s] > 0 \/ Audible(s) # {} THEN 0
                    ELSE Min({silent[s] + 1, Timeout[s] + 1})]
    /\ air' = [s \in Station |-> Max({air[s] - 1, 0})]
    /\ quiet' = [s \in Station |-> Min({quiet[s] + 1, HoldoffMin[s]})]
    /\ UNCHANGED <<reader, writer, asked, from, jammed>>

Next ==
    \/ \E s \in Station : LoopSends(s) \/ Prepare(s) \/ WriterSends(s) \/ Sent(s)
    \/ \E h \in Station : Hear(h) \/ ReaderLocks(h) \/ Receive(h) \/ HoldoffEnds(h)
    \/ Tick

Spec == Init /\ [][Next]_vars

-----------------------------------------------------------------------------
(***************************************************************************)
(* Only what it hears keeps a station from sending.  Put off by packets    *)
(* heard late (virtloc.c:80-83), or by a reader that holds the mutex for   *)
(* one holdoff after another (tvirtloc.c:58-75), it may be overdue for     *)
(* ever; but then it has heard something not long ago: within a time-out   *)
(* of recv_packet and a holdoff, or, as a loop's poll may start its wait   *)
(* again for a symbol in the middle of a frame, within TIMEOUT.            *)
(***************************************************************************)
SpeaksUp ==
    \A s \in Station :
        since[s] > Timeout[s] =>
            silent[s] < IF s \in Threaded THEN RecvTimeout + HoldoffMax[s] ELSE Timeout[s] + 1

Begins(s) == air[s] = 0 /\ air'[s] > 0

(***************************************************************************)
(* The primitive CSMA of chatter.c and tchatter.c (line 3 of each), as far *)
(* as it goes.  While nothing has collided around it since it last sent, a *)
(* station begins to send during the frame of another only in the instant  *)
(* in which that frame begins: before it has read the start, or, with      *)
(* threads, also after the reader has read it and before it has locked     *)
(* collision_mutex (tvirtloc.c:58-59).  That race is not excluded; that it *)
(* is over within a tick of the start is what Tick takes the scheduler to  *)
(* do.  Once a loop has read the start, or a reader has locked the mutex,  *)
(* the station keeps quiet until the frame is over.                        *)
(***************************************************************************)
CarrierSensed ==
    [][\A s \in Station : Begins(s) /\ ~jammed[s] =>
          \A t \in OnAir(s) :
              /\ air[t] = Airtime[t]
              /\ from[s] # None => s \in Threaded /\ reader[s] = "started"]_vars

(***************************************************************************)
(* After the last packet it received a station lets at least HOLDOFFMIN    *)
(* pass before it sends, or a loop forgot it over a frame that came to     *)
(* nothing: its n = 0 undoes the holdoff (virtloc.c:80, 83).               *)
(***************************************************************************)
GapKept == [][\A s \in Station : Begins(s) => quiet[s] >= HoldoffMin[s]]_vars

-----------------------------------------------------------------------------
\* the values of the variables that GapKept and SpeaksUp are about
TypeOK ==
    /\ reader \in [Station -> {"wait", "started", "receive", "holdoff"}]
    /\ writer \in [Station -> {"sleep", "prepared", "send"}]
    /\ {asked, left, since, silent, air, quiet} \subseteq [Station -> Nat]

\* enough is left of the wait, even when a symbol makes poll start again
KeepsGap(s) ==
    \/ quiet[s] >= HoldoffMin[s]
    \/ reader[s] = "receive"
    \/ /\ reader[s] = IF s \in Threaded THEN "holdoff" ELSE "wait"
       /\ asked[s] >= HoldoffMin[s] /\ left[s] + quiet[s] >= HoldoffMin[s]

(***************************************************************************)
(* What makes GapKept inductive: until the gap has passed a station is     *)
(* receiving or in a wait that lasts as long, and a loop that sends does   *)
(* not read, so that its next wait need not be longer than TIMEOUT.        *)
(***************************************************************************)
IInv ==
    /\ TypeOK
    /\ \A s \in Station :
          /\ KeepsGap(s)
          /\ s \notin Threaded /\ writer[s] = "send"
                => reader[s] = "wait" /\ quiet[s] >= HoldoffMin[s]

-----------------------------------------------------------------------------
\* the values of the others
FramesOK ==
    /\ from \in [Station -> Station \union {None, Noise}]
    /\ jammed \in [Station -> BOOLEAN]
    /\ \A s \in Station : /\ air[s] <= Airtime[s] /\ left[s] <= asked[s]
                          /\ from[s] \in Station => <<from[s], s>> \in Hears
                          /\ reader[s] \in {"wait", "holdoff"} <=> from[s] = None

\* a loop has one thread, and damaged frames are all it knows of a collision
OneThread(s) ==
    s \notin Threaded =>
        /\ reader[s] \in {"wait", "receive"} /\ writer[s] # "prepared"
        /\ from[s] = Noise => jammed[s]

\* while its own frame is on the air a station has only begun to wait
OwnFrame(s) ==
    air[s] > 0 =>
        /\ since[s] + air[s] <= Airtime[s]
        /\ IF s \in Threaded THEN writer[s] # "prepared"
           ELSE \/ writer[s] = "send"
                \/ reader[s] = "wait" /\ left[s] + Airtime[s] >= Timeout[s] + air[s]

\* t is on the air near h, and time has passed since it began
UnderWay(h) == {t \in OnAir(h) : air[t] < Airtime[t]}

\* of two frames at once the one or the other spoils h's, or both were under
\* way when h began to send itself
Alone(h) ==
    \A t, u \in OnAir(h) :
        t = u \/ jammed[h] \/ air[h] = Airtime[h] \/ {t, u} \subseteq UnderWay(h)

(***************************************************************************)
(* h does not send into the frame of t: its reader is in it, or waits for  *)
(* as long as it hears it, or h has sent itself when the frame began, and  *)
(* that is not long ago.                                                   *)
(***************************************************************************)
KeptFrom(h, t) ==
    IF h \in Threaded
      THEN \/ /\ ReaderHolds(h) /\ left[h] > 0
              /\ reader[h] = "receive" => from[h] \in {t, Noise}
           \/ writer[h] # "prepared" /\ since[h] + air[t] < Airtime[h] + Airtime[t]
      ELSE \/ writer[h] = "send"
           \/ left[h] > 0 /\ (reader[h] = "receive" => from[h] = t)

(***************************************************************************)
(* What makes CarrierSensed inductive.                                     *)
(***************************************************************************)
Senses(h) ==
    /\ OneThread(h) /\ OwnFrame(h) /\ Alone(h)
    /\ air[h] = 0 /\ ~jammed[h] => \A t \in UnderWay(h) : KeptFrom(h, t)

SInv == IInv /\ FramesOK /\ \A h \in Station : Senses(h)

-----------------------------------------------------------------------------
\* a frame near s has begun, and no time has passed since: s is going to hear it
Fresh(s) == \E t \in OnAir(s) : air[t] = Airtime[t]

\* the longest that a wait of s may last
Limits(s) ==
    IF s \in Threaded
      THEN /\ reader[s] \in {"started", "receive"} => asked[s] = RecvTimeout
           /\ reader[s] = "holdoff" => asked[s] < HoldoffMax[s]
      ELSE asked[s] <= Timeout[s] /\ (reader[s] = "receive" => asked[s] > 0)

\* what is left of a wait ends soon enough after the last that s has heard
Waiting(s) ==
    IF s \in Threaded
      THEN /\ reader[s] \in {"started", "receive"} => silent[s] + left[s] <= RecvTimeout
           /\ reader[s] = "holdoff" => silent[s] + left[s] < RecvTimeout + HoldoffMax[s]
      ELSE writer[s] = "sleep" => silent[s] + left[s] <= Timeout[s]

(***************************************************************************)
(* What makes SpeaksUp inductive: unless a frame begins at this instant,   *)
(* every wait ends in time, and no silence has passed when a poll that has *)
(* just begun finds nonsense, nor while a loop is in somebody's frame.     *)
(***************************************************************************)
Patient(s) ==
    /\ silent[s] <= since[s]
    /\ writer[s] = "send" => silent[s] = 0
    /\ Limits(s)
    /\ \/ Fresh(s)
       \/ /\ Waiting(s)
          /\ s \notin Threaded =>
                /\ reader[s] = "receive" /\ left[s] = asked[s] => silent[s] = 0
                /\ from[s] \in Station => silent[s] = 0

PInv == SInv /\ SpeaksUp /\ \A s \in Station : Patient(s)
=============================================================================
