--------------------------- MODULE StationsProofs ---------------------------
(***************************************************************************)
(* Proofs about Stations: with any stations, links and times, a station    *)
(* keeps its distance after a packet, whatever it hears in between; does   *)
(* not send into a frame once it has taken notice of its start; and is put *)
(* off by nothing but what it hears.                                       *)
(***************************************************************************)
EXTENDS Stations, FiniteSetTheorems, TLAPS

(* The times of the programs, and what a random holdoff is at least.       *)
LEMMA Times ==
    ASSUME NEW s \in Station
    PROVE  /\ Timeout[s] \in Nat /\ Timeout[s] > 0 /\ Airtime[s] \in Nat /\ Airtime[s] > 0
           /\ HoldoffMin[s] \in Nat /\ HoldoffMin[s] > 0 /\ HoldoffMax[s] \in Nat
           /\ RecvTimeout \in Nat /\ RecvTimeout > 0
           /\ HoldoffMin[s] < HoldoffMax[s] /\ RecvTimeout + HoldoffMax[s] <= Timeout[s]
           /\ \A h \in Holdoff(s) : h \in Nat /\ h >= HoldoffMin[s] /\ h < HoldoffMax[s]
<1>1. /\ {Timeout[s], HoldoffMin[s], HoldoffMax[s], Airtime[s], RecvTimeout} \subseteq Nat \ {0}
      /\ HoldoffMin[s] < HoldoffMax[s] /\ RecvTimeout + HoldoffMax[s] <= Timeout[s]
  BY TimeAssumption
<1>2. QED
  BY <1>1 DEF Holdoff

(* The greater of two numbers.                                             *)
LEMMA MaxOfTwo ==
    ASSUME NEW a \in Int, NEW b \in Int
    PROVE  Max({a, b}) \in {a, b} /\ Max({a, b}) >= a /\ Max({a, b}) >= b
<1>1. \E x \in {a, b} : \A y \in {a, b} : x >= y
  <2>1. CASE a >= b
    BY <2>1
  <2>2. CASE b >= a
    BY <2>2
  <2>3. QED
    BY <2>1, <2>2
<1>2. QED
  BY <1>1 DEF Max

(* The lesser of two numbers.                                              *)
LEMMA MinOfTwo ==
    ASSUME NEW a \in Int, NEW b \in Int
    PROVE  Min({a, b}) \in {a, b} /\ Min({a, b}) <= a /\ Min({a, b}) <= b
<1>1. \E x \in {a, b} : \A y \in {a, b} : x <= y
  <2>1. CASE a >= b
    BY <2>1
  <2>2. CASE b >= a
    BY <2>2
  <2>3. QED
    BY <2>1, <2>2
<1>2. QED
  BY <1>1 DEF Min

(* A clock that runs down to zero.                                         *)
LEMMA RunsDown ==
    ASSUME NEW n \in Nat
    PROVE  Max({n - 1, 0}) \in Nat /\ Max({n - 1, 0}) >= n - 1 /\ Max({n - 1, 0}) <= n
<1>1. n - 1 \in Int /\ 0 \in Int
  OBVIOUS
<1>2. /\ Max({n - 1, 0}) \in {n - 1, 0}
      /\ Max({n - 1, 0}) >= n - 1 /\ Max({n - 1, 0}) >= 0
  BY <1>1, MaxOfTwo, Zenon
<1>3. QED
  BY <1>2

(* A clock that counts up to a bound.                                      *)
LEMMA CountsUp ==
    ASSUME NEW n \in Nat, NEW m \in Nat
    PROVE  Min({n + 1, m}) \in Nat /\ (Min({n + 1, m}) = m \/ Min({n + 1, m}) = n + 1)
<1>1. n + 1 \in Int /\ m \in Int
  OBVIOUS
<1>2. Min({n + 1, m}) \in {n + 1, m}
  BY <1>1, MinOfTwo, Zenon
<1>3. QED
  BY <1>2

(* After a packet a loop waits for no less than the gap.                   *)
LEMMA WaitIsLong ==
    ASSUME TypeOK, NEW h \in Station, NEW outcome, NEW wait \in Waits(h, outcome)
    PROVE  wait \in Nat /\ (outcome # "none" => wait >= HoldoffMin[h])
<1> DEFINE timeout == Timeout[h] - since[h]
<1>1. timeout \in Int
  BY Times DEF TypeOK
<1>2. CASE outcome # "none" /\ timeout < HoldoffMax[h]
  <2>1. PICK holdoff \in Holdoff(h) : wait = Max({timeout, holdoff})
    BY <1>2 DEF Waits
  <2>2. holdoff \in Int /\ holdoff >= HoldoffMin[h] /\ HoldoffMin[h] \in Nat
    BY Times
  <2>3. Max({timeout, holdoff}) \in {timeout, holdoff} /\ Max({timeout, holdoff}) >= holdoff
    BY <1>1, <2>2, MaxOfTwo, Zenon
  <2>4. QED
    BY <1>1, <2>1, <2>2, <2>3
<1>3. CASE ~(outcome # "none" /\ timeout < HoldoffMax[h])
  <2>1. wait = Max({timeout, 0})
    BY <1>3 DEF Waits
  <2>2. /\ Max({timeout, 0}) \in {timeout, 0}
        /\ Max({timeout, 0}) >= timeout /\ Max({timeout, 0}) >= 0
    BY <1>1, MaxOfTwo, 0 \in Int, Zenon
  <2>3. QED
    BY <1>1, <1>3, <2>1, <2>2, Times
<1>4. QED
  BY <1>2, <1>3

(* All start in a wait, the gap taken for passed (Init).                   *)
LEMMA Initially == Init => IInv
<1> SUFFICES ASSUME Init PROVE IInv
  OBVIOUS
<1>1. asked \in [Station -> Nat]
  BY Times DEF Init
<1>2. HoldoffMin \in [Station -> Nat]
  BY TimeAssumption
<1>3. TypeOK
  BY <1>1, <1>2 DEF Init, TypeOK
<1>4. QED
  BY <1>3, Times DEF Init, IInv, KeepsGap

-----------------------------------------------------------------------------
(* A station that may begin to send has kept the gap.                      *)
LEMMA GapHasPassed ==
    ASSUME IInv, NEW s \in Station, LoopSends(s) \/ WriterSends(s)
    PROVE  quiet[s] >= HoldoffMin[s]
<1>1. CASE LoopSends(s)
  BY <1>1, Times DEF LoopSends, IInv, TypeOK, KeepsGap
<1>2. CASE WriterSends(s)
  BY <1>2 DEF WriterSends, ReaderHolds, IInv, TypeOK, KeepsGap
<1>3. QED
  BY <1>1, <1>2

(* A frame begins: only a loop that waits or a writer puts one on the air. *)
LEMMA BeginStep ==
    ASSUME IInv, NEW s \in Station, LoopSends(s) \/ WriterSends(s)
    PROVE  IInv'
<1>1. Begin(s) /\ quiet[s] >= HoldoffMin[s]
  BY GapHasPassed DEF LoopSends, WriterSends
<1>2. TypeOK'
  BY <1>1, Times DEF Begin, line, IInv, TypeOK
<1>3. ASSUME NEW t \in Station PROVE KeepsGap(t)'
  BY <1>1, <1>3 DEF Begin, line, IInv, KeepsGap
<1>4. s \notin Threaded => reader[s] = "wait"
  BY DEF LoopSends, WriterSends
<1>5. ASSUME NEW t \in Station, t \notin Threaded, writer'[t] = "send"
      PROVE  reader'[t] = "wait" /\ quiet'[t] >= HoldoffMin[t]
  BY <1>1, <1>4, <1>5 DEF Begin, line, IInv, TypeOK
<1>6. QED
  BY <1>2, <1>3, <1>5 DEF IInv

(* A writer makes its packet (tvirtloc.c), which touches no clock.         *)
LEMMA PrepareStep ==
    ASSUME IInv, NEW s \in Station, Prepare(s)
    PROVE  IInv'
BY DEF Prepare, line, IInv, TypeOK, KeepsGap

(* A loop that has sent listens for TIMEOUT, the gap long past.            *)
LEMMA SentStep ==
    ASSUME IInv, NEW s \in Station, Sent(s)
    PROVE  IInv'
<1>1. TypeOK'
  BY Times DEF Sent, IInv, TypeOK
<1>2. ASSUME NEW t \in Station PROVE KeepsGap(t)'
  <2>1. CASE t = s /\ s \notin Threaded
    BY <2>1 DEF Sent, IInv, TypeOK, KeepsGap
  <2>2. CASE ~(t = s /\ s \notin Threaded)
    BY <2>2 DEF Sent, IInv, TypeOK, KeepsGap
  <2>3. QED
    BY <2>1, <2>2
<1>3. QED
  BY <1>1, <1>2 DEF Sent, IInv, TypeOK

(* A frame that starts within the gap is received before anything is sent. *)
LEMMA HearStep ==
    ASSUME IInv, NEW h \in Station, Hear(h)
    PROVE  IInv'
<1>1. writer[h] # "send" /\ (reader[h] = "wait" \/ reader[h] = "holdoff")
  BY DEF Hear, Listening
<1>2. TypeOK'
  BY Times DEF Hear, IInv, TypeOK
<1>3. ASSUME NEW t \in Station PROVE KeepsGap(t)'
  <2>1. CASE t # h
    BY <2>1 DEF Hear, IInv, TypeOK, KeepsGap
  <2>2. CASE t = h
    BY <1>1, <2>2 DEF Hear, IInv, TypeOK, KeepsGap
  <2>3. QED
    BY <2>1, <2>2
<1>4. QED
  BY <1>1, <1>2, <1>3 DEF Hear, IInv, TypeOK

(* A reader takes the line after the first symbol of a frame.              *)
LEMMA LockStep ==
    ASSUME IInv, NEW h \in Station, ReaderLocks(h)
    PROVE  IInv'
<1>1. TypeOK'
  BY DEF ReaderLocks, line, IInv, TypeOK
<1>2. ASSUME NEW t \in Station PROVE KeepsGap(t)'
  BY DEF ReaderLocks, line, IInv, TypeOK, KeepsGap
<1>3. QED
  BY <1>1, <1>2 DEF ReaderLocks, line, IInv, TypeOK

(* A packet received begins a wait that is as long as the gap.             *)
LEMMA ReceiveStep ==
    ASSUME IInv, NEW h \in Station, Receive(h)
    PROVE  IInv'
<1>1. PICK outcome \in Outcomes(h) :
          /\ \E wait \in IF h \in Threaded THEN Holdoff(h) ELSE Waits(h, outcome) :
                /\ asked' = [asked EXCEPT ![h] = wait]
                /\ left' = [left EXCEPT ![h] = wait]
          /\ quiet' = [quiet EXCEPT ![h] = IF outcome = "none" /\ h \notin Threaded
                                              THEN HoldoffMin[h] ELSE 0]
  BY DEF Receive
<1>2. PICK wait \in IF h \in Threaded THEN Holdoff(h) ELSE Waits(h, outcome) :
          /\ asked' = [asked EXCEPT ![h] = wait]
          /\ left' = [left EXCEPT ![h] = wait]
  BY <1>1
<1>3. wait \in Nat /\ (outcome # "none" \/ h \in Threaded => wait >= HoldoffMin[h])
  BY <1>2, Times, WaitIsLong DEF IInv
<1>4. TypeOK'
  BY <1>1, <1>2, <1>3, Times DEF Receive, IInv, TypeOK
<1>5. ASSUME NEW t \in Station PROVE KeepsGap(t)'
  <2>1. CASE t # h
    BY <1>1, <1>2, <2>1 DEF Receive, IInv, TypeOK, KeepsGap
  <2>2. CASE t = h
    BY <1>1, <1>2, <1>3, <2>2, Times DEF Receive, IInv, TypeOK, KeepsGap
  <2>3. QED
    BY <2>1, <2>2
<1>6. ASSUME NEW t \in Station, t \notin Threaded, writer'[t] = "send"
      PROVE  reader'[t] = "wait" /\ quiet'[t] >= HoldoffMin[t]
  BY <1>1, <1>6 DEF Receive, IInv, TypeOK
<1>7. QED
  BY <1>4, <1>5, <1>6 DEF IInv

(* A reader leaves its holdoff when all of it has passed.                  *)
LEMMA HoldoffEndsStep ==
    ASSUME IInv, NEW h \in Station, HoldoffEnds(h)
    PROVE  IInv'
<1>1. TypeOK'
  BY DEF HoldoffEnds, IInv, TypeOK
<1>2. quiet[h] >= HoldoffMin[h]
  BY Times DEF HoldoffEnds, IInv, TypeOK, KeepsGap
<1>3. ASSUME NEW t \in Station PROVE KeepsGap(t)'
  BY <1>2, <1>3 DEF HoldoffEnds, IInv, TypeOK, KeepsGap
<1>4. QED
  BY <1>1, <1>2, <1>3 DEF HoldoffEnds, IInv, TypeOK

(* While time passes, what is left of a wait and the time since the last   *)
(* packet add up to no less than before, or the wait starts again.         *)
LEMMA TickStep ==
    ASSUME IInv, Tick
    PROVE  IInv'
<1> USE DEF IInv, TypeOK
<1>1. left' \in [Station -> Nat]
  <2>1. ASSUME NEW s \in Station
        PROVE  (IF Audible(s) # {} THEN asked[s] ELSE Max({left[s] - 1, 0})) \in Nat
    BY RunsDown
  <2>2. QED
    BY <2>1 DEF Tick
<1>2. since' \in [Station -> Nat]
  <2>1. ASSUME NEW s \in Station
        PROVE  Min({since[s] + 1, Timeout[s] + 1}) \in Nat
    <3>1. since[s] \in Nat /\ Timeout[s] + 1 \in Nat
      BY Times
    <3> HIDE DEF IInv, TypeOK
    <3>2. QED
      BY <3>1, CountsUp
  <2>2. QED
    BY <2>1 DEF Tick
<1>3. air' \in [Station -> Nat]
  <2>1. ASSUME NEW s \in Station PROVE Max({air[s] - 1, 0}) \in Nat
    BY RunsDown
  <2>2. QED
    BY <2>1 DEF Tick
<1>4. ASSUME NEW s \in Station
      PROVE  /\ quiet'[s] \in Nat
             /\ quiet'[s] >= HoldoffMin[s] \/ quiet'[s] = quiet[s] + 1
  <2>1. quiet'[s] = Min({quiet[s] + 1, HoldoffMin[s]})
    BY DEF Tick
  <2>2. quiet[s] \in Nat /\ HoldoffMin[s] \in Nat
    BY Times
  <2> HIDE DEF IInv, TypeOK
  <2>3. QED
    BY <2>1, <2>2, CountsUp
<1>5. TypeOK'
  <2>1. quiet' \in [Station -> Nat]
    BY <1>4 DEF Tick
  <2>2. ASSUME NEW s \in Station
        PROVE  (IF air[s] > 0 \/ Audible(s) # {} THEN 0
                ELSE Min({silent[s] + 1, Timeout[s] + 1})) \in Nat
    <3>1. silent[s] \in Nat /\ Timeout[s] + 1 \in Nat
      BY Times
    <3> HIDE DEF IInv, TypeOK
    <3>2. QED
      BY <3>1, CountsUp
  <2>3. silent' \in [Station -> Nat]
    BY <2>2 DEF Tick
  <2>4. QED
    BY <1>1, <1>2, <1>3, <2>1, <2>3 DEF Tick
<1>6. ASSUME NEW s \in Station PROVE left'[s] >= left[s] - 1 \/ left'[s] = asked[s]
  <2>1. left'[s] = IF Audible(s) # {} THEN asked[s] ELSE Max({left[s] - 1, 0})
    BY DEF Tick
  <2>2. left[s] \in Nat
    OBVIOUS
  <2> HIDE DEF IInv, TypeOK
  <2>3. QED
    BY <2>1, <2>2, RunsDown
<1>7. ASSUME NEW s \in Station, quiet[s] >= HoldoffMin[s] PROVE quiet'[s] >= HoldoffMin[s]
  BY <1>4, <1>7, Times
<1>8. ASSUME NEW s \in Station PROVE KeepsGap(s)'
  <2>1. reader' = reader /\ asked' = asked /\ KeepsGap(s)
    BY DEF Tick
  <2>2. CASE quiet[s] >= HoldoffMin[s] \/ quiet'[s] >= HoldoffMin[s]
    BY <2>2, <1>7 DEF KeepsGap
  <2>3. CASE reader[s] = "receive"
    BY <2>1, <2>3 DEF KeepsGap
  <2>4. CASE /\ reader[s] = IF s \in Threaded THEN "holdoff" ELSE "wait"
             /\ asked[s] >= HoldoffMin[s] /\ left[s] + quiet[s] >= HoldoffMin[s]
             /\ quiet'[s] = quiet[s] + 1
    <3>1. {left[s], quiet[s], asked[s], left'[s], HoldoffMin[s]} \subseteq Nat
      BY <1>1, Times
    <3>2. left'[s] + quiet'[s] >= HoldoffMin[s]
      BY <1>6, <2>4, <3>1
    <3>3. QED
      BY <2>1, <2>4, <3>2 DEF KeepsGap
  <2>5. QED
    BY <1>4, <2>1, <2>2, <2>3, <2>4 DEF KeepsGap
<1>9. QED
  BY <1>5, <1>7, <1>8 DEF Tick

-----------------------------------------------------------------------------
(***************************************************************************)
(* The inductive invariant: until the gap after a packet has passed, a     *)
(* station receives or waits for as long (virtloc.c:67-84, tvirtloc.c:     *)
(* 61-71).                                                                 *)
(***************************************************************************)
THEOREM Invariance == Spec => []IInv
<1>1. IInv /\ [Next]_vars => IInv'
  <2> SUFFICES ASSUME IInv, [Next]_vars PROVE IInv'
    OBVIOUS
  <2>1. CASE UNCHANGED vars
    BY <2>1 DEF vars, line, IInv, TypeOK, KeepsGap
  <2>2. CASE Next
    BY <2>2, BeginStep, PrepareStep, SentStep, HearStep, LockStep, ReceiveStep,
       HoldoffEndsStep, TickStep DEF Next
  <2>3. QED
    BY <2>1, <2>2
<1>2. QED
  BY Initially, <1>1, PTL DEF Spec

(* Only the two that begin a frame put one on the air.                     *)
LEMMA OnlyTheyBegin ==
    ASSUME IInv, Next, NEW s \in Station, Begins(s)
    PROVE  LoopSends(s) \/ WriterSends(s)
<1> USE DEF IInv, TypeOK, Begins
<1>1. ASSUME NEW t \in Station, LoopSends(t) \/ WriterSends(t) PROVE t = s
  BY <1>1 DEF LoopSends, WriterSends, Begin
<1>2. ~Tick
  <2> SUFFICES ASSUME Tick PROVE FALSE
    OBVIOUS
  <2>1. air'[s] = Max({air[s] - 1, 0})
    BY DEF Tick
  <2>2. air[s] \in Nat /\ air[s] = 0 /\ air'[s] > 0
    OBVIOUS
  <2> HIDE DEF IInv, TypeOK, Begins
  <2>3. Max({air[s] - 1, 0}) \in Nat /\ Max({air[s] - 1, 0}) <= air[s]
    BY <2>2, RunsDown
  <2>4. QED
    BY <2>1, <2>2, <2>3
<1>3. ASSUME NEW t \in Station
      PROVE  ~(Prepare(t) \/ Sent(t) \/ Hear(t) \/ ReaderLocks(t) \/ Receive(t) \/ HoldoffEnds(t))
  BY DEF Prepare, Sent, Hear, ReaderLocks, Receive, HoldoffEnds
<1>4. QED
  BY <1>1, <1>2, <1>3 DEF Next

(***************************************************************************)
(* After the last packet it received, every station lets HOLDOFFMIN pass   *)
(* before it sends: for any number of stations, whoever hears whom, and    *)
(* whatever collides (virtloc.c:80-83, tvirtloc.c:59-75).                  *)
(***************************************************************************)
THEOREM Gap == Spec => GapKept
<1>1. ASSUME IInv, [Next]_vars
      PROVE  [\A s \in Station : Begins(s) => quiet[s] >= HoldoffMin[s]]_vars
  <2>1. CASE UNCHANGED vars
    BY <2>1
  <2>2. CASE Next
    BY <1>1, <2>2, OnlyTheyBegin, GapHasPassed
  <2>3. QED
    BY <1>1, <2>1, <2>2
<1>2. QED
  BY Invariance, <1>1, PTL DEF Spec, GapKept

(* A station whose frame and threads are left alone senses what it did.    *)
LEMMA LeftAlone ==
    ASSUME NEW t \in Station, Senses(t),
           air' = air, jammed'[t] = jammed[t], reader'[t] = reader[t], writer'[t] = writer[t],
           left'[t] = left[t], since'[t] = since[t], from'[t] = from[t]
    PROVE  Senses(t)'
<1>1. OnAir(t)' = OnAir(t) /\ UnderWay(t)' = UnderWay(t)
  BY DEF OnAir, UnderWay
<1>2. (OneThread(t) /\ OwnFrame(t))'
  BY DEF Senses, OneThread, OwnFrame
<1>3. Alone(t)'
  BY <1>1 DEF Senses, Alone
<1>4. ASSUME NEW u \in UnderWay(t), KeptFrom(t, u) PROVE KeptFrom(t, u)'
  BY <1>4 DEF KeptFrom, ReaderHolds
<1>5. QED
  BY <1>1, <1>2, <1>3, <1>4 DEF Senses

(* The values of the variables of one station.                             *)
LEMMA Values ==
    ASSUME SInv, NEW h \in Station
    PROVE  /\ air[h] \in Nat /\ left[h] \in Nat /\ asked[h] \in Nat /\ since[h] \in Nat
           /\ air[h] <= Airtime[h] /\ left[h] <= asked[h]
           /\ from[h] \in Station => <<from[h], h>> \in Hears
           /\ reader[h] \in {"wait", "holdoff"} <=> from[h] = None
           /\ jammed[h] \in BOOLEAN /\ from[h] \in Station \union {None, Noise}
           /\ Senses(h)
BY DEF SInv, FramesOK, IInv, TypeOK

(* At the start nothing is on the air.                                     *)
LEMMA SenseInitially == Init => SInv
<1> SUFFICES ASSUME Init PROVE SInv
  OBVIOUS
<1>1. FramesOK
  BY Times, StationAssumption DEF Init, FramesOK
<1>2. ASSUME NEW h \in Station PROVE Senses(h)
  BY StationAssumption DEF Init, Senses, OneThread, OwnFrame, Alone, OnAir, UnderWay
<1>3. QED
  BY <1>1, <1>2, Initially DEF SInv

(* A frame that begins is alone in the air of h, or collides there.        *)
LEMMA OnlyOne ==
    ASSUME SInv, NEW h \in Station, NEW t \in OnAir(h), air[t] = Airtime[t], air[h] = 0,
           ~jammed[h]
    PROVE  OnAir(h) = {t}
<1>1. air[h] # Airtime[h]
  BY Times
<1>2. t \notin UnderWay(h)
  <2>1. t \in Station
    BY DEF OnAir
  <2>2. air[t] \in Nat
    BY <2>1 DEF SInv, IInv, TypeOK
  <2>3. QED
    BY <2>2 DEF UnderWay
<1>3. \A u \in OnAir(h) : t = u
  BY <1>1, <1>2 DEF SInv, Senses, Alone
<1>4. QED
  BY <1>3

(* A writer makes its packet only when the air has had time enough for a   *)
(* frame to end that began while the station was sending.                  *)
LEMMA SensePrepare ==
    ASSUME SInv, NEW s \in Station, Prepare(s)
    PROVE  SInv'
<1>1. IInv' /\ FramesOK'
  BY PrepareStep DEF Prepare, line, SInv, FramesOK
<1>2. ASSUME NEW h \in Station, h # s PROVE Senses(h)'
  BY <1>2, LeftAlone DEF SInv, Prepare, line, IInv, TypeOK
<1>3. Senses(s)'
  <2>1. /\ s \in Threaded /\ since[s] >= Timeout[s]
        /\ {since[s], air[s], Airtime[s], Timeout[s]} \subseteq Nat /\ Airtime[s] > 0
    BY Times DEF Prepare, SInv, IInv, TypeOK
  <2>2. OneThread(s)' /\ Alone(s)'
    BY <2>1 DEF Prepare, line, SInv, Senses, OneThread, Alone, OnAir, UnderWay
  <2>3. OwnFrame(s)'
    <3>1. Airtime[s] < Timeout[s]
      BY FrameAssumption
    <3>2. QED
      BY <2>1, <3>1 DEF Prepare, SInv, Senses, OwnFrame
  <2>4. ASSUME NEW t \in UnderWay(s), KeptFrom(s, t) PROVE KeptFrom(s, t)'
    <3>1. t \in Station /\ air[t] \in Nat
      BY DEF SInv, IInv, TypeOK, UnderWay, OnAir
    <3>2. Airtime[t] \in Nat
      BY <3>1, Times
    <3>3. Airtime[s] + Airtime[t] <= Timeout[s]
      BY <2>1, <3>1, FrameAssumption
    <3>4. QED
      BY <2>1, <2>4, <3>1, <3>2, <3>3 DEF Prepare, line, KeptFrom, ReaderHolds
  <2>5. UnderWay(s)' = UnderWay(s) /\ air' = air /\ jammed' = jammed
    BY DEF UnderWay, OnAir, Prepare
  <2>6. QED
    BY <2>2, <2>3, <2>4, <2>5 DEF SInv, Senses
<1>4. QED
  BY <1>1, <1>2, <1>3 DEF SInv

(* After send_packet a loop listens for a whole TIMEOUT, a writer sleeps.  *)
LEMMA SenseSent ==
    ASSUME SInv, NEW s \in Station, Sent(s)
    PROVE  SInv'
<1>1. IInv' /\ FramesOK'
  <2>1. FramesOK'
    BY Times DEF Sent, SInv, IInv, TypeOK, FramesOK
  <2>2. QED
    BY <2>1, SentStep DEF SInv
<1>2. ASSUME NEW h \in Station, h # s PROVE Senses(h)'
  BY <1>2, LeftAlone DEF SInv, Sent, IInv, TypeOK
<1>3. Senses(s)'
  <2>1. /\ writer'[s] = "sleep"
        /\ s \notin Threaded => reader[s] = "wait" /\ left'[s] = Timeout[s]
        /\ s \in Threaded => left'[s] = left[s]
        /\ {since[s], air[s], Airtime[s], Timeout[s]} \subseteq Nat /\ Airtime[s] > 0 /\ Timeout[s] > 0
    BY Times DEF Sent, SInv, IInv, TypeOK
  <2>2. OneThread(s)' /\ Alone(s)'
    BY <2>1 DEF Sent, SInv, Senses, OneThread, Alone, OnAir, UnderWay
  <2>3. OwnFrame(s)'
    BY <2>1 DEF Sent, SInv, Senses, OwnFrame
  <2>4. ASSUME NEW t \in UnderWay(s), KeptFrom(s, t) PROVE KeptFrom(s, t)'
    BY <2>1, <2>4 DEF Sent, KeptFrom, ReaderHolds
  <2>5. UnderWay(s)' = UnderWay(s) /\ air' = air /\ jammed' = jammed
    BY DEF UnderWay, OnAir, Sent
  <2>6. QED
    BY <2>2, <2>3, <2>4, <2>5 DEF SInv, Senses
<1>4. QED
  BY <1>1, <1>2, <1>3 DEF SInv

(* A frame begins: its hearers had nothing on the air, or it spoils it.    *)
LEMMA SenseBegin ==
    ASSUME SInv, NEW s \in Station, LoopSends(s) \/ WriterSends(s)
    PROVE  SInv'
<1> USE DEF SInv, IInv, TypeOK
<1>1. Begin(s) /\ (s \notin Threaded => reader[s] = "wait")
  BY DEF LoopSends, WriterSends
<1>2. /\ Airtime[s] \in Nat /\ Airtime[s] > 0 /\ <<s, s>> \notin Hears
      /\ air'[s] = Airtime[s] /\ since'[s] = 0 /\ writer'[s] = "send" /\ ~jammed'[s]
      /\ \A h \in Station \ {s} : air'[h] = air[h] /\ since'[h] = since[h] /\ writer'[h] = writer[h]
      /\ reader' = reader /\ left' = left /\ asked' = asked
  <2>1. Airtime[s] \in Nat /\ Airtime[s] > 0 /\ <<s, s>> \notin Hears
    BY Times, StationAssumption
  <2>2. ~jammed'[s] /\ reader' = reader /\ left' = left /\ asked' = asked
    BY <1>1 DEF Begin, line
  <2>3. air'[s] = Airtime[s] /\ \A h \in Station \ {s} : air'[h] = air[h]
    BY <1>1 DEF Begin
  <2>4. since'[s] = 0 /\ \A h \in Station \ {s} : since'[h] = since[h]
    BY <1>1 DEF Begin
  <2>5. writer'[s] = "send" /\ \A h \in Station \ {s} : writer'[h] = writer[h]
    BY <1>1 DEF Begin
  <2>6. QED
    BY <2>1, <2>2, <2>3, <2>4, <2>5
<1>3. \A h \in Station : from'[h] = IF from[h] # None /\ (h = s \/ Spoils(s, h)) THEN Noise
                                    ELSE from[h]
  BY <1>1 DEF Begin
<1>4. ASSUME NEW h \in Station, h # s
      PROVE  jammed'[h] = (jammed[h] \/ Spoils(s, h))
  <2>1. jammed'[h] = (h # s /\ (jammed[h] \/ Spoils(s, h)))
    BY <1>1 DEF Begin
  <2>2. QED
    BY <1>4, <2>1
<1>5. FramesOK'
  <2>1. jammed' \in [Station -> BOOLEAN]
    BY <1>1 DEF Begin
  <2>2. from' \in [Station -> Station \union {None, Noise}]
    BY <1>1 DEF Begin, FramesOK
  <2>3. ASSUME NEW t \in Station
        PROVE  /\ air'[t] <= Airtime[t] /\ left'[t] <= asked'[t]
               /\ from'[t] \in Station => <<from'[t], t>> \in Hears
               /\ reader'[t] \in {"wait", "holdoff"} <=> from'[t] = None
    <3>1. air'[t] <= Airtime[t] /\ left'[t] <= asked'[t] /\ reader'[t] = reader[t]
      <4> HIDE DEF SInv, IInv, TypeOK
      <4>1. air[t] <= Airtime[t] /\ left[t] <= asked[t]
        BY Values
      <4>2. CASE t = s
        BY <1>2, <4>1, <4>2
      <4>3. CASE t # s
        BY <1>2, <4>1, <4>3
      <4>4. QED
        BY <4>2, <4>3
    <3>2. from'[t] = from[t] \/ (from'[t] = Noise /\ from[t] # None)
      BY <1>3
    <3>3. QED
      <4> HIDE DEF SInv, IInv, TypeOK
      <4>1. QED
        BY <3>1, <3>2, Values, StationAssumption
  <2>4. QED
    BY <2>1, <2>2, <2>3 DEF FramesOK
<1>6. Senses(s)'
  <2>1. OneThread(s)' /\ OwnFrame(s)'
    <3>1. s \notin Threaded => from'[s] # Noise
      BY <1>1, <1>3, StationAssumption DEF FramesOK
    <3>2. QED
      BY <1>1, <1>2, <3>1 DEF OneThread, OwnFrame, Senses
  <2>2. Alone(s)'
    BY <1>2 DEF Alone
  <2>3. QED
    BY <1>2, <2>1, <2>2 DEF Senses
<1>7. ASSUME NEW h \in Station, h # s PROVE Senses(h)'
  <2>1. OneThread(h)'
    BY <1>2, <1>3, <1>4, <1>7 DEF Senses, OneThread
  <2>2. OwnFrame(h)'
    BY <1>2, <1>7 DEF Senses, OwnFrame
  <2>3. CASE Spoils(s, h)
    BY <1>4, <1>7, <2>1, <2>2, <2>3 DEF Senses, Alone
  <2>4. CASE ~Spoils(s, h)
    <3>1. \A t \in OnAir(h)' : \/ t = s /\ OnAir(h) = {}
                               \/ t # s /\ t \in OnAir(h) /\ air'[t] = air[t]
      BY <1>2, <2>4 DEF OnAir, Spoils
    <3>2. jammed'[h] = jammed[h] /\ from'[h] = from[h] /\ air'[h] = air[h]
          /\ writer'[h] = writer[h] /\ since'[h] = since[h]
      <4>1. jammed'[h] = jammed[h]
        BY <1>4, <1>7, <2>4 DEF FramesOK
      <4>2. QED
        BY <1>2, <1>3, <1>7, <2>4, <4>1
    <3>3. Alone(h)'
      <4>1. ASSUME NEW t \in OnAir(h), t # s PROVE t \in UnderWay(h) => t \in UnderWay(h)'
        BY <1>2, <4>1 DEF UnderWay, OnAir
      <4>2. QED
        BY <3>1, <3>2, <4>1 DEF Senses, Alone
    <3>4. ASSUME NEW t \in UnderWay(h)'
          PROVE  t \in UnderWay(h) /\ air'[t] = air[t]
      BY <1>2, <3>1, <3>4 DEF UnderWay
    <3>5. ASSUME NEW t \in UnderWay(h)', KeptFrom(h, t) PROVE KeptFrom(h, t)'
      BY <1>2, <3>2, <3>4, <3>5 DEF KeptFrom, ReaderHolds
    <3>6. QED
      BY <2>1, <2>2, <3>2, <3>3, <3>4, <3>5 DEF Senses
  <2>5. QED
    BY <2>3, <2>4
<1>8. QED
  BY <1>5, <1>6, <1>7, BeginStep

(* wait_packet reads the start of a frame that is alone, or some of more   *)
(* than one at once, which have collided.                                  *)
LEMMA SenseHear ==
    ASSUME SInv, NEW h \in Station, Hear(h)
    PROVE  SInv'
<1> USE DEF SInv, IInv, TypeOK
<1>1. /\ air[h] = 0 /\ writer[h] # "send" /\ reader[h] \in {"wait", "holdoff"}
      /\ h \notin Threaded => left[h] > 0 /\ reader[h] = "wait"
      /\ Audible(h) = OnAir(h) /\ Starting(h) # {} /\ Starting(h) \subseteq OnAir(h)
  BY DEF Hear, Listening, Audible, Starting, Senses, OneThread
<1>2. /\ air' = air /\ jammed' = jammed /\ writer' = writer /\ since' = since
      /\ reader'[h] \in {"receive", "started"}
      /\ h \notin Threaded => reader'[h] = "receive"
      /\ \A t \in Station \ {h} : /\ reader'[t] = reader[t] /\ left'[t] = left[t]
                                  /\ asked'[t] = asked[t] /\ from'[t] = from[t]
  BY DEF Hear, FramesOK
<1>3. asked'[h] = left'[h] /\ (h \notin Threaded => left'[h] > 0)
  <2>1. left'[h] = asked'[h]
    BY DEF Hear
  <2>2. asked'[h] = IF h \in Chatter THEN asked[h] ELSE RecvTimeout
    BY DEF Hear
  <2>3. RecvTimeout > 0 /\ left[h] <= asked[h] /\ RecvTimeout \in Nat
    <3> HIDE DEF SInv, IInv, TypeOK
    <3>1. RecvTimeout > 0 /\ RecvTimeout \in Nat
      BY Times
    <3>2. left[h] <= asked[h]
      BY Values
    <3>3. QED
      BY <3>1, <3>2
  <2>4. QED
    BY <1>1, <2>1, <2>2, <2>3
<1>4. from'[h] = IF Cardinality(OnAir(h)) = 1 THEN CHOOSE s \in Starting(h) : TRUE ELSE Noise
  BY <1>1 DEF Hear, FramesOK
<1>5. ASSUME Cardinality(OnAir(h)) # 1 PROVE jammed[h]
  <2>1. PICK t \in Starting(h) : TRUE
    BY <1>1
  <2>2. OnAir(h) # {t}
    BY <1>5, FS_Singleton, Zenon
  <2>3. t \in OnAir(h) /\ air[t] = Airtime[t]
    BY <1>1, <2>1 DEF Starting
  <2>4. QED
    BY <1>1, <2>2, <2>3, OnlyOne
<1>6. from'[h] \in Starting(h) \/ (from'[h] = Noise /\ jammed[h])
  <2>1. (CHOOSE s \in Starting(h) : TRUE) \in Starting(h)
    BY <1>1
  <2>2. CASE Cardinality(OnAir(h)) = 1
    BY <1>4, <2>1, <2>2
  <2>3. CASE Cardinality(OnAir(h)) # 1
    BY <1>4, <1>5, <2>3
  <2>4. QED
    BY <2>2, <2>3
<1>7. from'[h] # None /\ (from'[h] \in Station => <<from'[h], h>> \in Hears)
  BY <1>1, <1>6, StationAssumption DEF OnAir
<1>8. FramesOK'
  <2>1. from' \in [Station -> Station \union {None, Noise}]
    BY <1>1, <1>6 DEF Hear, FramesOK, OnAir
  <2>2. ASSUME NEW t \in Station
        PROVE  /\ air'[t] <= Airtime[t] /\ left'[t] <= asked'[t]
               /\ from'[t] \in Station => <<from'[t], t>> \in Hears
               /\ reader'[t] \in {"wait", "holdoff"} <=> from'[t] = None
    <3>1. CASE t = h
      <4>1. left'[h] \in Nat
        BY HearStep
      <4>2. QED
        <5> HIDE DEF SInv, IInv, TypeOK
        <5>1. air[h] <= Airtime[h]
          BY Values
        <5>2. QED
          BY <1>2, <1>3, <1>7, <3>1, <4>1, <5>1
    <3>2. CASE t # h
      BY <1>2, <3>2 DEF FramesOK
    <3>3. QED
      BY <3>1, <3>2
  <2>3. jammed' \in [Station -> BOOLEAN]
    BY <1>2 DEF FramesOK
  <2>4. QED
    BY <2>1, <2>2, <2>3 DEF FramesOK
<1>9. ASSUME NEW t \in Station, t # h PROVE Senses(t)'
  BY <1>2, <1>9, LeftAlone
<1>10. Senses(h)'
  <2>1. OneThread(h)'
    BY <1>2, <1>6, <1>1, StationAssumption DEF OnAir, Senses, OneThread
  <2>2. OwnFrame(h)' /\ Alone(h)'
    BY <1>1, <1>2 DEF Senses, OwnFrame, Alone, OnAir, UnderWay
  <2>3. ASSUME NEW t \in UnderWay(h), ~jammed[h], KeptFrom(h, t) PROVE KeptFrom(h, t)'
    <3>1. PICK s \in Starting(h) : TRUE
      BY <1>1
    <3>2. t \in OnAir(h) /\ air[t] < Airtime[t] /\ air[s] = Airtime[s]
      BY DEF UnderWay, Starting
    <3>3. s = t
      BY <1>1, <2>3, <3>2, OnlyOne
    <3>4. air[t] \in Nat
      BY <3>2 DEF OnAir
    <3>5. QED
      BY <3>2, <3>3, <3>4
  <2>4. UnderWay(h)' = UnderWay(h)
    BY <1>2 DEF UnderWay, OnAir
  <2>5. QED
    BY <1>2, <2>1, <2>2, <2>3, <2>4 DEF Senses
<1>11. QED
  BY <1>8, <1>9, <1>10, HearStep

(* The reader takes the line, which changes nothing for its writer: it has *)
(* not waited for the lock unless the writer was sending.                  *)
LEMMA SenseLock ==
    ASSUME SInv, NEW h \in Station, ReaderLocks(h)
    PROVE  SInv'
<1>1. /\ reader[h] = "started" /\ reader'[h] = "receive" /\ h \in Threaded
      /\ air' = air /\ jammed' = jammed /\ writer' = writer /\ since' = since
      /\ left' = left /\ asked' = asked /\ from' = from
      /\ \A t \in Station \ {h} : reader'[t] = reader[t]
  BY DEF ReaderLocks, line, SInv, IInv, TypeOK, Senses, OneThread
<1>2. FramesOK'
  BY <1>1 DEF SInv, FramesOK
<1>3. ASSUME NEW t \in Station, t # h PROVE Senses(t)'
  BY <1>1, <1>3, LeftAlone DEF SInv
<1>4. Senses(h)'
  <2>1. Senses(h) /\ UnderWay(h)' = UnderWay(h) /\ OnAir(h)' = OnAir(h)
    BY <1>1 DEF SInv, UnderWay, OnAir
  <2>2. OneThread(h)' /\ OwnFrame(h)' /\ Alone(h)'
    BY <1>1, <2>1 DEF Senses, OneThread, OwnFrame, Alone
  <2>3. ASSUME NEW t \in UnderWay(h), KeptFrom(h, t) PROVE KeptFrom(h, t)'
    BY <1>1, <2>3 DEF KeptFrom, ReaderHolds
  <2>4. QED
    BY <1>1, <2>1, <2>2, <2>3 DEF Senses
<1>5. QED
  BY <1>2, <1>3, <1>4, LockStep DEF SInv

(* A reader leaves its holdoff when nothing is on the air, or only what    *)
(* began while the station was sending itself, not long ago.               *)
LEMMA SenseHoldoffEnds ==
    ASSUME SInv, NEW h \in Station, HoldoffEnds(h)
    PROVE  SInv'
<1>1. /\ reader[h] = "holdoff" /\ left[h] = 0 /\ reader'[h] = "wait" /\ h \in Threaded
      /\ air' = air /\ jammed' = jammed /\ writer' = writer /\ since' = since
      /\ left' = left /\ from' = from
      /\ \A t \in Station \ {h} : reader'[t] = reader[t] /\ asked'[t] = asked[t]
      /\ asked'[h] = 0
  BY DEF HoldoffEnds, SInv, IInv, TypeOK, Senses, OneThread
<1>2. FramesOK'
  <2>1. ASSUME NEW t \in Station PROVE left'[t] <= asked'[t]
    <3>1. left[t] <= asked[t]
      BY Values
    <3>2. QED
      BY <1>1, <3>1
  <2>2. QED
    BY <1>1, <2>1 DEF SInv, FramesOK
<1>3. ASSUME NEW t \in Station, t # h PROVE Senses(t)'
  BY <1>1, <1>3, LeftAlone DEF SInv
<1>4. Senses(h)'
  <2>1. Senses(h) /\ UnderWay(h)' = UnderWay(h) /\ OnAir(h)' = OnAir(h)
    BY <1>1 DEF SInv, UnderWay, OnAir
  <2>2. OneThread(h)' /\ OwnFrame(h)' /\ Alone(h)'
    BY <1>1, <2>1 DEF Senses, OneThread, OwnFrame, Alone
  <2>3. ASSUME NEW t \in UnderWay(h), KeptFrom(h, t) PROVE KeptFrom(h, t)'
    BY <1>1, <2>3 DEF KeptFrom, ReaderHolds
  <2>4. QED
    BY <1>1, <2>1, <2>2, <2>3 DEF Senses
<1>5. QED
  BY <1>2, <1>3, <1>4, HoldoffEndsStep DEF SInv

(* recv_packet does not return in the middle of the only frame on the air  *)
(* but to a holdoff, when it began in one that was spoilt.                 *)
LEMMA SenseReceive ==
    ASSUME SInv, NEW h \in Station, Receive(h)
    PROVE  SInv'
<1>1. PICK outcome \in Outcomes(h) :
          \E wait \in IF h \in Threaded THEN Holdoff(h) ELSE Waits(h, outcome) :
              /\ asked' = [asked EXCEPT ![h] = wait]
              /\ left' = [left EXCEPT ![h] = wait]
  BY DEF Receive
<1>2. PICK wait \in IF h \in Threaded THEN Holdoff(h) ELSE Waits(h, outcome) :
          /\ asked' = [asked EXCEPT ![h] = wait]
          /\ left' = [left EXCEPT ![h] = wait]
  BY <1>1
<1>3. wait \in Nat /\ (h \in Threaded => wait > 0)
  BY <1>2, Times, WaitIsLong DEF SInv, IInv
<1>4. /\ reader[h] = "receive" /\ reader'[h] = IF h \in Threaded THEN "holdoff" ELSE "wait"
      /\ air' = air /\ jammed' = jammed /\ writer' = writer /\ since' = since
      /\ from'[h] = None /\ left'[h] = wait /\ asked'[h] = wait
      /\ \A t \in Station \ {h} : /\ reader'[t] = reader[t] /\ from'[t] = from[t]
                                  /\ left'[t] = left[t] /\ asked'[t] = asked[t]
  BY <1>2 DEF Receive, SInv, IInv, TypeOK, FramesOK
<1>5. FramesOK'
  <2>1. /\ from' \in [Station -> Station \union {None, Noise}]
        /\ jammed' \in [Station -> BOOLEAN]
    BY DEF Receive, SInv, FramesOK
  <2>2. ASSUME NEW t \in Station
        PROVE  /\ air'[t] <= Airtime[t] /\ left'[t] <= asked'[t]
               /\ from'[t] \in Station => <<from'[t], t>> \in Hears
               /\ reader'[t] \in {"wait", "holdoff"} <=> from'[t] = None
    <3>1. CASE t = h
      <4>1. air[h] <= Airtime[h]
        BY Values
      <4>2. QED
        BY <1>3, <1>4, <3>1, <4>1, StationAssumption
    <3>2. CASE t # h
      BY <1>4, <3>2, Values
    <3>3. QED
      BY <3>1, <3>2
  <2>3. QED
    BY <2>1, <2>2 DEF FramesOK
<1>6. ASSUME NEW t \in Station, t # h PROVE Senses(t)'
  BY <1>4, <1>6, LeftAlone DEF SInv
<1>7. Senses(h)'
  <2>1. Senses(h) /\ UnderWay(h)' = UnderWay(h) /\ OnAir(h)' = OnAir(h)
    BY <1>4 DEF SInv, UnderWay, OnAir
  <2>2. h \notin Threaded => writer[h] # "send"
    BY <1>4 DEF SInv, IInv
  <2>3. OneThread(h)' /\ OwnFrame(h)' /\ Alone(h)'
    BY <1>4, <2>1, <2>2, StationAssumption DEF Senses, OneThread, OwnFrame, Alone
  <2>4. ASSUME NEW t \in UnderWay(h), KeptFrom(h, t) PROVE KeptFrom(h, t)'
    <3>1. t \in Station /\ air[t] \in Nat /\ air[t] > 0
      BY Values DEF UnderWay, OnAir
    <3>2. t # Noise /\ t # None
      BY <3>1, StationAssumption
    <3>3. ASSUME left[h] > 0 PROVE from[h] # t
      BY <1>1, <3>1, <3>2, <3>3, Values DEF Outcomes
    <3>4. CASE h \in Threaded
      BY <1>3, <1>4, <2>4, <3>3, <3>4 DEF KeptFrom, ReaderHolds
    <3>5. CASE h \notin Threaded
      BY <1>4, <2>2, <2>4, <3>3, <3>5 DEF KeptFrom
    <3>6. QED
      BY <3>4, <3>5
  <2>5. QED
    BY <1>4, <2>1, <2>3, <2>4 DEF Senses
<1>8. QED
  BY <1>5, <1>6, <1>7, ReceiveStep DEF SInv

(* What a tick does to one station.                                        *)
LEMMA TickOfOne ==
    ASSUME SInv, Tick, NEW h \in Station
    PROVE  /\ air'[h] = IF air[h] = 0 THEN 0 ELSE air[h] - 1
           /\ since'[h] \in Nat /\ since'[h] <= since[h] + 1
           /\ writer[h] = "send" => since'[h] = 0
           /\ left'[h] \in Nat
           /\ Audible(h) # {} => left'[h] = asked[h]
           /\ Audible(h) = {} => left'[h] >= left[h] - 1 /\ left'[h] <= left[h]
<1>1. air[h] \in Nat /\ left[h] \in Nat /\ asked[h] \in Nat /\ since[h] \in Nat
  BY Values
<1>2. air'[h] = Max({air[h] - 1, 0})
  BY DEF Tick
<1>3. since'[h] = IF writer[h] = "send" THEN 0 ELSE Min({since[h] + 1, Timeout[h] + 1})
  BY DEF Tick
<1>4. left'[h] = IF Audible(h) # {} THEN asked[h] ELSE Max({left[h] - 1, 0})
  BY DEF Tick
<1>5. /\ Max({air[h] - 1, 0}) \in {air[h] - 1, 0}
      /\ Max({air[h] - 1, 0}) >= air[h] - 1 /\ Max({air[h] - 1, 0}) >= 0
  <2>1. air[h] - 1 \in Int /\ 0 \in Int
    BY <1>1
  <2>2. QED
    BY <2>1, MaxOfTwo, Zenon
<1>6. /\ Min({since[h] + 1, Timeout[h] + 1}) \in {since[h] + 1, Timeout[h] + 1}
      /\ Min({since[h] + 1, Timeout[h] + 1}) <= since[h] + 1
  <2>1. since[h] + 1 \in Int /\ Timeout[h] + 1 \in Int
    BY <1>1, Times
  <2>2. QED
    BY <2>1, MinOfTwo, Zenon
<1>7. Max({left[h] - 1, 0}) \in Nat /\ Max({left[h] - 1, 0}) >= left[h] - 1
      /\ Max({left[h] - 1, 0}) <= left[h]
  BY <1>1, RunsDown
<1>8. air'[h] = IF air[h] = 0 THEN 0 ELSE air[h] - 1
  BY <1>1, <1>2, <1>5
<1>9. since'[h] \in Nat /\ since'[h] <= since[h] + 1 /\ (writer[h] = "send" => since'[h] = 0)
  BY <1>1, <1>3, <1>6, Times
<1>10. QED
  BY <1>1, <1>4, <1>7, <1>8, <1>9

(***************************************************************************)
(* A frame gets under way with the first tick.  Everybody who could hear   *)
(* its start has read it by then, or has its reader in another frame, as   *)
(* there was something left to do before time could pass.                  *)
(***************************************************************************)
LEMMA GetsUnderWay ==
    ASSUME SInv, Tick, NEW h \in Station, NEW t \in OnAir(h), air[h] = 0, ~jammed[h],
           air[t] = Airtime[t]
    PROVE  /\ reader[h] = "receive" /\ left[h] > 0
           /\ IF h \in Threaded THEN from[h] \in {t, Noise} ELSE from[h] = t
<1>1. ~Busy(h) /\ Senses(h) /\ t \in Station
  BY DEF Tick, SInv, OnAir
<1>2. OnAir(h) = {t}
  BY OnlyOne
<1>3. Audible(h) = {t} /\ t \in Starting(h) /\ Cardinality(Audible(h)) = 1
  BY <1>2, FS_Singleton DEF Audible, Starting
<1>4. ~Listening(h)
  BY <1>1, <1>3 DEF Busy
<1>5. writer[h] # "send"
  BY <1>1 DEF Busy
<1>6. left[h] \in Nat /\ reader[h] \in {"wait", "started", "receive", "holdoff"}
      /\ writer[h] \in {"sleep", "prepared", "send"}
  BY Values DEF SInv, IInv, TypeOK
<1>7. reader[h] = "receive"
  <2>1. reader[h] # "started"
    BY <1>1, <1>5 DEF Busy
  <2>2. reader[h] # "holdoff"
    BY <1>1, <1>4, <1>5, <1>6 DEF Busy, Listening
  <2>3. reader[h] # "wait"
    BY <1>1, <1>4, <1>5, <1>6 DEF Busy, Listening, Senses, OneThread
  <2>4. QED
    BY <1>6, <2>1, <2>2, <2>3
<1>8. left[h] > 0 /\ Outcomes(h) # {"packet"}
  BY <1>1, <1>6, <1>7 DEF Busy
<1>9. from[h] # None /\ from[h] \in Station \union {None, Noise}
      /\ (from[h] \in Station => <<from[h], h>> \in Hears)
  BY <1>7, Values
<1>10. from[h] \in {t, Noise}
  <2> SUFFICES ASSUME from[h] # Noise PROVE from[h] = t
    OBVIOUS
  <2>1. from[h] \in Station /\ <<from[h], h>> \in Hears
    BY <1>9
  <2>2. air[from[h]] \in Nat /\ air[from[h]] # 0
    <3>1. air[from[h]] \in Nat
      BY <2>1, Values
    <3>2. ASSUME air[from[h]] = 0 PROVE Outcomes(h) = {"packet"}
      BY <1>8, <1>9, <2>1, <3>2 DEF Outcomes
    <3>3. QED
      BY <1>8, <3>1, <3>2
  <2>3. from[h] \in OnAir(h)
    BY <2>1, <2>2 DEF OnAir
  <2>4. QED
    BY <1>2, <2>3
<1>11. h \notin Threaded => from[h] # Noise
  BY <1>1 DEF Senses, OneThread
<1>12. QED
  BY <1>7, <1>8, <1>10, <1>11

(***************************************************************************)
(* A tick: a frame on the air is shorter by what every clock moves, and a  *)
(* time-out starts again for everybody who hears anything.                 *)
(***************************************************************************)
LEMMA SenseTick ==
    ASSUME SInv, Tick
    PROVE  SInv'
<1>1. /\ reader' = reader /\ writer' = writer /\ asked' = asked /\ from' = from
      /\ jammed' = jammed
  BY DEF Tick
<1>3. FramesOK'
  <2>1. ASSUME NEW t \in Station
        PROVE  air'[t] <= Airtime[t] /\ left'[t] <= asked'[t]
    <3>0. Airtime[t] \in Nat
      BY Times
    <3>1. /\ air[t] \in Nat /\ left[t] \in Nat /\ asked[t] \in Nat
          /\ air[t] <= Airtime[t] /\ left[t] <= asked[t]
      BY Values
    <3>2. air'[t] <= Airtime[t]
      BY <3>0, <3>1, TickOfOne
    <3>3. left'[t] <= asked'[t]
      BY <1>1, <3>1, TickOfOne
    <3>4. QED
      BY <3>2, <3>3
  <2>2. QED
    BY <1>1, <2>1 DEF SInv, FramesOK
<1>4. ASSUME NEW h \in Station PROVE Senses(h)'
  <2>0. Airtime[h] \in Nat /\ Airtime[h] > 0 /\ Timeout[h] \in Nat
    BY Times
  <2>1. Senses(h) /\ air[h] \in Nat /\ since[h] \in Nat /\ left[h] \in Nat /\ asked[h] \in Nat
        /\ air[h] <= Airtime[h] /\ left[h] <= asked[h]
    BY Values
  <2>2. /\ air'[h] = IF air[h] = 0 THEN 0 ELSE air[h] - 1
        /\ since'[h] \in Nat /\ since'[h] <= since[h] + 1
        /\ writer[h] = "send" => since'[h] = 0
        /\ left'[h] \in Nat
        /\ Audible(h) # {} => left'[h] = asked[h]
        /\ Audible(h) = {} => left'[h] >= left[h] - 1
    BY TickOfOne
  <2>3. ASSUME NEW t \in OnAir(h)'
        PROVE  t \in OnAir(h) /\ air[t] \in Nat /\ air[t] > 0 /\ air'[t] = air[t] - 1
               /\ air[t] <= Airtime[t]
    <3>1. t \in Station /\ air[t] \in Nat /\ air[t] <= Airtime[t] /\ <<t, h>> \in Hears /\ air'[t] > 0
      BY Values DEF OnAir
    <3>2. QED
      BY <3>1, TickOfOne DEF OnAir
  <2>4. OneThread(h)'
    BY <1>1, <2>1 DEF Senses, OneThread
  <2>5. OwnFrame(h)'
    <3> SUFFICES ASSUME air'[h] > 0 PROVE OwnFrame(h)'
      BY DEF OwnFrame
    <3>1. air[h] > 0 /\ air'[h] = air[h] - 1 /\ Audible(h) = {} /\ OwnFrame(h)
      BY <2>1, <2>2 DEF Audible, Senses
    <3>2. since'[h] + air'[h] <= Airtime[h]
      BY <2>0, <2>1, <2>2, <3>1 DEF OwnFrame
    <3>3. CASE h \in Threaded
      BY <1>1, <3>1, <3>2, <3>3 DEF OwnFrame
    <3>4. CASE h \notin Threaded
      BY <1>1, <2>0, <2>1, <2>2, <3>1, <3>2, <3>4 DEF OwnFrame
    <3>5. QED
      BY <3>3, <3>4
  <2>6. Alone(h)'
    <3>1. ASSUME NEW t \in OnAir(h)' PROVE t \in UnderWay(h)'
      <4>1. t \in Station
        BY DEF OnAir
      <4>2. QED
        BY <2>3, <4>1, Times DEF UnderWay
    <3>2. QED
      BY <3>1 DEF Alone
  <2>7. ASSUME NEW t \in UnderWay(h)', air'[h] = 0, ~jammed[h]
        PROVE  KeptFrom(h, t)'
    <3>1. t \in OnAir(h)' /\ t \in OnAir(h) /\ air[t] \in Nat /\ air[t] > 0
          /\ air'[t] = air[t] - 1 /\ air[t] <= Airtime[t] /\ Airtime[t] \in Nat
      <4>1. t \in OnAir(h)' /\ t \in Station
        BY DEF UnderWay, OnAir
      <4>2. QED
        BY <2>3, <4>1, Times
    <3>2. CASE air[h] > 0
      <4>1. air[h] = 1 /\ OwnFrame(h)
        BY <2>1, <2>2, <2>7, <3>2 DEF Senses
      <4>2. CASE h \in Threaded
        <5>1. writer[h] # "prepared" /\ since[h] + 1 <= Airtime[h]
          BY <4>1, <4>2 DEF OwnFrame
        <5>2. since'[h] + air'[t] < Airtime[h] + Airtime[t]
          BY <2>0, <2>1, <2>2, <3>1, <5>1
        <5>3. QED
          BY <1>1, <4>2, <5>1, <5>2 DEF KeptFrom
      <4>3. CASE h \notin Threaded
        <5>1. Audible(h) = {}
          BY <3>2 DEF Audible
        <5>2. CASE writer[h] = "send"
          BY <1>1, <4>3, <5>2 DEF KeptFrom
        <5>3. CASE reader[h] = "wait" /\ left[h] + Airtime[h] >= Timeout[h] + air[h]
          <6>1. left'[h] > 0
            <7>1. Airtime[h] < Timeout[h]
              BY FrameAssumption
            <7>2. QED
              BY <2>0, <2>1, <2>2, <4>1, <5>1, <5>3, <7>1
          <6>2. QED
            BY <1>1, <4>3, <5>3, <6>1 DEF KeptFrom
        <5>4. QED
          BY <4>1, <4>3, <5>2, <5>3 DEF OwnFrame
      <4>4. QED
        BY <4>2, <4>3
    <3>3. CASE air[h] = 0
      <4>1. Audible(h) # {} /\ left'[h] = asked[h]
        BY <2>2, <3>1, <3>3 DEF Audible
      <4>2. CASE air[t] = Airtime[t]
        <5>1. /\ reader[h] = "receive" /\ left[h] > 0
              /\ IF h \in Threaded THEN from[h] \in {t, Noise} ELSE from[h] = t
          BY <2>7, <3>1, <3>3, <4>2, GetsUnderWay
        <5>2. QED
          BY <1>1, <2>1, <4>1, <5>1 DEF KeptFrom, ReaderHolds
      <4>3. CASE air[t] # Airtime[t]
        <5>1. KeptFrom(h, t)
          BY <2>0, <2>1, <2>7, <3>1, <3>3, <4>3 DEF Senses, UnderWay
        <5>2. CASE h \in Threaded
          <6>1. CASE /\ ReaderHolds(h) /\ left[h] > 0
                     /\ reader[h] = "receive" => from[h] \in {t, Noise}
            BY <1>1, <2>1, <4>1, <5>2, <6>1 DEF KeptFrom, ReaderHolds
          <6>2. CASE writer[h] # "prepared" /\ since[h] + air[t] < Airtime[h] + Airtime[t]
            <7>1. since'[h] + air'[t] < Airtime[h] + Airtime[t]
              BY <2>0, <2>1, <2>2, <3>1, <6>2
            <7>2. QED
              BY <1>1, <5>2, <6>2, <7>1 DEF KeptFrom
          <6>3. QED
            BY <5>1, <5>2, <6>1, <6>2 DEF KeptFrom
        <5>3. CASE h \notin Threaded
          BY <1>1, <2>1, <4>1, <5>1, <5>3 DEF KeptFrom
        <5>4. QED
          BY <5>2, <5>3
      <4>4. QED
        BY <4>2, <4>3
    <3>4. QED
      BY <2>1, <3>2, <3>3
  <2>8. QED
    BY <1>1, <2>4, <2>5, <2>6, <2>7 DEF Senses
<1>5. IInv'
  BY TickStep DEF SInv
<1>6. QED
  BY <1>3, <1>4, <1>5 DEF SInv

(***************************************************************************)
(* What a station senses of the air is as SInv says at all times.          *)
(***************************************************************************)
THEOREM CarrierInvariance == Spec => []SInv
<1>1. SInv /\ [Next]_vars => SInv'
  <2> SUFFICES ASSUME SInv, [Next]_vars PROVE SInv'
    OBVIOUS
  <2>1. CASE UNCHANGED vars
    <3>1. IInv'
      BY <2>1 DEF vars, line, SInv, IInv, TypeOK, KeepsGap
    <3>2. FramesOK'
      BY <2>1 DEF vars, line, SInv, FramesOK
    <3>3. ASSUME NEW h \in Station PROVE Senses(h)'
      BY <2>1, LeftAlone DEF vars, line, SInv
    <3>4. QED
      BY <3>1, <3>2, <3>3 DEF SInv
  <2>2. CASE Next
    BY <2>2, SenseBegin, SensePrepare, SenseSent, SenseHear, SenseLock, SenseReceive,
       SenseHoldoffEnds, SenseTick DEF Next
  <2>3. QED
    BY <2>1, <2>2
<1>2. QED
  BY SenseInitially, <1>1, PTL DEF Spec

(* A station that begins has read nothing, or its reader waits for the     *)
(* mutex.                                                                  *)
LEMMA HasNotRead ==
    ASSUME SInv, NEW s \in Station, LoopSends(s) \/ WriterSends(s), from[s] # None
    PROVE  s \in Threaded /\ reader[s] = "started"
<1>1. reader[s] \in {"started", "receive"}
  BY Values DEF SInv, IInv, TypeOK
<1>2. CASE LoopSends(s)
  BY <1>1, <1>2 DEF LoopSends
<1>3. CASE WriterSends(s)
  BY <1>1, <1>3 DEF WriterSends, ReaderHolds
<1>4. QED
  BY <1>2, <1>3

(***************************************************************************)
(* While nothing has collided around it, no station begins to send into a  *)
(* frame that it could hear, but in the instant in which that begins; and  *)
(* then it has read nothing of it, or is threaded, and its reader has read *)
(* the start and not yet locked the mutex (chatter.c:3, tvirtloc.c:58-59). *)
(***************************************************************************)
THEOREM Carrier == Spec => CarrierSensed
<1> DEFINE Keeps(s) ==
        Begins(s) /\ ~jammed[s] =>
            \A t \in OnAir(s) :
                /\ air[t] = Airtime[t]
                /\ from[s] # None => s \in Threaded /\ reader[s] = "started"
<1>1. ASSUME SInv, [Next]_vars PROVE [\A s \in Station : Keeps(s)]_vars
  <2>1. CASE UNCHANGED vars
    BY <2>1
  <2>2. CASE Next
    <3> SUFFICES ASSUME NEW s \in Station, Begins(s), ~jammed[s], NEW t \in OnAir(s)
                 PROVE  /\ air[t] = Airtime[t]
                        /\ from[s] # None => s \in Threaded /\ reader[s] = "started"
      OBVIOUS
    <3>1. LoopSends(s) \/ WriterSends(s)
      BY <1>1, <2>2, OnlyTheyBegin DEF SInv
    <3>2. t \in Station /\ air[t] \in Nat /\ air[t] > 0 /\ air[t] <= Airtime[t] /\ since[s] \in Nat
          /\ Airtime[t] \in Nat
      BY <1>1, Values, Times DEF OnAir
    <3>3. ASSUME air[t] # Airtime[t] PROVE FALSE
      <4>1. t \in UnderWay(s)
        BY <3>2, <3>3 DEF UnderWay
      <4>2. KeptFrom(s, t) /\ Senses(s)
        BY <1>1, <4>1 DEF Begins, SInv, Senses
      <4>3. CASE LoopSends(s)
        BY <4>2, <4>3 DEF LoopSends, KeptFrom
      <4>4. CASE WriterSends(s)
        BY <4>2, <4>4 DEF WriterSends, KeptFrom
      <4>5. QED
        BY <3>1, <4>3, <4>4
    <3>4. QED
      BY <1>1, <3>1, <3>3, HasNotRead
  <2>3. QED
    BY <1>1, <2>1, <2>2
<1>2. QED
  BY CarrierInvariance, <1>1, PTL DEF Spec, CarrierSensed

-----------------------------------------------------------------------------
(* A wait of the inner loop is no longer than TIMEOUT, and without a packet*)
(* it ends with TIMEOUT.                                                   *)
LEMMA WaitIsShort ==
    ASSUME TypeOK, NEW h \in Station, NEW outcome, NEW wait \in Waits(h, outcome)
    PROVE  /\ wait <= Timeout[h]
           /\ outcome = "none" => wait = 0 \/ wait = Timeout[h] - since[h]
<1> DEFINE timeout == Timeout[h] - since[h]
<1>1. /\ timeout \in Int /\ timeout <= Timeout[h] /\ 0 \in Int
      /\ Timeout[h] \in Nat /\ HoldoffMax[h] <= Timeout[h]
  BY Times DEF TypeOK
<1>2. CASE outcome # "none" /\ timeout < HoldoffMax[h]
  <2>1. PICK holdoff \in Holdoff(h) : wait = Max({timeout, holdoff})
    BY <1>2 DEF Waits
  <2>2. holdoff \in Int /\ holdoff < HoldoffMax[h] /\ HoldoffMax[h] \in Nat
    BY Times
  <2>3. Max({timeout, holdoff}) \in {timeout, holdoff}
    BY <1>1, <2>2, MaxOfTwo, Zenon
  <2>4. QED
    BY <1>1, <1>2, <2>1, <2>2, <2>3
<1>3. CASE ~(outcome # "none" /\ timeout < HoldoffMax[h])
  <2>1. wait = Max({timeout, 0})
    BY <1>3 DEF Waits
  <2>2. Max({timeout, 0}) \in {timeout, 0}
    BY <1>1, MaxOfTwo, Zenon
  <2>3. QED
    BY <1>1, <2>1, <2>2
<1>4. QED
  BY <1>2, <1>3

(* A station whose clocks, threads and waits are left alone stays patient. *)
LEMMA StaysPatient ==
    ASSUME NEW t \in Station, Patient(t), Fresh(t) => Fresh(t)',
           silent'[t] = silent[t], since'[t] = since[t], writer'[t] = writer[t],
           reader'[t] = reader[t], asked'[t] = asked[t], left'[t] = left[t],
           from'[t] = from[t] \/ from'[t] \notin Station
    PROVE  Patient(t)'
<1>1. Limits(t)' /\ (Waiting(t) => Waiting(t)')
  BY DEF Patient, Limits, Waiting
<1>2. QED
  BY <1>1 DEF Patient

(* Nobody has been silent for long when it has just begun (Init).          *)
LEMMA PatientInitially == Init => PInv
<1> SUFFICES ASSUME Init PROVE PInv
  OBVIOUS
<1>1. SpeaksUp
  BY Times DEF Init, SpeaksUp
<1>2. ASSUME NEW s \in Station PROVE Patient(s)
  BY Times DEF Init, Patient, Limits, Waiting
<1>3. QED
  BY <1>1, <1>2, SenseInitially DEF PInv

(* The clocks that only Begin and Tick move.                               *)
LEMMA SpeaksOn ==
    ASSUME SpeaksUp, since' = since, silent' = silent
    PROVE  SpeaksUp'
BY DEF SpeaksUp

(* A station that begins to send is not silent, and its frame is fresh.    *)
LEMMA PatientBegin ==
    ASSUME PInv, NEW s \in Station, LoopSends(s) \/ WriterSends(s)
    PROVE  PInv'
<1>1. Begin(s) /\ (s \in Threaded => reader[s] \notin {"receive", "holdoff"})
      /\ (s \notin Threaded => reader[s] = "wait")
  BY DEF LoopSends, WriterSends, ReaderHolds
<1>2. /\ since'[s] = 0 /\ silent'[s] = 0 /\ writer'[s] = "send"
      /\ reader' = reader /\ left' = left /\ asked' = asked
      /\ \A t \in Station \ {s} : /\ since'[t] = since[t] /\ silent'[t] = silent[t]
                                  /\ writer'[t] = writer[t]
                                  /\ from'[t] = from[t] \/ from'[t] = Noise
  BY <1>1 DEF Begin, line, PInv, SInv, IInv, TypeOK, FramesOK
<1>3. SpeaksUp'
  BY <1>2, Times DEF PInv, SpeaksUp
<1>4. ASSUME NEW t \in Station PROVE Patient(t)'
  <2>1. CASE t = s
    <3>1. left[s] \in Nat /\ asked[s] \in Nat /\ left[s] <= asked[s] /\ Limits(s)
      BY Values DEF PInv, Patient
    <3>2. Limits(s)'
      BY <1>2, <3>1 DEF Limits
    <3>3. Waiting(s)'
      BY <1>1, <1>2, <3>1, Times DEF Limits, Waiting
    <3>4. QED
      BY <1>2, <2>1, <3>2, <3>3 DEF Patient
  <2>2. CASE t # s
    <3>1. Fresh(t) => Fresh(t)'
      <4>1. ASSUME NEW u \in OnAir(t), air[u] = Airtime[u]
            PROVE  u \in OnAir(t)' /\ air'[u] = Airtime[u]
        <5>1. u \in Station /\ Airtime[u] \in Nat /\ Airtime[u] > 0
          BY Times DEF OnAir
        <5>2. air'[u] = air[u] \/ air'[u] = Airtime[u]
          BY <1>1, <5>1 DEF Begin, PInv, SInv, IInv, TypeOK
        <5>3. QED
          BY <4>1, <5>1, <5>2 DEF OnAir
      <4>2. QED
        BY <4>1 DEF Fresh
    <3>2. Noise \notin Station
      BY StationAssumption
    <3>3. QED
      BY <1>2, <2>2, <3>1, <3>2, StaysPatient DEF PInv
  <2>3. QED
    BY <2>1, <2>2
<1>5. QED
  BY <1>3, <1>4, SenseBegin DEF PInv

(* A writer makes its packet: it need not be silent for that.              *)
LEMMA PatientPrepare ==
    ASSUME PInv, NEW s \in Station, Prepare(s)
    PROVE  PInv'
<1>1. /\ s \in Threaded /\ writer'[s] = "prepared"
      /\ since' = since /\ silent' = silent /\ reader' = reader /\ left' = left
      /\ asked' = asked /\ from' = from /\ air' = air
      /\ \A t \in Station \ {s} : writer'[t] = writer[t]
  BY DEF Prepare, line, PInv, SInv, IInv, TypeOK
<1>2. ASSUME NEW t \in Station PROVE Patient(t)'
  <2>1. Fresh(t)' = Fresh(t)
    BY <1>1 DEF Fresh, OnAir
  <2>2. CASE t = s
    BY <1>1, <2>1, <2>2 DEF PInv, Patient, Limits, Waiting
  <2>3. CASE t # s
    BY <1>1, <2>1, <2>3, StaysPatient DEF PInv
  <2>4. QED
    BY <2>2, <2>3
<1>3. QED
  BY <1>1, <1>2, SpeaksOn, SensePrepare DEF PInv

(* A loop that has sent begins to wait when its silence begins.            *)
LEMMA PatientSent ==
    ASSUME PInv, NEW s \in Station, Sent(s)
    PROVE  PInv'
<1>1. /\ writer[s] = "send" /\ writer'[s] = "sleep"
      /\ s \in Threaded => asked'[s] = asked[s] /\ left'[s] = left[s]
      /\ s \notin Threaded =>
            asked'[s] = Timeout[s] /\ left'[s] = Timeout[s] /\ reader[s] = "wait"
      /\ since' = since /\ silent' = silent /\ reader' = reader
      /\ from' = from /\ air' = air
      /\ \A t \in Station \ {s} : /\ writer'[t] = writer[t] /\ left'[t] = left[t]
                                  /\ asked'[t] = asked[t]
  BY DEF Sent, PInv, SInv, IInv, TypeOK
<1>2. ASSUME NEW t \in Station PROVE Patient(t)'
  <2>1. Fresh(t)' = Fresh(t)
    BY <1>1 DEF Fresh, OnAir
  <2>2. CASE t = s
    <3>1. silent[s] = 0 /\ Patient(s) /\ Timeout[s] \in Nat
      BY <1>1, Times DEF PInv, Patient
    <3>2. CASE s \in Threaded
      BY <1>1, <2>1, <2>2, <3>1, <3>2 DEF Patient, Limits, Waiting
    <3>3. CASE s \notin Threaded
      BY <1>1, <2>1, <2>2, <3>1, <3>3 DEF Patient, Limits, Waiting
    <3>4. QED
      BY <3>2, <3>3
  <2>3. CASE t # s
    BY <1>1, <2>1, <2>3, StaysPatient DEF PInv
  <2>4. QED
    BY <2>2, <2>3
<1>3. QED
  BY <1>1, <1>2, SpeaksOn, SenseSent DEF PInv

(* What is heard begins at this instant, and is received with a time-out.  *)
LEMMA PatientHear ==
    ASSUME PInv, NEW h \in Station, Hear(h)
    PROVE  PInv'
<1>1. /\ since' = since /\ silent' = silent /\ writer' = writer /\ air' = air
      /\ reader'[h] \in {"started", "receive"}
      /\ asked'[h] = IF h \in Chatter THEN asked[h] ELSE RecvTimeout
      /\ writer[h] # "send"
      /\ h \notin Threaded => left[h] > 0
      /\ \A t \in Station \ {h} : /\ reader'[t] = reader[t] /\ left'[t] = left[t]
                                  /\ asked'[t] = asked[t] /\ from'[t] = from[t]
  BY DEF Hear, Listening, PInv, SInv, IInv, TypeOK, FramesOK, Senses, OneThread
<1>2. Fresh(h)
  BY DEF Hear, Starting, Audible, Fresh
<1>3. ASSUME NEW t \in Station PROVE Patient(t)'
  <2>1. Fresh(t)' = Fresh(t)
    BY <1>1 DEF Fresh, OnAir
  <2>2. CASE t = h
    <3>1. /\ left[h] \in Nat /\ asked[h] \in Nat /\ left[h] <= asked[h]
          /\ Patient(h) /\ Limits(h)
      BY Values DEF PInv, Patient
    <3>2. RecvTimeout \in Nat /\ RecvTimeout > 0 /\ Timeout[h] \in Nat
          /\ HoldoffMax[h] \in Nat /\ RecvTimeout + HoldoffMax[h] <= Timeout[h]
      BY Times
    <3>3. h \in Threaded => h \notin Chatter
      BY StationAssumption
    <3>4. Limits(h)'
      BY <1>1, <3>1, <3>2, <3>3 DEF Limits
    <3>5. QED
      BY <1>1, <1>2, <2>1, <2>2, <3>1, <3>4 DEF Patient
  <2>3. CASE t # h
    BY <1>1, <2>1, <2>3, StaysPatient DEF PInv
  <2>4. QED
    BY <2>2, <2>3
<1>4. QED
  BY <1>1, <1>3, SpeaksOn, SenseHear DEF PInv

(* The reader locks the mutex: its time-out is that of recv_packet.        *)
LEMMA PatientLock ==
    ASSUME PInv, NEW h \in Station, ReaderLocks(h)
    PROVE  PInv'
<1>1. /\ reader[h] = "started" /\ reader'[h] = "receive" /\ h \in Threaded
      /\ air' = air /\ writer' = writer /\ since' = since /\ silent' = silent
      /\ left' = left /\ asked' = asked /\ from' = from
      /\ \A t \in Station \ {h} : reader'[t] = reader[t]
  BY DEF ReaderLocks, line, PInv, SInv, IInv, TypeOK, Senses, OneThread
<1>2. ASSUME NEW t \in Station PROVE Patient(t)'
  <2>1. Fresh(t)' = Fresh(t)
    BY <1>1 DEF Fresh, OnAir
  <2>2. CASE t = h
    BY <1>1, <2>1, <2>2 DEF PInv, Patient, Limits, Waiting
  <2>3. CASE t # h
    BY <1>1, <2>1, <2>3, StaysPatient DEF PInv
  <2>4. QED
    BY <2>2, <2>3
<1>3. QED
  BY <1>1, <1>2, SpeaksOn, SenseLock DEF PInv

(* The next wait of a loop ends with TIMEOUT, or there was no silence yet; *)
(* that of a reader is a holdoff.                                          *)
LEMMA PatientReceive ==
    ASSUME PInv, NEW h \in Station, Receive(h)
    PROVE  PInv'
<1>1. PICK outcome \in Outcomes(h) :
          \E wait \in IF h \in Threaded THEN Holdoff(h) ELSE Waits(h, outcome) :
              /\ asked' = [asked EXCEPT ![h] = wait]
              /\ left' = [left EXCEPT ![h] = wait]
  BY DEF Receive
<1>2. PICK wait \in IF h \in Threaded THEN Holdoff(h) ELSE Waits(h, outcome) :
          /\ asked' = [asked EXCEPT ![h] = wait]
          /\ left' = [left EXCEPT ![h] = wait]
  BY <1>1
<1>3. /\ reader[h] = "receive" /\ reader'[h] = IF h \in Threaded THEN "holdoff" ELSE "wait"
      /\ air' = air /\ writer' = writer /\ since' = since /\ silent' = silent
      /\ from'[h] = None /\ left'[h] = wait /\ asked'[h] = wait
      /\ \A t \in Station \ {h} : /\ reader'[t] = reader[t] /\ from'[t] = from[t]
                                  /\ left'[t] = left[t] /\ asked'[t] = asked[t]
  BY <1>2 DEF Receive, PInv, SInv, IInv, TypeOK, FramesOK
<1>4. /\ left[h] \in Nat /\ asked[h] \in Nat /\ since[h] \in Nat /\ silent[h] \in Nat
      /\ Timeout[h] \in Nat /\ RecvTimeout \in Nat /\ HoldoffMax[h] \in Nat
      /\ None \notin Station /\ None # Noise
  BY Values, Times, StationAssumption DEF PInv, SInv, IInv, TypeOK
<1>5. CASE h \in Threaded
  <2>1. wait \in Nat /\ wait < HoldoffMax[h]
    BY <1>2, <1>5, Times
  <2>2. Limits(h)'
    BY <1>3, <1>5, <2>1 DEF Limits
  <2>3. Waiting(h) => Waiting(h)'
    BY <1>3, <1>4, <1>5, <2>1 DEF Waiting
  <2>4. QED
    <3>1. Patient(h)'
      <4>1. Fresh(h)' = Fresh(h)
        BY <1>3 DEF Fresh, OnAir
      <4>2. QED
        BY <1>3, <1>5, <2>2, <2>3, <4>1 DEF PInv, Patient
    <3>2. ASSUME NEW t \in Station, t # h PROVE Patient(t)'
      <4>1. Fresh(t)' = Fresh(t)
        BY <1>3 DEF Fresh, OnAir
      <4>2. QED
        BY <1>3, <3>2, <4>1, StaysPatient DEF PInv
    <3>3. QED
      BY <1>3, <3>1, <3>2, SpeaksOn, SenseReceive DEF PInv
<1>6. CASE h \notin Threaded
  <2>1. /\ wait \in Nat /\ wait <= Timeout[h]
        /\ outcome = "none" => wait = 0 \/ wait = Timeout[h] - since[h]
    BY <1>2, <1>6, WaitIsLong, WaitIsShort DEF PInv, SInv, IInv
  <2>2. Limits(h)'
    BY <1>3, <1>6, <2>1 DEF Limits
  <2>3. writer[h] = "sleep"
    BY <1>3, <1>6 DEF PInv, SInv, IInv, TypeOK, Senses, OneThread
  <2>4. ASSUME ~Fresh(h) PROVE Waiting(h)'
    <3>1. /\ silent[h] <= since[h] /\ silent[h] + left[h] <= Timeout[h]
          /\ left[h] = asked[h] => silent[h] = 0
          /\ from[h] \in Station => silent[h] = 0
      BY <1>3, <1>6, <2>3, <2>4 DEF PInv, Patient, Waiting
    <3>2. from[h] # None /\ from[h] \in Station \union {None, Noise}
      BY <1>3, Values DEF PInv
    <3>3. outcome = "none" \/ silent[h] = 0
      BY <1>1, <3>1, <3>2 DEF Outcomes
    <3>4. silent[h] + wait <= Timeout[h]
      BY <1>4, <2>1, <3>1, <3>3
    <3>5. QED
      BY <1>3, <1>6, <3>4 DEF Waiting
  <2>5. Patient(h)'
    <3>1. Fresh(h)' = Fresh(h)
      BY <1>3 DEF Fresh, OnAir
    <3>2. silent[h] <= since[h] /\ (writer[h] = "send" => silent[h] = 0)
      BY DEF PInv, Patient
    <3>3. QED
      BY <1>3, <1>4, <1>6, <2>2, <2>4, <3>1, <3>2 DEF Patient
  <2>6. ASSUME NEW t \in Station, t # h PROVE Patient(t)'
    <3>1. Fresh(t)' = Fresh(t)
      BY <1>3 DEF Fresh, OnAir
    <3>2. QED
      BY <1>3, <2>6, <3>1, StaysPatient DEF PInv
  <2>7. QED
    BY <1>3, <2>5, <2>6, SpeaksOn, SenseReceive DEF PInv
<1>7. QED
  BY <1>5, <1>6

(* The reader leaves its holdoff, and the writer may send.                 *)
LEMMA PatientHoldoffEnds ==
    ASSUME PInv, NEW h \in Station, HoldoffEnds(h)
    PROVE  PInv'
<1>1. /\ reader[h] = "holdoff" /\ reader'[h] = "wait" /\ h \in Threaded
      /\ air' = air /\ writer' = writer /\ since' = since /\ silent' = silent
      /\ left' = left /\ from' = from
      /\ \A t \in Station \ {h} : reader'[t] = reader[t] /\ asked'[t] = asked[t]
  BY DEF HoldoffEnds, PInv, SInv, IInv, TypeOK, Senses, OneThread
<1>2. ASSUME NEW t \in Station PROVE Patient(t)'
  <2>1. Fresh(t)' = Fresh(t)
    BY <1>1 DEF Fresh, OnAir
  <2>2. CASE t = h
    BY <1>1, <2>1, <2>2 DEF PInv, Patient, Limits, Waiting
  <2>3. CASE t # h
    BY <1>1, <2>1, <2>3, StaysPatient DEF PInv
  <2>4. QED
    BY <2>2, <2>3
<1>3. QED
  BY <1>1, <1>2, SpeaksOn, SenseHoldoffEnds DEF PInv

(* What a tick does to the silence of one station.                         *)
LEMMA TickOfSilence ==
    ASSUME PInv, Tick, NEW s \in Station
    PROVE  /\ silent[s] \in Nat /\ since[s] \in Nat /\ silent'[s] \in Nat /\ since'[s] \in Nat
           /\ air[s] > 0 \/ Audible(s) # {} => silent'[s] = 0
           /\ silent'[s] <= silent[s] + 1
           /\ writer[s] # "send" =>
                 since'[s] = IF since[s] >= Timeout[s] THEN Timeout[s] + 1 ELSE since[s] + 1
           /\ silent'[s] <= Timeout[s] + 1
<1>1. silent[s] \in Nat /\ since[s] \in Nat /\ Timeout[s] \in Nat
  BY Times DEF PInv, SInv, IInv, TypeOK
<1>2. /\ silent'[s] = IF air[s] > 0 \/ Audible(s) # {} THEN 0
                       ELSE Min({silent[s] + 1, Timeout[s] + 1})
      /\ since'[s] = IF writer[s] = "send" THEN 0 ELSE Min({since[s] + 1, Timeout[s] + 1})
  BY DEF Tick
<1>3. \A n \in Nat : LET m == Min({n + 1, Timeout[s] + 1})
                    IN  /\ m \in {n + 1, Timeout[s] + 1}
                        /\ m <= n + 1 /\ m <= Timeout[s] + 1
  <2> SUFFICES ASSUME NEW n \in Nat
               PROVE  LET m == Min({n + 1, Timeout[s] + 1})
                      IN  /\ m \in {n + 1, Timeout[s] + 1}
                          /\ m <= n + 1 /\ m <= Timeout[s] + 1
    OBVIOUS
  <2>1. n + 1 \in Int /\ Timeout[s] + 1 \in Int
    BY <1>1
  <2>2. QED
    BY <2>1, MinOfTwo, Zenon
<1>4. /\ Min({silent[s] + 1, Timeout[s] + 1}) \in Nat
      /\ Min({silent[s] + 1, Timeout[s] + 1}) <= silent[s] + 1
      /\ Min({silent[s] + 1, Timeout[s] + 1}) <= Timeout[s] + 1
  BY <1>1, <1>3
<1>5. Min({since[s] + 1, Timeout[s] + 1})
        = IF since[s] >= Timeout[s] THEN Timeout[s] + 1 ELSE since[s] + 1
  BY <1>1, <1>3
<1>6. QED
  BY <1>1, <1>2, <1>4, <1>5

(***************************************************************************)
(* A tick: nobody has anything to do, so that no wait is over, no writer   *)
(* may send, and no loop is in a frame that has ended.                     *)
(***************************************************************************)
LEMMA PatientTick ==
    ASSUME PInv, Tick
    PROVE  PInv'
<1>1. reader' = reader /\ writer' = writer /\ asked' = asked /\ from' = from
  BY DEF Tick
<1>2. ASSUME NEW s \in Station
      PROVE  /\ Patient(s)'
             /\ since'[s] > Timeout[s] =>
                    silent'[s] < IF s \in Threaded THEN RecvTimeout + HoldoffMax[s]
                                 ELSE Timeout[s] + 1
  <2>1. /\ left[s] \in Nat /\ asked[s] \in Nat /\ left'[s] \in Nat /\ left'[s] <= asked[s]
        /\ air[s] \in Nat /\ left[s] <= asked[s]
    <3>1. SInv'
      BY SenseTick DEF PInv
    <3>2. left'[s] \in Nat /\ left'[s] <= asked'[s]
      BY <3>1 DEF SInv, IInv, TypeOK, FramesOK
    <3>3. QED
      BY <1>1, <3>2, Values DEF PInv
  <2>2. /\ RecvTimeout \in Nat /\ RecvTimeout > 0 /\ Timeout[s] \in Nat
        /\ HoldoffMax[s] \in Nat /\ Timeout[s] > 0
    BY Times
  <2>3. Limits(s)'
    BY <1>1 DEF PInv, Patient, Limits
  <2>4. CASE air[s] > 0 \/ Audible(s) # {}
    <3>1. silent'[s] = 0 /\ since'[s] \in Nat
      BY <2>4, TickOfSilence
    <3>2. Waiting(s)'
      BY <1>1, <2>1, <2>2, <2>3, <3>1 DEF Limits, Waiting
    <3>3. QED
      BY <2>2, <2>3, <3>1, <3>2 DEF Patient
  <2>5. CASE air[s] = 0 /\ Audible(s) = {}
    <3>1. ~Busy(s) /\ OnAir(s) = {}
      BY <2>5 DEF Tick, Audible
    <3>2. writer[s] # "send"
      BY <2>5, <3>1 DEF Busy
    <3>3. writer[s] \in {"sleep", "prepared"} /\ Senses(s)
          /\ reader[s] \in {"wait", "started", "receive", "holdoff"}
      BY <3>2 DEF PInv, SInv, IInv, TypeOK
    <3>4. /\ silent[s] <= since[s]
          /\ Waiting(s)
          /\ s \notin Threaded => (from[s] \in Station => silent[s] = 0)
      BY <3>1 DEF PInv, Patient, Fresh
    <3>5. reader[s] # "started" /\ (reader[s] \in {"receive", "holdoff"} => left[s] > 0)
      BY <2>1, <3>1, <3>2 DEF Busy
    <3>6. s \notin Threaded =>
            writer[s] = "sleep" /\ reader[s] \in {"wait", "receive"} /\ left[s] > 0
      BY <2>1, <3>1, <3>3, <3>5 DEF Busy, Senses, OneThread
    <3>7. left[s] > 0 => left'[s] = left[s] - 1
      <4> SUFFICES ASSUME left[s] > 0 PROVE left'[s] = left[s] - 1
        OBVIOUS
      <4>1. left'[s] = Max({left[s] - 1, 0})
        BY <2>5 DEF Tick
      <4>2. left[s] - 1 \in Int /\ 0 \in Int
        BY <2>1
      <4>3. Max({left[s] - 1, 0}) \in {left[s] - 1, 0} /\ Max({left[s] - 1, 0}) >= left[s] - 1
        BY <4>2, MaxOfTwo, Zenon
      <4>4. QED
        BY <2>1, <4>1, <4>3
    <3>8. /\ silent[s] \in Nat /\ since[s] \in Nat /\ silent'[s] \in Nat
          /\ silent'[s] <= silent[s] + 1 /\ silent'[s] <= Timeout[s] + 1
          /\ since'[s] = IF since[s] >= Timeout[s] THEN Timeout[s] + 1 ELSE since[s] + 1
      BY <3>2, TickOfSilence
    <3>9. silent'[s] <= since'[s]
      BY <2>2, <3>4, <3>8
    <3>10. Waiting(s)'
      BY <1>1, <2>1, <2>2, <3>4, <3>5, <3>6, <3>7, <3>8 DEF Waiting
    <3>11. ASSUME s \notin Threaded
           PROVE  from[s] \notin Station /\ ~(reader[s] = "receive" /\ left'[s] = asked[s])
      <4>1. ~(reader[s] = "receive" /\ left'[s] = asked[s])
        BY <2>1, <3>5, <3>7
      <4>2. ASSUME from[s] \in Station PROVE FALSE
        <5>1. /\ <<from[s], s>> \in Hears /\ air[from[s]] \in Nat /\ from[s] # Noise
              /\ reader[s] = "receive"
          BY <3>6, <3>11, <4>2, Values, StationAssumption DEF PInv
        <5>2. air[from[s]] = 0
          BY <3>1, <4>2, <5>1 DEF OnAir
        <5>3. Outcomes(s) = {"packet"}
          BY <3>5, <5>1, <5>2 DEF Outcomes
        <5>4. QED
          BY <3>1, <5>1, <5>3 DEF Busy
      <4>3. QED
        BY <4>1, <4>2
    <3>12. Patient(s)'
      BY <1>1, <2>3, <3>2, <3>9, <3>10, <3>11 DEF Patient
    <3>13. ASSUME since'[s] > Timeout[s], s \in Threaded
           PROVE  silent'[s] < RecvTimeout + HoldoffMax[s]
      <4>1. since[s] >= Timeout[s]
        BY <2>2, <3>8, <3>13
      <4>2. ReaderHolds(s)
        BY <3>1, <3>3, <3>13, <4>1 DEF Busy
      <4>3. left[s] > 0 /\ silent[s] + left[s] < RecvTimeout + HoldoffMax[s]
        <5>1. HoldoffMax[s] > 0
          BY Times
        <5>2. QED
          BY <2>1, <2>2, <3>4, <3>5, <3>8, <3>13, <4>2, <5>1 DEF ReaderHolds, Waiting
      <4>4. QED
        BY <2>1, <2>2, <3>8, <4>3
    <3>14. ASSUME s \notin Threaded PROVE silent'[s] < Timeout[s] + 1
      <4>1. left[s] > 0 /\ silent[s] + left[s] <= Timeout[s]
        BY <3>4, <3>6, <3>14 DEF Waiting
      <4>2. QED
        BY <2>1, <2>2, <3>8, <4>1
    <3>15. QED
      BY <3>12, <3>13, <3>14
  <2>6. QED
    BY <2>1, <2>4, <2>5
<1>3. QED
  BY <1>2, SenseTick DEF PInv, SpeaksUp

(***************************************************************************)
(* How long a station can have been silent, in each place of its threads.  *)
(***************************************************************************)
THEOREM Patience == Spec => []PInv
<1>1. PInv /\ [Next]_vars => PInv'
  <2> SUFFICES ASSUME PInv, [Next]_vars PROVE PInv'
    OBVIOUS
  <2>1. CASE UNCHANGED vars
    <3>1. SInv'
      <4>1. SInv
        BY DEF PInv
      <4>2. IInv'
        BY <2>1, <4>1 DEF vars, line, SInv, IInv, TypeOK, KeepsGap
      <4>3. FramesOK'
        BY <2>1, <4>1 DEF vars, line, SInv, FramesOK
      <4>4. ASSUME NEW h \in Station PROVE Senses(h)'
        BY <2>1, <4>1, LeftAlone DEF vars, line, SInv
      <4>5. QED
        BY <4>2, <4>3, <4>4 DEF SInv
    <3>2. ASSUME NEW t \in Station PROVE Patient(t)'
      <4>1. Fresh(t)' = Fresh(t)
        BY <2>1 DEF vars, Fresh, OnAir
      <4>2. QED
        BY <2>1, <4>1, StaysPatient DEF vars, line, PInv
    <3>3. QED
      BY <2>1, <3>1, <3>2, SpeaksOn DEF vars, PInv
  <2>2. CASE Next
    BY <2>2, PatientBegin, PatientPrepare, PatientSent, PatientHear, PatientLock,
       PatientReceive, PatientHoldoffEnds, PatientTick DEF Next
  <2>3. QED
    BY <2>1, <2>2
<1>2. QED
  BY PatientInitially, <1>1, PTL DEF Spec

(***************************************************************************)
(* A station that is overdue has heard something within a time-out of      *)
(* recv_packet and a holdoff, or, if it is a loop, within TIMEOUT: nothing *)
(* but what the others send puts it off (virtloc.c:66-84, tvirtloc.c:      *)
(* 58-75).                                                                 *)
(***************************************************************************)
THEOREM Speaks == Spec => []SpeaksUp
<1>1. PInv => SpeaksUp
  BY DEF PInv
<1>2. QED
  BY Patience, <1>1, PTL
=============================================================================
