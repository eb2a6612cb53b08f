-------------------------- MODULE NeighboursProofs --------------------------
(***************************************************************************)
(* Proofs about Neighbours, for every network, with or without loss.       *)
(***************************************************************************)
EXTENDS Neighbours, TLAPS

USE LinkAssumption, RootsAssumption
USE DEF Asleep, Waking, Awake, Root, Inf, Unknown

(* What an insertion leaves is what was there or what was inserted: a node *)
(* that is in the table is not removed from it.                            *)
LEMMA MergeFacts ==
    ASSUME NEW old \in Strata, NEW s \in Strata
    PROVE  /\ Merge(old, s) \in {old, s}
BY DEF Strata, Merge

(***************************************************************************)
(* A beacon that keeps its sender's promises offers its hearer only what   *)
(* keeps the hearer's.  The hearer's own id in the beacon shows that the   *)
(* sender hears it, so the link it came by works both ways.                *)
(***************************************************************************)
LEMMA OfferFacts ==
    ASSUME NEW b \in Beacon, NEW m \in Node, NEW s \in Offers(b, m),
           <<b.src, b.dst>> \in Link,
           \A e \in b.heard : Promise(b.src, e.id, e.stratum)
    PROVE  /\ s \in Strata \ {Unknown}
           /\ Promise(b.dst, m, s)
           /\ s = 1 => m = b.src /\ \E e \in b.heard : e.id = b.dst
<1>1. /\ b.src \in Node /\ b.dst \in Node
      /\ \A e \in b.heard : e.id \in Node /\ e.stratum \in {1, 2, Inf}
  BY DEF Beacon, Neigh, Told
<1>2. CASE ~SeenSelf(b)
  BY <1>2 DEF Offers, Strata, Promise
<1>3. CASE SeenSelf(b)
  <2>1. Both(b.dst, b.src)
    BY <1>1, <1>3 DEF SeenSelf, Promise, Both
  <2>2. CASE s = 1 /\ m = b.src
    BY <1>3, <2>1, <2>2 DEF Strata, Promise, SeenSelf
  <2>3. CASE \E e \in b.heard : e.id = m /\ e.stratum # Inf /\ s = e.stratum + 1
    <3>1. PICK e \in b.heard : e.id = m /\ e.stratum # Inf /\ s = e.stratum + 1
      BY <2>3
    <3>2. Promise(b.src, m, e.stratum)
      BY <3>1
    <3>3. CASE e.stratum = 1
      BY <1>1, <2>1, <3>1, <3>2, <3>3 DEF Strata, Promise
    <3>4. CASE e.stratum = 2
      <4>1. PICK k \in Node : Both(b.src, k) /\ Both(k, m)
        BY <3>2, <3>4 DEF Promise
      <4>2. s = 3
        BY <3>1, <3>4
      <4> QED
        BY <1>1, <2>1, <4>1, <4>2 DEF Strata, Promise
    <3> QED
      BY <1>1, <3>1, <3>3, <3>4
  <2> QED
    BY <1>3, <2>2, <2>3 DEF Offers
<1> QED
  BY <1>2, <1>3

LEMMA InitIInv == Init => IInv
BY DEF Init, IInv, TypeOK, Status, Strata, PromisesKept, Promise, HeardUs,
       WokenByAwake, AirInv

LEMMA SendStep ==
    ASSUME IInv, NEW n \in Node, NEW s \in Status, NEW heard \in SUBSET Listed(n),
           Send(n, s, heard)
    PROVE  IInv'
<1> USE DEF IInv, TypeOK, Send
<1>1. heard \subseteq Neigh
      /\ \A e \in heard : e.id \in Node /\ stratum[n][e.id] = e.stratum
               /\ e.stratum # Unknown
  BY DEF Listed, Neigh, Told
<1>2. \A b \in air' : \/ b \in air
                      \/ /\ b \in Beacon
                         /\ b.src = n /\ b.status = s /\ b.heard = heard
                         /\ <<n, b.dst>> \in Link
  <2> SUFFICES ASSUME NEW l \in Link, l[1] = n
               PROVE  LET b == [src |-> n, dst |-> l[2], status |-> s, heard |-> heard]
                      IN  /\ b \in Beacon /\ b.src = n /\ b.status = s
                          /\ b.heard = heard /\ <<n, b.dst>> \in Link
    OBVIOUS
  <2>1. l = <<n, l[2]>> /\ l[2] \in Node
    OBVIOUS
  <2> QED
    BY <1>1, <2>1 DEF Beacon
<1>3. TypeOK'
  BY <1>2
<1>4. PromisesKept' /\ HeardUs'
  BY DEF PromisesKept, HeardUs
<1>5. status'[n] = s /\ \A m \in Node : status[m] \in {Awake, Root} => status'[m] \in {Awake, Root}
  OBVIOUS
<1>6. WokenByAwake'
  BY <1>5 DEF WokenByAwake
<1>7. AirInv'
  <2> SUFFICES ASSUME NEW b \in air'
               PROVE  /\ <<b.src, b.dst>> \in Link
                      /\ b.status # Asleep
                      /\ b.status \in {Awake, Root} => status'[b.src] \in {Awake, Root}
                      /\ \A e \in b.heard : /\ Promise(b.src, e.id, e.stratum)
                                             /\ stratum[b.src][e.id] # Unknown
    BY DEF AirInv, Promise
  <2>1. CASE b \in air
    BY <1>5, <2>1 DEF AirInv, Beacon
  <2>2. CASE b.src = n /\ b.status = s /\ b.heard = heard /\ <<n, b.dst>> \in Link
    BY <1>1, <1>5, <2>2 DEF PromisesKept
  <2> QED
    BY <1>2, <2>1, <2>2
<1> QED
  BY <1>3, <1>4, <1>6, <1>7

(***************************************************************************)
(* What a received beacon does to the hearer's table, entry by entry.      *)
(***************************************************************************)
LEMMA ReceiveFacts ==
    ASSUME IInv, NEW b \in air, Receive(b), NEW n \in Node, NEW m \in Node
    PROVE  /\ stratum'[n][m] \in Strata
           /\ Promise(n, m, stratum'[n][m])
           /\ stratum[n][m] # Unknown => stratum'[n][m] # Unknown
           /\ stratum'[n][m] = 1 => stratum[n][m] = 1 \/ stratum[m][n] # Unknown
<1>1. b \in Beacon /\ b.dst \in Node
  BY DEF IInv, TypeOK, Beacon
<1>2. stratum[n][m] \in Strata /\ Promise(n, m, stratum[n][m])
  BY DEF IInv, TypeOK, PromisesKept
<1>3. CASE n # b.dst \/ Offers(b, m) = {}
  <2>1. stratum'[n][m] = stratum[n][m]
    BY <1>1, <1>3 DEF Receive, Updated, IInv, TypeOK
  <2> QED
    BY <1>2, <2>1
<1>4. CASE n = b.dst /\ Offers(b, m) # {}
  <2> DEFINE s == CHOOSE t \in Offers(b, m) : TRUE
  <2>1. s \in Offers(b, m)
    BY <1>4
  <2>2. stratum'[n][m] = Merge(stratum[n][m], s)
    BY <1>1, <1>4 DEF Receive, Updated, IInv, TypeOK
  <2> HIDE DEF s
  <2>3. /\ s \in Strata \ {Unknown} /\ Promise(n, m, s)
        /\ s = 1 => m = b.src /\ \E e \in b.heard : e.id = n
    BY <1>1, <1>4, <2>1, OfferFacts DEF IInv, AirInv
  <2>4. s = 1 => stratum[m][n] # Unknown
    BY <2>3 DEF IInv, AirInv
  <2>5. Merge(stratum[n][m], s) \in {stratum[n][m], s}
    BY <1>2, <2>3, MergeFacts
  <2> QED
    BY <1>2, <2>2, <2>3, <2>4, <2>5
<1> QED
  BY <1>3, <1>4

LEMMA ReceiveStep ==
    ASSUME IInv, NEW b \in air, Receive(b)
    PROVE  IInv'
<1>1. b \in Beacon /\ b.dst \in Node /\ b.src \in Node
  BY DEF IInv, TypeOK, Beacon
<1>2. /\ status' = [status EXCEPT ![b.dst] =
                        IF status[b.dst] = Asleep THEN Waking ELSE status[b.dst]]
      /\ air' = air \ {b} /\ ~Ignored(b)
  BY DEF Receive
<1>3. TypeOK'
  <2>1. stratum' \in [Node -> [Node -> Strata]]
    <3>1. stratum' = [stratum EXCEPT ![b.dst] = Updated(b)]
      BY DEF Receive
    <3>2. stratum \in [Node -> [Node -> Strata]]
      BY DEF IInv, TypeOK
    <3>3. \A n, m \in Node : stratum'[n][m] \in Strata
      BY ReceiveFacts
    <3>4. Updated(b) = [m \in Node |-> Updated(b)[m]]
      BY DEF Updated
    <3>5. \A m \in Node : Updated(b)[m] \in Strata
      BY <1>1, <3>1, <3>2, <3>3
    <3> QED
      BY <1>1, <3>1, <3>2, <3>4, <3>5
  <2> QED
    BY <1>1, <1>2, <2>1 DEF IInv, TypeOK, Status
<1>4. PromisesKept' /\ HeardUs'
  <2>1. PromisesKept'
    BY ReceiveFacts DEF PromisesKept, Promise
  <2>2. HeardUs'
    BY ReceiveFacts DEF IInv, HeardUs
  <2> QED
    BY <2>1, <2>2
<1>5. \A n \in Node : status[n] \in {Awake, Root} => status'[n] \in {Awake, Root}
  BY <1>1, <1>2 DEF IInv, TypeOK
<1>6. WokenByAwake'
  <2> SUFFICES ASSUME NEW n \in Node, status'[n] \in {Waking, Awake}
               PROVE  AwakeOpt \/ \E m \in Node : <<m, n>> \in Link /\ status'[m] \in {Awake, Root}
    BY DEF WokenByAwake
  <2>1. CASE status[n] \in {Waking, Awake}
    BY <1>5, <2>1 DEF IInv, WokenByAwake
  <2>2. CASE status[n] \notin {Waking, Awake}
    <3>1. n = b.dst /\ status[n] = Asleep
      BY <1>1, <1>2, <2>2 DEF IInv, TypeOK, Status
    <3>2. b.status \in {Awake, Root}
      BY <1>1, <1>2, <3>1 DEF Ignored, IInv, AirInv, Beacon, Status
    <3>3. status[b.src] \in {Awake, Root} /\ <<b.src, n>> \in Link
      BY <3>1, <3>2 DEF IInv, AirInv
    <3> QED
      BY <1>1, <1>5, <3>3
  <2> QED
    BY <2>1, <2>2
<1>7. AirInv'
  <2> SUFFICES ASSUME NEW c \in air
               PROVE  /\ <<c.src, c.dst>> \in Link
                      /\ c.status # Asleep
                      /\ c.status \in {Awake, Root} => status'[c.src] \in {Awake, Root}
                      /\ \A e \in c.heard : /\ Promise(c.src, e.id, e.stratum)
                                             /\ stratum'[c.src][e.id] # Unknown
    BY <1>2 DEF AirInv, Promise
  <2>1. c.src \in Node /\ \A e \in c.heard : e.id \in Node
    BY DEF IInv, TypeOK, Beacon, Neigh
  <2> QED
    BY <1>5, <2>1, ReceiveFacts DEF IInv, AirInv
<1> QED
  BY <1>3, <1>4, <1>6, <1>7 DEF IInv

LEMMA OtherStep ==
    ASSUME IInv, (\E b \in air : Ignore(b) \/ Lose(b)) \/ UNCHANGED vars
    PROVE  IInv'
BY DEF IInv, Ignore, Lose, vars, TypeOK, PromisesKept, Promise, HeardUs, WokenByAwake,
       AirInv

-----------------------------------------------------------------------------
(***************************************************************************)
(* In every network, whatever is lost or overtaken, a neighbour listed at  *)
(* stratum 1 can be heard and can hear, strata 2 and 3 are paths over such *)
(* neighbours, who is listed at stratum 1 lists the lister in turn, and    *)
(* behind each node that woke there is an awake one.                       *)
(***************************************************************************)
THEOREM Invariance == Spec => []IInv
<1>1. ASSUME IInv, [Next]_vars
      PROVE  IInv'
  BY <1>1, SendStep, ReceiveStep, OtherStep DEF Next
<1> QED
  BY InitIInv, <1>1, PTL DEF Spec

(* Every table entry keeps its promise about the links.                    *)
THEOREM BidirectionalNeighbours == Spec => []PromisesKept
<1>1. IInv => PromisesKept
  BY DEF IInv
<1> QED
  BY <1>1, Invariance, PTL

(* Nodes are woken by awake nodes.                                         *)
THEOREM Awakening == Spec => []WokenByAwake
<1>1. IInv => WokenByAwake
  BY DEF IInv
<1> QED
  BY <1>1, Invariance, PTL

(* Who is listed as a neighbour has the node that lists it in its table.   *)
THEOREM HeardBack == Spec => []HeardUs
<1>1. IInv => HeardUs
  BY DEF IInv
<1> QED
  BY <1>1, Invariance, PTL
=============================================================================
