------------------------------ MODULE Beacons ------------------------------
(***************************************************************************)
(* radio/serial/beacon.c, the first version of the neighbour protocol:     *)
(* each node keeps a table of the nodes it hears or hears of, switches off *)
(* the entries it has heard nothing about for a time, and beacons what is  *)
(* left.  It is run by the loop of radio/serial/virtloc.c or by the two    *)
(* threads of tvirtloc.c, where the reader may record beacons between the  *)
(* writer's preparing a beacon, under beacon_mutex, and its sending it.    *)
(*                                                                         *)
(* A beacon is heard when it is sent or never: there is one channel, whose *)
(* nodes wait for silence before they send (module Stations), and the      *)
(* order in which the hearers of one beacon record it does not matter.     *)
(* Positions are left out.  A stamp is kept as its age, in clock steps.    *)
(***************************************************************************)
EXTENDS Naturals, Sequences, SequencesExt, FiniteSets, FiniteSetsExt

CONSTANTS
    Node,      \* the identifiers
    Threaded,  \* those whose program is tvirtloc.c
    Link,      \* <<m, n>>: what m sends, n can hear
    MaxNeigh,  \* MAXNEIGH, the entries a table has room for
    Timeout,   \* BEACON_TIMEOUT, in steps of the clock
    Mortal,    \* bound: nodes whose program may be made to end,
    MaxStops   \* and how many of them are

ASSUME LinkAssumption ==
    /\ Link \subseteq Node \X Node /\ \A n \in Node : <<n, n>> \notin Link
    /\ Threaded \subseteq Node /\ Mortal \subseteq Node
ASSUME BoundAssumption == MaxNeigh \in Nat \ {0} /\ Timeout \in Nat /\ MaxStops \in Nat

ASSUME NodeAssumption == IsFiniteSet(Node)

VARIABLES
    table,   \* Neighbours, up to Nneigh, of a program that runs: its own entry is the first
    status,  \* "runs", "ended", or "failed" by the assert on the table size
    buffer   \* the beacon a writer is about to send, when collision_mutex is free

vars == <<table, status, buffer>>

MaxStrat == 5
StratInf == 255

Hearers(n) == {m \in Node : <<n, m>> \in Link /\ status[m] = "runs"}

\* beacon_init; the stamp of the own entry is never set
Init ==
    /\ table = [n \in Node |->
                  <<[id |-> n, stratum |-> 0, state |-> TRUE, age |-> Timeout + 1]>>]
    /\ status = [n \in Node |-> "runs"]
    /\ buffer = [n \in Node |-> <<>>]

-----------------------------------------------------------------------------
\* mutant: the own entry is switched off like any other
CulledAll(t) ==
    [k \in DOMAIN t |-> [t[k] EXCEPT !.state = @ /\ t[k].age <= Timeout]]

\* beacon_recalc: old entries are switched off, all but the own one
Culled(t) ==
    [k \in DOMAIN t |-> [t[k] EXCEPT !.state = @ /\ (k = 1 \/ t[k].age <= Timeout)]]

\* beacon_prepare skips the others
Chosen(e) == e.state /\ (e.stratum < MaxStrat \/ e.stratum = StratInf)

\* mutant: the stratum of the entry before
ListingFromBefore(t, beacon, e) ==
    IF Chosen(e)
    THEN Append(beacon, [id |-> e.id, stratum |-> t[Max({1, Len(beacon)})].stratum])
    ELSE beacon

(***************************************************************************)
(* One turn of the loop of beacon_prepare.  The stratum put into the next  *)
(* place is that of the entry in the same place of the table, and not that *)
(* of the entry e that is listed there (beacon.c:104).                     *)
(***************************************************************************)
Listing(t, beacon, e) ==
    IF Chosen(e)
    THEN Append(beacon, [id |-> e.id, stratum |-> t[Len(beacon) + 1].stratum])
    ELSE beacon

\* beacon_prepare
Prepared(t) ==
    LET beacon[k \in 0 .. Len(t)] ==
            IF k = 0 THEN <<>> ELSE Listing(t, beacon[k - 1], t[k])
    IN  beacon[Len(t)]

SeenSelf(n, beacon) ==
    \E k \in 2 .. Len(beacon) : /\ beacon[k].id = n
                                /\ beacon[k].stratum \in {1, StratInf}

\* the entries of a beacon, cut short when n is not among them
Heeded(n, beacon) ==
    IF SeenSelf(n, beacon) THEN beacon
    ELSE <<[beacon[1] EXCEPT !.stratum = StratInf]>>

\* mutant: an entry that was switched off is not found
SlotIfOn(t, id) == SelectInSeq(t, LAMBDA e : e.id = id /\ e.state)

Slot(t, id) == SelectInSeq(t, LAMBDA e : e.id = id)

\* mutant: a rumour that does not replace an entry makes it younger
RecordedRefreshing(n, t, e) ==
    LET j == Slot(t, e.id)
        s == IF e.stratum < StratInf THEN e.stratum + 1 ELSE StratInf
        new == [id |-> e.id, stratum |-> s, state |-> TRUE, age |-> 0]
    IN  IF e.id = n THEN t
        ELSE IF j = 0 THEN Append(t, new)
        ELSE IF ~t[j].state \/ t[j].stratum >= s THEN [t EXCEPT ![j] = new]
        ELSE [t EXCEPT ![j].age = 0]

\* one turn of the loop of beacon_recv
Recorded(n, t, e) ==
    LET j == Slot(t, e.id)
        s == IF e.stratum < StratInf THEN e.stratum + 1 ELSE StratInf
        new == [id |-> e.id, stratum |-> s, state |-> TRUE, age |-> 0]
    IN  IF e.id = n THEN t
        ELSE IF j = 0 THEN Append(t, new)
        ELSE IF ~t[j].state \/ t[j].stratum >= s THEN [t EXCEPT ![j] = new]
        ELSE t

\* beacon_recv: n's table t when it has heard a beacon
Received(n, t, beacon) ==
    LET heeded == Heeded(n, beacon)
        after[k \in 0 .. Len(heeded)] ==
            IF k = 0 THEN t ELSE Recorded(n, after[k - 1], heeded[k])
    IN  after[Len(heeded)]

(***************************************************************************)
(* The programs that hear a beacon of n record it, while n's own table is  *)
(* mine: in their inner loop (virtloc.c) or their reader (tvirtloc.c).     *)
(***************************************************************************)
Heard(n, beacon, mine) ==
    LET new == [m \in Hearers(n) |-> Received(m, table[m], beacon)]
    IN  \E heard \in SUBSET Hearers(n) :
            LET fails == {m \in heard : Len(new[m]) > MaxNeigh}
            IN  /\ status' = [m \in Node |-> IF m \in fails THEN "failed" ELSE status[m]]
                /\ table' = [m \in Node |->
                                IF m = n THEN mine
                                ELSE IF m \in fails THEN <<>>
                                ELSE IF m \in heard THEN new[m]
                                ELSE table[m]]
                /\ buffer' = [m \in Node |->
                                IF m \in fails \union {n} THEN <<>> ELSE buffer[m]]

\* virtloc.c, after its inner loop
Send(n) ==
    LET culled == Culled(table[n])
    IN  /\ n \notin Threaded
        /\ status[n] = "runs"
        /\ Heard(n, Prepared(culled), culled)

\* tvirtloc.c: the writer under beacon_mutex
Prepare(n) ==
    LET culled == Culled(table[n])
    IN  /\ n \in Threaded
        /\ status[n] = "runs" /\ buffer[n] = <<>>
        /\ table' = [table EXCEPT ![n] = culled]
        /\ buffer' = [buffer EXCEPT ![n] = Prepared(culled)]
        /\ UNCHANGED status

\* and under collision_mutex
SendPrepared(n) ==
    /\ buffer[n] # <<>>
    /\ Heard(n, buffer[n], table[n])

\* a program ends after a time or when it is interrupted
Stop(n) ==
    /\ n \in Mortal /\ status[n] = "runs"
    /\ Cardinality({m \in Node : status[m] = "ended"}) < MaxStops
    /\ status' = [status EXCEPT ![n] = "ended"]
    /\ table' = [table EXCEPT ![n] = <<>>]
    /\ buffer' = [buffer EXCEPT ![n] = <<>>]

\* the age of an entry matters while the entry is on
Aged(e) ==
    [e EXCEPT !.age = IF ~e.state THEN 0 ELSE IF @ <= Timeout THEN @ + 1 ELSE @]

\* the clock
Tick ==
    /\ table' = [n \in Node |-> [k \in DOMAIN table[n] |-> Aged(table[n][k])]]
    /\ UNCHANGED <<status, buffer>>

Next ==
    \/ \E n \in Node : Send(n) \/ Prepare(n) \/ SendPrepared(n) \/ Stop(n)
    \/ Tick

Spec == Init /\ [][Next]_vars

-----------------------------------------------------------------------------
\* what is told at the stratum of another entry may grow with every hop
Entry == [id : Node, stratum : 0 .. StratInf, state : BOOLEAN, age : 0 .. Timeout + 1]

(***************************************************************************)
(* The values of the variables; with room for every node no program fails, *)
(* as an entry that was switched off takes its old place (beacon.c:75-84). *)
(***************************************************************************)
TypeOK ==
    /\ status \in [Node -> {"runs", "ended", "failed"}]
    /\ \A n \in Node : /\ \A k \in DOMAIN table[n] : table[n][k] \in Entry
                       /\ Len(table[n]) <= MaxNeigh
    /\ Cardinality(Node) <= MaxNeigh => \A n \in Node : status[n] # "failed"

(***************************************************************************)
(* The asserts of beacon_recv: every beacon begins with its sender, at     *)
(* stratum 0, so the own entry is never switched off or replaced, and the  *)
(* sender is the only node a beacon tells at stratum 0 (beacon.c:42-43).   *)
(***************************************************************************)
SenderFirst ==
    \A n \in {m \in Node : status[m] = "runs"} :
        LET beacon == Prepared(Culled(table[n]))
        IN  /\ beacon # <<>>
            /\ beacon[1] = [id |-> n, stratum |-> 0]
            /\ \A k \in 2 .. Len(beacon) : beacon[k].stratum # 0

(***************************************************************************)
(* A node at stratum 1 was heard by the table's owner itself: no rumour    *)
(* makes a node a neighbour, though beacons tell wrong strata when entries *)
(* were skipped (beacon.c:81, 104).                                        *)
(***************************************************************************)
StratumOneIsHeard ==
    \A n \in Node : \A k \in DOMAIN table[n] :
        table[n][k].stratum = 1 => <<table[n][k].id, n>> \in Link

(***************************************************************************)
(* What makes them inductive.  A table starts with its own node and lists  *)
(* the others once; so does every beacon made of it, its sender being the  *)
(* only node at stratum 0, so that a rumour makes stratum 2 at best.       *)
(***************************************************************************)
Item == [id : Node, stratum : 0 .. StratInf]

TableOf(n, t) ==
    /\ t \in Seq(Entry) /\ t # <<>>
    /\ t[1].id = n /\ t[1].stratum = 0 /\ t[1].state
    /\ \A k \in 2 .. Len(t) : t[k].stratum # 0
    /\ \A j, k \in DOMAIN t : t[j].id = t[k].id => j = k
    /\ \A k \in DOMAIN t : t[k].stratum = 1 => <<t[k].id, n>> \in Link

BeaconOf(n, beacon) ==
    /\ beacon \in Seq(Item) /\ beacon # <<>>
    /\ beacon[1] = [id |-> n, stratum |-> 0]
    /\ \A k \in 2 .. Len(beacon) : beacon[k].id # n /\ beacon[k].stratum # 0

IInv ==
    /\ status \in [Node -> {"runs", "ended", "failed"}]
    /\ DOMAIN table = Node /\ DOMAIN buffer = Node
    /\ \A n \in Node :
          IF status[n] = "runs"
          THEN /\ TableOf(n, table[n]) /\ Len(table[n]) <= MaxNeigh
               /\ buffer[n] = <<>> \/ BeaconOf(n, buffer[n])
          ELSE table[n] = <<>> /\ buffer[n] = <<>>
    /\ Cardinality(Node) <= MaxNeigh => \A n \in Node : status[n] # "failed"

\* entry k takes m for a neighbour
Near(t, k, m) == t[k].id = m /\ t[k].state /\ t[k].stratum = 1

(***************************************************************************)
(* Once a program has ended, nobody comes to take it for a neighbour any   *)
(* more, and an entry that does gets no younger, so that it will be        *)
(* switched off: the others pass on rumours of it for ever, with a new     *)
(* stamp each (beacon.c:81, 87, 101), but none makes it a neighbour again. *)
(***************************************************************************)
EndedFades ==
    [][\A m \in {m \in Node : status[m] = "ended"}, n \in Node :
          \A k \in DOMAIN table'[n] : Near(table'[n], k, m) =>
              /\ k \in DOMAIN table[n] /\ Near(table[n], k, m)
              /\ table[n][k].age <= table'[n][k].age]_vars
=============================================================================
