------------------------------ MODULE NodeRules ------------------------------
(***************************************************************************)
(* What the handlers of radio2/src/node.c work out from a node's status,   *)
(* its table and a packet: the part of a node that Mesh, which lets events *)
(* come in any order, and SimLoop, which has the simulator's clock, share. *)
(* A beacon is the status of its sender and the list of neighbours in it.  *)
(***************************************************************************)
EXTENDS Neigh

CONSTANT BeaconMax \* the entries a beacon has room for, the sender's included

ASSUME BeaconAssumption == BeaconMax \in Nat \ {0}

MaxStrat == 2  \* NODE_BEACON_MAXSTRAT

\* mutant: only the root's timer is started
TimersStartedRoot(s) == IF s = "ROOT" THEN 1 ELSE 0

\* node_set_status: the timer events it queues
TimersStarted(s) == IF s = "ASLEEP" THEN 0 ELSE 1

(***************************************************************************)
(* node_beacon: the sender, then the entries of its table that are near    *)
(* enough or newly heard, in table order, while the packet has room.  The  *)
(* list is put together entry by entry.                                    *)
(***************************************************************************)
\* mutant: nodes that were only heard are left out
AdvertisedKnown(e) == e.stratum \in 1 .. MaxStrat

Advertised(e) == e.stratum \in 1 .. MaxStrat \union {StratumInf}

\* one turn of its loop
Listing(list, e) ==
    IF Advertised(e) /\ Len(list) < BeaconMax THEN Append(list, e) ELSE list

BeaconEntries(n, table) ==
    LET list[k \in 0 .. Len(table)] ==
            IF k = 0 THEN <<[id |-> n, stratum |-> 0]>> ELSE Listing(list[k - 1], table[k])
    IN  list[Len(table)]

\* mutant: only the root wakes a node
IgnoredButRoot(mine, senders) == mine = "ASLEEP" /\ senders # "ROOT"

\* node_receive_beacon returns at once
Ignored(mine, senders) == mine = "ASLEEP" /\ senders = "WAKING"

\* mutant: any mention of the hearer will do
SeenSelfAnywhere(n, beacon) == \E k \in DOMAIN beacon : beacon[k].id = n

SeenSelf(n, beacon) ==
    \E k \in DOMAIN beacon : /\ beacon[k].id = n
                             /\ beacon[k].stratum \in {1, StratumInf}

\* what a beacon that does not list its hearer tells it
HeardOnly(beacon) == [id |-> beacon[1].id, stratum |-> StratumInf]

\* mutants: the hearer learns of itself; all it learns of are near
LearntOfSelf(n, table, e) ==
    IF e.stratum = StratumInf THEN table
    ELSE Inserted(table, [e EXCEPT !.stratum = @ + 1])

LearntAsNear(n, table, e) ==
    IF e.id = n \/ e.stratum = StratumInf THEN table
    ELSE Inserted(table, [e EXCEPT !.stratum = 1])

\* n learns of one entry of a beacon that lists it
Learnt(n, table, e) ==
    IF e.id = n \/ e.stratum = StratumInf THEN table
    ELSE Inserted(table, [e EXCEPT !.stratum = @ + 1])

\* n's table when node_receive_beacon has recorded a beacon
Recorded(n, table, beacon) ==
    IF ~SeenSelf(n, beacon) THEN Inserted(table, HeardOnly(beacon))
    ELSE LET after[k \in 0 .. Len(beacon)] ==
                 IF k = 0 THEN table ELSE Learnt(n, after[k - 1], beacon[k])
         IN  after[Len(beacon)]

\* mutant: a node that was only heard will do
RoutedOverHeard(table, dst, nobody) == {table[k].id : k \in DOMAIN table} \union {nobody}

(***************************************************************************)
(* node_route_mfr, with the maxstrat of 1 that data packets are routed     *)
(* with: the destination when it is a neighbour, or else the neighbour     *)
(* that is nearest to it if one is nearer than the node itself.  Where     *)
(* everybody is, and was when the table heard of it, is left open.         *)
(***************************************************************************)
Routed(table, dst, nobody) ==
    LET neighbours == {table[k].id : k \in {j \in DOMAIN table : table[j].stratum <= 1}}
    IN  IF dst \in neighbours THEN {dst} ELSE neighbours \union {nobody}
=============================================================================
