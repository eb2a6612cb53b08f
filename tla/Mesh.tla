-------------------------------- MODULE Mesh --------------------------------
(***************************************************************************)
(* radio2/src/node.c: nodes that are asleep until they hear a beacon, wake *)
(* up, and from then on beacon what they have heard of their neighbours.   *)
(* The front end (sim.c) calls node_timer and node_receive, one at a time; *)
(* between the calls a beacon is on its way to each node in range.         *)
(*                                                                         *)
(* Delays are left out: timers fire, and beacons arrive, in any order.     *)
(* Positions, which no guard here depends on, are left out too; so is the  *)
(* expiry time of a table entry, which nothing reads: neigh_table_cull is  *)
(* called nowhere (node.c:227, 351).                                       *)
(***************************************************************************)
EXTENDS NodeRules, FiniteSets

CONSTANTS
    Node,      \* the node ids
    Link,      \* <<m, n>>: the topology lets n hear m
    Roots,     \* the node that starts as ROOT: {0} with the option R, or none
    AwakeOpt,  \* the option A: the other nodes start AWAKE
    Lossy,     \* whether a beacon may be lost on its way
    NeighMax,  \* NEIGH_MAX, the entries a table has room for
    LinkDepth  \* bound: beacons of one sender on their way to one hearer

ASSUME LinkAssumption ==
    Link \subseteq Node \X Node /\ \A n \in Node : <<n, n>> \notin Link
ASSUME RootsAssumption == Roots \subseteq Node
ASSUME SizeAssumption == NeighMax \in Nat /\ LinkDepth \in Nat \ {0}
ASSUME NodeAssumption == IsFiniteSet(Node)

VARIABLES
    status,  \* node->status
    table,   \* node->neigh_table
    rested,  \* the time is node->wake_time or later
    timers,  \* timers[n]: timer events queued for n
    air,     \* beacons queued for a node each
    failed   \* the assert in neigh_table_insert ended the program

vars == <<status, table, rested, timers, air, failed>>

Hearers(n) == {m \in Node : <<n, m>> \in Link}
OnAir(m, n) == {b \in air : b.src = m /\ b.dst = n}

-----------------------------------------------------------------------------
\* node_init, which sets the status of a node that does not sleep
Init ==
    /\ status = [n \in Node |-> IF n \in Roots THEN "ROOT"
                                ELSE IF AwakeOpt THEN "AWAKE" ELSE "ASLEEP"]
    /\ table = [n \in Node |-> <<>>]
    /\ rested = [n \in Node |-> FALSE]
    /\ timers = [n \in Node |-> TimersStarted(status[n])]
    /\ air = {}
    /\ failed = FALSE

(***************************************************************************)
(* node_timer.  Becoming awake queues another timer event (node.c:60),     *)
(* besides the one that follows this.  A hearer is sent its own copy.      *)
(***************************************************************************)
Timer(n) ==
    LET wakes == status[n] = "WAKING" /\ rested[n]
        now   == IF wakes THEN "AWAKE" ELSE status[n]
    IN  /\ ~failed
        /\ timers[n] > 0
        /\ \A m \in Hearers(n) : Cardinality(OnAir(n, m)) < LinkDepth
        /\ status' = [status EXCEPT ![n] = now]
        /\ timers' = [timers EXCEPT ![n] = IF wakes THEN @ + TimersStarted(now) ELSE @]
        /\ air' = air \union {[src |-> n, dst |-> m, status |-> now,
                               neigh |-> BeaconEntries(n, table[n])] : m \in Hearers(n)}
        /\ UNCHANGED <<table, rested, failed>>

\* the wake time of a waking node passes
Rest(n) ==
    /\ ~failed
    /\ status[n] = "WAKING"
    /\ ~rested[n]
    /\ rested' = [rested EXCEPT ![n] = TRUE]
    /\ UNCHANGED <<status, table, timers, air, failed>>

(***************************************************************************)
(* node_receive_beacon.  A node it wakes has two timer events queued, one  *)
(* by node_set_status and one by the handler itself (node.c:174, 187).     *)
(* When the assert ends the program, nothing of what the handler has done  *)
(* until then is left to be seen.                                          *)
(***************************************************************************)
Receive(b) ==
    LET n == b.dst
        asleep == status[n] = "ASLEEP"
        new == Recorded(n, table[n], b.neigh)
    IN  /\ ~failed
        /\ ~Ignored(status[b.dst], b.status)
        /\ failed' = Overfull(new, NeighMax)
        /\ IF failed'
             THEN UNCHANGED <<status, table, timers, air>>
             ELSE /\ status' = [status EXCEPT ![n] = IF asleep THEN "WAKING" ELSE @]
                  /\ table' = [table EXCEPT ![n] = new]
                  /\ timers' = [timers EXCEPT ![n] =
                                   IF asleep THEN @ + TimersStarted("WAKING") + 1 ELSE @]
                  /\ air' = air \ {b}
        /\ UNCHANGED rested

\* the early return of node_receive_beacon
Ignore(b) ==
    /\ ~failed
    /\ Ignored(status[b.dst], b.status)
    /\ air' = air \ {b}
    /\ UNCHANGED <<status, table, rested, timers, failed>>

\* a front end with a real radio loses beacons; the simulator does not
Lose(b) ==
    /\ ~failed
    /\ Lossy
    /\ air' = air \ {b}
    /\ UNCHANGED <<status, table, rested, timers, failed>>

Next ==
    \/ \E n \in Node : Timer(n) \/ Rest(n)
    \/ \E b \in air : Receive(b) \/ Ignore(b) \/ Lose(b)

Spec == Init /\ [][Next]_vars

\* the front end pops every queued event in the end (Receive, Ignore and Lose
\* are the steps that take b off the air), and time goes on
Arrive(m, n) == ~failed /\ \E b \in OnAir(m, n) : air' = air \ {b}

Fairness ==
    /\ \A n \in Node : WF_vars(Timer(n)) /\ WF_vars(Rest(n))
    /\ \A l \in Link : WF_air(Arrive(l[1], l[2]))

FairSpec == Spec /\ Fairness
-----------------------------------------------------------------------------
Entry == [id : Node, stratum : {1, 2, 3, StratumInf}]

(***************************************************************************)
(* The values of the variables.  A table has no entry for its own node,    *)
(* and what a node hears again takes no other entry: the assert on the     *)
(* table size (neigh.c:34) fails only when there are more other nodes than *)
(* the table has entries.                                                  *)
(***************************************************************************)
TypeOK ==
    /\ status \in [Node -> {"ASLEEP", "WAKING", "AWAKE", "ROOT"}]
    /\ rested \in [Node -> BOOLEAN]
    /\ timers \in [Node -> 0 .. 3]
    /\ failed \in BOOLEAN
    /\ \A n \in Node : /\ \A k \in DOMAIN table[n] : /\ table[n][k] \in Entry
                                                     /\ table[n][k].id # n
                       /\ Len(table[n]) <= NeighMax
    /\ \A b \in air : <<b.src, b.dst>> \in Link /\ Len(b.neigh) <= BeaconMax
    /\ failed => Cardinality(Node) - 1 > NeighMax

(***************************************************************************)
(* The timers of a node form chains, each firing queuing the next.  Waking *)
(* starts two and becoming awake a third, so that a node that slept beacons*)
(* three times as often as one that did not (node.c:60, 187, 366).         *)
(***************************************************************************)
TimerChains ==
    \A n \in Node :
        timers[n] = CASE status[n] = "ASLEEP" -> 0
                      [] status[n] = "WAKING" -> 2
                      [] status[n] = "ROOT"   -> 1
                      [] status[n] = "AWAKE"  -> IF AwakeOpt THEN 1 ELSE 3

(***************************************************************************)
(* What makes them inductive.  A table lists a node once and keeps it in   *)
(* its place, so that the entries of a beacon, old as it may be, are in    *)
(* the order of its sender's table, behind the sender itself.              *)
(***************************************************************************)
Item == [id : Node, stratum : 0 .. 3 \union {StratumInf}]

ListsOnce(list) == \A j, k \in DOMAIN list : list[j].id = list[k].id => j = k

TableOK(n) == table[n] \in Seq(Entry) /\ ListsOnce(table[n])

BeaconOK(b) ==
    /\ b \in [src : Node, dst : Node, status : {"ASLEEP", "WAKING", "AWAKE", "ROOT"},
             neigh : Seq(Item)]
    /\ b.neigh # <<>> /\ b.neigh[1] = [id |-> b.src, stratum |-> 0]
    /\ \A k \in 2 .. Len(b.neigh) : /\ b.neigh[k] \in Entry /\ Advertised(b.neigh[k])
                                    /\ Slot(table[b.src], b.neigh[k].id) # 0
    /\ \A j, k \in 2 .. Len(b.neigh) :
          j < k => Slot(table[b.src], b.neigh[j].id) < Slot(table[b.src], b.neigh[k].id)

IInv ==
    /\ TypeOK /\ TimerChains
    /\ DOMAIN table = Node /\ \A n \in Node : TableOK(n)
    /\ IsFiniteSet(air) /\ \A b \in air : BeaconOK(b)
    /\ AwakeOpt => \A n \in Node : status[n] \in {"AWAKE", "ROOT"}

(***************************************************************************)
(* With its tables, timers and packets the protocol takes only steps of    *)
(* Neighbours, whatever the order of the entries in the packets and the    *)
(* number of those that fit, so that it keeps what is promised there.      *)
(***************************************************************************)
StratumIn(n, m) ==
    IF Slot(table[n], m) = 0 THEN 0 ELSE table[n][Slot(table[n], m)].stratum

Heard(b) == {b.neigh[k] : k \in 2 .. Len(b.neigh)}

Abstract == INSTANCE Neighbours WITH
    stratum <- [n \in Node |-> [m \in Node |-> StratumIn(n, m)]],
    air <- {[src |-> b.src, dst |-> b.dst, status |-> b.status,
             heard |-> Heard(b)] : b \in air}

ImplementsNeighbours == Abstract!Spec
PromisesKept == Abstract!PromisesKept

(***************************************************************************)
(* The whole network wakes: every node a beacon of the root's can reach,   *)
(* hop by hop, becomes awake.                                              *)
(***************************************************************************)
Reach[k \in Nat] ==
    IF k = 0 THEN Roots
    ELSE Reach[k - 1] \union UNION {Hearers(n) : n \in Reach[k - 1]}

AllWake ==
    \A n \in Reach[Cardinality(Node)] : <>(status[n] \in {"AWAKE", "ROOT"})

(***************************************************************************)
(* Once awake, any two nodes that hear each other come to list each other  *)
(* as neighbours, and keep doing so: a first beacon is answered by one     *)
(* that lists the sender as heard, which completes the check (node.c:190). *)
(***************************************************************************)
NeighboursSettle ==
    \A n, m \in Reach[Cardinality(Node)] :
        <<n, m>> \in Link /\ <<m, n>> \in Link => <>[](StratumIn(n, m) = 1)
=============================================================================
