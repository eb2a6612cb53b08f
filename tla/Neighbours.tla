----------------------------- MODULE Neighbours -----------------------------
(***************************************************************************)
(* What the beacons of radio2/src/node.c establish: each node learns which *)
(* nodes it can talk to in both directions, and in how many hops.          *)
(*                                                                         *)
(* Here a node's neighbour table is a function, and a beacon may carry any *)
(* part of what the table has to tell.  Module Mesh is the detailed        *)
(* protocol, with the tables, timers and beacon sizes of the code.         *)
(***************************************************************************)
EXTENDS Naturals, FiniteSets

CONSTANTS
    Node,   \* the node ids
    Link,   \* <<m, n>>: what m sends, n can hear
    Roots,  \* the nodes that start as ROOT
    AwakeOpt, \* the option A: the other nodes start AWAKE
    Lossy,  \* whether a beacon may be lost on its way
    LinkDepth \* bound: beacons of one sender on their way to one hearer

ASSUME LinkAssumption == Link \subseteq Node \X Node
ASSUME RootsAssumption == Roots \subseteq Node

VARIABLES
    status,  \* status[n], of node_t
    stratum, \* stratum[n][m], m's stratum in n's table: its distance in hops
    air      \* the beacons sent and not yet heard, one for each hearer

vars == <<status, stratum, air>>

Asleep == "ASLEEP"
Waking == "WAKING"
Awake  == "AWAKE"
Root   == "ROOT"
Status == {Asleep, Waking, Awake, Root}

Inf     == 10  \* NEIGH_STRATUM_INF: heard, but not known to hear us
Unknown == 0   \* not in the table
Strata  == {Unknown, 1, 2, 3, Inf}

\* the strata a beacon repeats
Told == {1, 2, Inf}

Neigh  == [id : Node, stratum : Told]
Beacon == [src : Node, dst : Node, status : Status, heard : SUBSET Neigh]

HasRoom(n, m) == Cardinality({b \in air : b.src = n /\ b.dst = m}) < LinkDepth

(***************************************************************************)
(* The stratum left by neigh_table_insert when s is inserted over old.     *)
(***************************************************************************)
Merge(old, s) ==
    IF \/ old = Unknown
       \/ s = Inf /\ old > 1
       \/ s <= old
    THEN s ELSE old

-----------------------------------------------------------------------------
Init ==
    /\ status = [n \in Node |-> IF n \in Roots THEN Root
                                ELSE IF AwakeOpt THEN Awake ELSE Asleep]
    /\ stratum = [n \in Node |-> [m \in Node |-> Unknown]]
    /\ air = {}

Listed(n) == {e \in Neigh : stratum[n][e.id] = e.stratum}

\* node_timer: a node that has waked for long enough becomes awake, then beacons
Send(n, s, heard) ==
    /\ status[n] # Asleep
    /\ s = status[n] \/ (status[n] = Waking /\ s = Awake)
    /\ \A m \in Node : HasRoom(n, m)
    /\ status' = [status EXCEPT ![n] = s]
    /\ air' = air \union {[src |-> n, dst |-> l[2], status |-> s, heard |-> heard] :
                            l \in {k \in Link : k[1] = n}}
    /\ UNCHANGED stratum

\* mutant: a waking node wakes others
IgnoredNever(b) == FALSE

Ignored(b) == status[b.dst] = Asleep /\ b.status = Waking

\* mutant: the check for a bidirectional link is left out
SeenSelfAlways(b) == TRUE

SeenSelf(b) == \E e \in b.heard : e.id = b.dst /\ e.stratum \in {1, Inf}

\* what a beacon says of m, counted from the hearer: one stratum at most, as
\* no table and so no beacon has two entries for one node
Offers(b, m) ==
    IF ~SeenSelf(b) THEN {Inf : k \in {b.src} \intersect {m}}
    ELSE {1 : k \in {b.src} \intersect {m}} \union
         {e.stratum + 1 : e \in {f \in b.heard : /\ f.id = m
                                                 /\ f.id # b.dst
                                                 /\ f.id # b.src
                                                 /\ f.stratum # Inf}}

\* the hearer's table when the offers have been inserted
Updated(b) ==
    [m \in Node |->
        IF Offers(b, m) = {} THEN stratum[b.dst][m]
        ELSE Merge(stratum[b.dst][m], CHOOSE s \in Offers(b, m) : TRUE)]

\* node_receive_beacon
Receive(b) ==
    /\ b \in air
    /\ ~Ignored(b)
    /\ air' = air \ {b}
    /\ status' = [status EXCEPT ![b.dst] = IF @ = Asleep THEN Waking ELSE @]
    /\ stratum' = [stratum EXCEPT ![b.dst] = Updated(b)]

\* a beacon from a waking node does not wake an asleep one
Ignore(b) ==
    /\ b \in air
    /\ Ignored(b)
    /\ air' = air \ {b}
    /\ UNCHANGED <<status, stratum>>

Lose(b) ==
    /\ Lossy
    /\ b \in air
    /\ air' = air \ {b}
    /\ UNCHANGED <<status, stratum>>

Next ==
    \/ \E n \in Node : \E s \in Status, heard \in SUBSET Listed(n) : Send(n, s, heard)
    \/ \E b \in air : Receive(b) \/ Ignore(b) \/ Lose(b)

Spec == Init /\ [][Next]_vars

-----------------------------------------------------------------------------
TypeOK ==
    /\ status \in [Node -> Status]
    /\ stratum \in [Node -> [Node -> Strata]]
    /\ air \subseteq Beacon

Both(n, m) == <<n, m>> \in Link /\ <<m, n>> \in Link

(***************************************************************************)
(* What an entry of n's table for m, with stratum s, promises about the    *)
(* links: 1 is a neighbour in both directions ("Check that this neighbour  *)
(* is bidirectional before listing them", node.c:190), 2 and 3 are reached *)
(* over such neighbours, INF is one that n has heard.                      *)
(***************************************************************************)
Promise(n, m, s) ==
    /\ s = 1 => Both(n, m)
    /\ s = 2 => \E k \in Node : Both(n, k) /\ Both(k, m)
    /\ s = 3 => \E k, l \in Node : Both(n, k) /\ Both(k, l) /\ Both(l, m)
    /\ s = Inf => <<m, n>> \in Link

(***************************************************************************)
(* Every entry of every table keeps its promise, though it comes from      *)
(* beacons whose senders had it from others (node.c:190-225).              *)
(***************************************************************************)
PromisesKept == \A n, m \in Node : Promise(n, m, stratum[n][m])

(***************************************************************************)
(* A node lists another as a neighbour only when that one has it in its    *)
(* own table: a link that could work both ways is not one until the other  *)
(* side has been heard of there, however long ago the beacon that says so  *)
(* was sent (node.c:190-199).                                              *)
(***************************************************************************)
HeardUs == \A n, m \in Node : stratum[n][m] = 1 => stratum[m][n] # Unknown

(***************************************************************************)
(* Nodes are woken by awake ones only (node.c:165-174): behind a node that *)
(* woke there is one it hears that is awake or the root.  With the option  *)
(* A there is no node to wake.                                             *)
(***************************************************************************)
WokenByAwake ==
    \A n \in Node : status[n] \in {Waking, Awake} =>
        AwakeOpt \/ \E m \in Node : <<m, n>> \in Link /\ status[m] \in {Awake, Root}

(***************************************************************************)
(* The strengthening that makes them inductive: what the beacons in the    *)
(* air say keeps the same promises, they are from where links lead, and    *)
(* the nodes they list are still in their sender's table.                  *)
(***************************************************************************)
AirInv ==
    \A b \in air :
        /\ <<b.src, b.dst>> \in Link
        /\ b.status # Asleep
        /\ b.status \in {Awake, Root} => status[b.src] \in {Awake, Root}
        /\ \A e \in b.heard : /\ Promise(b.src, e.id, e.stratum)
                               /\ stratum[b.src][e.id] # Unknown

IInv == TypeOK /\ PromisesKept /\ HeardUs /\ WokenByAwake /\ AirInv
=============================================================================
