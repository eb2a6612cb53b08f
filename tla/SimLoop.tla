------------------------------ MODULE SimLoop ------------------------------
(***************************************************************************)
(* radio2/src/sim.c: the event loop of the simulator, its clock, and the   *)
(* packets of radio2/src/packet.c, each shared by the queued events of all *)
(* the nodes that will hear it.  The queue is a bag: queue_pop takes any   *)
(* event that is due no later than the others (module PriorityQueue).      *)
(*                                                                         *)
(* The nodes are those of radio2/src/node.c: they wake each other up, fill *)
(* their tables from the beacons they hear, and route the data packets of  *)
(* the route tests over them to node 0.  Tables have room for every node.  *)
(***************************************************************************)
EXTENDS Integers, NodeRules, Bags, Topo

CONSTANTS
    Lines,        \* bound: lines a topology file may have
    MaxLines,     \* bound: how many of them
    File,         \* bound: the one of these files that is simulated, not only read
    Args,         \* bound: the arguments tried: node_opts, of which R makes node 0 the
                  \* root and A the others awake, and the time-out
    Second,       \* VTIME_SECONDS, also NODE_BEACON_PERIOD
    PropDelay,    \* what sim_prop_delay may add
    TimerDelay,   \* what a timer may be put off by: half to three halves of the period
    WakeupPeriod  \* NODE_WAKEUP_PERIOD

\* the entries a line gives
Given(line) == {e \in {EntryTo(line), EntryFrom(line)} : e.prob > 0}

\* the links of some lines
LinksIn(lines) ==
    {<<e.src, e.dst>> : e \in UNION {Given(lines[i]) : i \in DOMAIN lines}}

\* topo_max_id when File has been read: the greatest number in a link
LastNode == Max({0} \union {l[1] : l \in LinksIn(File)} \union {l[2] : l \in LinksIn(File)})
Node == 0 .. LastNode

ASSUME FileAssumption ==
    /\ Lines \subseteq [node1 : Int, node2 : Int, to : Int, from : Int]
    /\ MaxLines \in Nat /\ 2 * MaxLines < TableSize
    /\ File \in Seq(Lines) /\ Len(File) <= MaxLines
ASSUME TimeAssumption ==
    /\ {Second, WakeupPeriod} \union PropDelay \union TimerDelay \subseteq Nat \ {0}
    /\ Args \subseteq [opts : SUBSET {"R", "A"}, timeout : Nat \ {0}]
    /\ PropDelay # {} /\ TimerDelay # {}

VARIABLES
    args,    \* argv
    topo,    \* Topo
    read,    \* the lines of the topology file
    queue,   \* Queue: a bag of events
    tick,    \* vtime_tick
    pc,      \* where the loop of main is
    current, \* e while it is handled
    tester,  \* the next node to send a route test
    refs,    \* the packets allocated: a bag, with a copy for each reference
    status,  \* of each node
    wake,    \* wake_time of each node
    table,   \* neigh_table of each node
    traced   \* the time of the last line "Beacon" of the trace

vars == <<args, topo, read, queue, tick, pc, current, tester, refs, status, wake, table,
          traced>>

Nobody == NodeIds - 1   \* NODE_ID_INVALID

\* the nodes sim_callback finds in the topology
Hearers(n) == {topo.table[k].dst : k \in Iterated(topo, n)}

\* node_forward_data: the next hop of a packet to node 0
Hops(n) == Routed(table[n], 0, Nobody)

\* what a packet says; no tells it from others that say the same
Beacon(s, neigh) == [type |-> "beacon", status |-> s, neigh |-> neigh]
Data(src, vtime, hop) == [type |-> "data", src |-> src, vtime |-> vtime, hop |-> hop]
Packet(content, no) == [content |-> content, no |-> no]
NoPacket == Packet([type |-> "none"], 0)

Event(v, n, p) == [vtime |-> v, node |-> n, packet |-> p]

\* no event is queued from then on
Eschaton == args.timeout

NoEvent == Event(Eschaton, Nobody, NoPacket)

\* sim_callback without a packet: what a timer adds to the queue
TimerEvent(n, v) == SetToBag({Event(u, n, NoPacket) : u \in {v} \cap 0 .. Eschaton - 1})

-----------------------------------------------------------------------------
\* main, before anything is read
Init ==
    /\ args \in Args
    /\ topo = topo_new
    /\ read = <<>>
    /\ status = [n \in Node |-> "ASLEEP"]
    /\ queue = EmptyBag
    /\ tick = 0
    /\ pc = "read"
    /\ current = NoEvent
    /\ tester = 0
    /\ refs = EmptyBag
    /\ wake = [n \in Node |-> 0]
    /\ table = [n \in Node |-> <<>>]
    /\ traced = 0

\* one turn of the loop of topo_file_read
ReadLine ==
    /\ pc = "read"
    /\ Len(read) < MaxLines
    /\ \E line \in Lines : read' = Append(read, line) /\ topo' = LineRead(topo, line)
    /\ UNCHANGED <<args, queue, tick, pc, current, tester, refs, status, wake, table, traced>>

\* node_init
InitStatus(n) ==
    IF "R" \in args.opts /\ n = 0 THEN "ROOT"
    ELSE IF "A" \in args.opts THEN "AWAKE" ELSE "ASLEEP"

(***************************************************************************)
(* The end of the file: main makes the nodes of the topology, with timers  *)
(* for those that do not sleep.  The lines are of no use any more.         *)
(***************************************************************************)
Start ==
    /\ pc = "read"
    /\ read = File
    /\ pc' = "loop"
    /\ read' = <<>>
    /\ status' = [n \in Node |-> InitStatus(n)]
    /\ \E delay \in [Node -> TimerDelay] :
          queue' = BagUnion({TimerEvent(n, IF status'[n] = "ROOT" THEN 0 ELSE delay[n]) :
                                n \in {m \in Node : status'[m] # "ASLEEP"}})
    /\ UNCHANGED <<args, topo, tick, current, tester, refs, wake, table, traced>>

\* mutant: any event
EarliestAny(q) == BagToSet(q)

Earliest(q) == {e \in BagToSet(q) : \A f \in BagToSet(q) : e.vtime <= f.vtime}

\* queue_pop of an event that is later than the next tick
TickDue ==
    /\ pc = "loop"
    /\ \E e \in Earliest(queue) :
          /\ e.vtime > tick
          /\ queue' = queue (-) SetToBag({e})
          /\ current' = e
    /\ pc' = "test"
    /\ UNCHANGED <<args, topo, read, tick, tester, refs, status, wake, table, traced>>

Finish ==
    /\ pc = "loop"
    /\ queue = EmptyBag
    /\ pc' = "done"
    /\ UNCHANGED <<args, topo, read, queue, tick, current, tester, refs, status, wake, table, traced>>

-----------------------------------------------------------------------------
\* mutant: every hearer is given a reference, even one that gets no event
ReferencesForAll(n, events) == Cardinality(Hearers(n))

\* packet_new, packet_clone for every event, and the sender's packet_free
References(n, events) == Cardinality(events)

\* the first number no allocated packet with this content has
NextNo(content) ==
    LET used == {p.no : p \in {q \in BagToSet(refs) : q.content = content}}
    IN  Min((1 .. Cardinality(used) + 1) \ used)

(***************************************************************************)
(* packet_new by node n at time v, sim_callback with the packet, and the   *)
(* sender's packet_free; others are the other events in the queue then,    *)
(* and freed the references the event being handled leaves.                *)
(***************************************************************************)
Sends(n, v, content, others, freed) ==
    LET p == Packet(content, NextNo(content))
    IN  \E delay \in [Hearers(n) -> PropDelay] :
          LET events == {Event(v + delay[m], m, p) :
                            m \in {x \in Hearers(n) : v + delay[x] < Eschaton}}
              held == [q \in {q \in {p} : References(n, events) > 0} |-> References(n, events)]
          IN  /\ queue' = others (+) SetToBag(events)
              /\ refs' = freed (+) held

\* mutant: a tick is two seconds
NextTickTwice(t) == t + 2 * Second

NextTick(t) == t + Second

\* mutant: the tick is only over once a packet has been sent
RouteTestInsisting ==
    /\ pc = "test"
    /\ \E hop \in Hops(tester) :
          IF hop = Nobody THEN UNCHANGED <<queue, refs>>
          ELSE Sends(tester, tick, Data(tester, tick, hop), queue, refs)
    /\ IF tester = LastNode /\ refs' # refs
         THEN tester' = 0 /\ tick' = NextTick(tick) /\ pc' = "dispatch"
         ELSE tester' = (tester + 1) % (LastNode + 1) /\ UNCHANGED <<tick, pc>>
    /\ UNCHANGED <<args, topo, read, current, status, wake, table, traced>>

\* node_route_test of one node, and the end of the tick after the last one
RouteTest ==
    /\ pc = "test"
    /\ \E hop \in Hops(tester) :
          IF hop = Nobody THEN UNCHANGED <<queue, refs>>
          ELSE Sends(tester, tick, Data(tester, tick, hop), queue, refs)
    /\ IF tester = LastNode
         THEN tester' = 0 /\ tick' = NextTick(tick) /\ pc' = "dispatch"
         ELSE tester' = tester + 1 /\ UNCHANGED <<tick, pc>>
    /\ UNCHANGED <<args, topo, read, current, status, wake, table, traced>>

(***************************************************************************)
(* The events that can be handled: the one popped before a tick, or any    *)
(* that queue_pop can return when no tick is due; and the queue without    *)
(* the one that is.                                                        *)
(***************************************************************************)
Handled ==
    IF pc = "dispatch" THEN {current}
    ELSE IF pc = "loop" THEN {e \in Earliest(queue) : e.vtime <= tick} ELSE {}

Left(e) == IF pc = "dispatch" THEN queue ELSE queue (-) SetToBag({e})

\* packet_free of the event being handled
Freed(e) == refs (-) SetToBag({e.packet})

Due(v, delay) == v + delay

\* node_timer, with the timer of node_set_status when the node becomes awake
Timer(e) ==
    LET n == e.node
        v == e.vtime
        awakes == status[n] = "WAKING" /\ v >= wake[n]
    IN  /\ e.packet = NoPacket
        /\ status' = [status EXCEPT ![n] = IF awakes THEN "AWAKE" ELSE @]
        /\ \E delay \in TimerDelay, first \in IF awakes THEN TimerDelay ELSE {Eschaton} :
              Sends(n, v, Beacon(status'[n], BeaconEntries(n, table[n])),
                    Left(e) (+) TimerEvent(n, Due(v, delay)) (+) TimerEvent(n, Due(v, first)),
                    refs)
        /\ traced' = v
        /\ pc' = "loop"
        /\ current' = NoEvent
        /\ UNCHANGED <<args, topo, read, tick, tester, wake, table>>

\* node_receive_beacon: only an asleep node asks for timers
ReceiveBeacon(e) ==
    LET n == e.node
        v == e.vtime
        beacon == e.packet.content
        ignored == Ignored(status[n], beacon.status)
        wakes == status[n] = "ASLEEP" /\ ~ignored
    IN  /\ beacon.type = "beacon"
        /\ status' = [status EXCEPT ![n] = IF wakes THEN "WAKING" ELSE @]
        /\ wake' = [wake EXCEPT ![n] = IF wakes THEN v + WakeupPeriod ELSE @]
        /\ table' = [table EXCEPT ![n] =
                        IF ignored THEN @ ELSE Recorded(n, @, beacon.neigh)]
        /\ IF wakes
             THEN \E delay \in TimerDelay :
                     queue' = Left(e) (+) TimerEvent(n, Due(v, delay))
                                      (+) TimerEvent(n, Due(v, Second))
             ELSE queue' = Left(e)
        /\ refs' = Freed(e)
        /\ pc' = "loop"
        /\ current' = NoEvent
        /\ UNCHANGED <<args, topo, read, tick, tester, traced>>

\* mutant: whoever hears a packet forwards it
ForwardsOverheard(n, data) == n # 0

\* the packet is meant for n to pass on: node 0 is the destination of all
Forwards(n, data) == data.hop = n /\ n # 0

\* node_receive_data and node_forward_data
ReceiveData(e) ==
    LET n == e.node
        data == e.packet.content
    IN  /\ data.type = "data"
        /\ \E hop \in IF Forwards(n, data) THEN Hops(n) ELSE {Nobody} :
              IF hop = Nobody
                THEN refs' = Freed(e) /\ queue' = Left(e)
                ELSE Sends(n, e.vtime, [data EXCEPT !.hop = hop], Left(e), Freed(e))
        /\ pc' = "loop"
        /\ current' = NoEvent
        /\ UNCHANGED <<args, topo, read, tick, tester, status, wake, table, traced>>

\* the end of main, or of a file that was only read
Stopped ==
    /\ pc \in {"read", "done"}
    /\ UNCHANGED vars

Next ==
    \/ ReadLine
    \/ Start
    \/ TickDue
    \/ Finish
    \/ Stopped
    \/ RouteTest
    \/ \E e \in Handled : Timer(e) \/ ReceiveBeacon(e) \/ ReceiveData(e)

\* the loop goes on until it is done; it never deadlocks
RunsOn == []<>(pc \in {"read", "done"}) \/ []<><<Next>>_vars

Spec == Init /\ [][Next]_vars /\ RunsOn

-----------------------------------------------------------------------------
\* the entries lines give, the last one of each link: a later line without a
\* chance for it takes none back
EntriesIn(lines) ==
    UNION {{e \in Given(lines[i]) :
                \A j \in i + 1 .. Len(lines) : \A f \in Given(lines[j]) : ~SameLink(e, f)} :
            i \in DOMAIN lines}

(***************************************************************************)
(* The iterator finds every link of the file that was read, once, and with *)
(* the probability of the last line that gives it one, whatever numbers    *)
(* the lines hold, in whatever order, repeated or not, and though cells of *)
(* different nodes run together and round the end of the table             *)
(* (topo.c:27-64, 93-100).                                                 *)
(***************************************************************************)
LinksFound ==
    pc = "read" =>
        \A n \in 0 .. topo.max_id :
            /\ {topo.table[k] : k \in Iterated(topo, n)} =
                    {e \in EntriesIn(read) : e.src = n /\ e.dst # n}
            /\ \A j, k \in Iterated(topo, n) : topo.table[j].dst = topo.table[k].dst => j = k

Pending == queue (+) IF pc \in {"test", "dispatch"} THEN SetToBag({current}) ELSE EmptyBag

Carrying(p) == {e \in BagToSet(Pending) : e.packet = p}

\* its reference count, 0 when it is not allocated
RefCount(p) == IF BagIn(p, refs) THEN refs[p] ELSE 0

(***************************************************************************)
(* The reference count of a packet is the number of events that carry it,  *)
(* the one being handled included: none is freed under an event, and none  *)
(* is left over when the loop ends (packet.c:36-51, sim.c:86-91, 162).     *)
(***************************************************************************)
RefcountsExact ==
    \A p \in BagToSet(refs) \union {e.packet : e \in BagToSet(Pending)} : p # NoPacket =>
        RefCount(p) = Cardinality(Carrying(p))

(***************************************************************************)
(* The clock of events runs backwards when a route test is sent at a tick  *)
(* that has passed, but never by as much as a second: nothing in the queue *)
(* is due before the tick before (sim.c:149-158).                          *)
(***************************************************************************)
LessThanASecondLate == \A e \in BagToSet(Pending) : e.vtime > tick - Second

(***************************************************************************)
(* All the same the lines "Beacon" of the trace are in the order of time,  *)
(* or plotanim stops with "TIME OUT OF JOINT" (radio2/tools/plotanim:21).  *)
(***************************************************************************)
BeaconsInOrder == [][traced' >= traced]_traced

(***************************************************************************)
(* With an Eschaton the simulation ends, and with no packet left: every    *)
(* chain of timers and every data packet, sent from node to node as long   *)
(* as it may, runs into it (sim.c:86, 97).                                 *)
(***************************************************************************)
Ends == pc = "loop" ~> pc = "done" /\ refs = EmptyBag

\* the data packets on their way to the node that is to forward them
Routing == {e \in BagToSet(Pending) : /\ e.packet.content.type = "data"
                                      /\ e.packet.content.hop = e.node}

(***************************************************************************)
(* A hop is always a link that works both ways: a node only routes over    *)
(* those whose beacons have told it that they hear it (node.c:90, 190).    *)
(***************************************************************************)
RoutesBothWays ==
    \A n \in Node : \A hop \in Hops(n) \ {Nobody} :
        pc # "read" => hop \in Hearers(n) /\ n \in Hearers(hop)

(***************************************************************************)
(* A data packet is passed on, never multiplied: of all the nodes that     *)
(* hear it one forwards it, so that one copy at most is ever under way     *)
(* (node.c:241, 265, sim.c:79-91).                                         *)
(***************************************************************************)
NeverMultiplied ==
    \A e, f \in Routing :
        LET sent(x) == <<x.packet.content.src, x.packet.content.vtime>>
        IN  sent(e) = sent(f) => e = f
=============================================================================
