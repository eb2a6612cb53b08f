# old-radio in TLA+

The repository holds two versions of a mesh radio for small serial modems: `radio/serial/` (the
first) and `radio2/src/` (the second, with a simulator). This project models their control in
TLA+, checks it with TLC on small instances, and proves the most important results with TLAPS for
every instance. `PROJECT.json` lists, for machines, what this file explains: the components, the
runs, which lines every definition stands for, the hazards and the properties that watch them.

## 1. The system

### radio2/src

| component | state | operations | correct when |
|---|---|---|---|
| event queue `queue.c` | a binary heap in an array that grows and shrinks | `queue_insert`, `queue_pop`, `queue_top`, `_queue_resize` | events leave in the order of time, none is lost or repeated, the array always has room |
| node `node.c` | status, wake time, neighbour table | `node_init`, `node_set_status`, `node_timer`, `node_receive` (beacons, data), `node_route_*` | tables say only what the links allow, the network wakes, neighbours find each other |
| neighbour table `neigh.c` | entries in the order nodes were first heard of | `neigh_table_insert`, an iterator | a node has one entry, which is a bidirectional neighbour only if it has us in its own table |
| packets `packet.c` | a reference count | `packet_new`, `packet_clone`, `packet_free` | freed exactly when nobody holds it |
| routing, in `node.c` | the tables | `node_route_test`, `node_route_mfr`, `node_forward_data`, `node_receive_data` | a hop is a link that works both ways; one node passes a packet on |
| topology `topo.c` | a hash table of links | `topo_file_read`, `topo_insert`, an iterator | every link of the file is found once, with its last probability |
| simulator `sim.c` | the queue, the nodes, a clock of ticks | the loop of `main`, `sim_callback` | nothing leaks, times make sense, it ends |
| serial front end `serial.c` | one timer variable | the two loops of `main`, `serial_callback` | the node's timers are kept, though there is room for one |
| framing `radio.c`, `symbols.c`, `crc.c` | a receive buffer | `radio_send`, `radio_wait`, `radio_recv`; bytes to symbols and back; CRC-16 | only packets that were sent are received |
| virtual location `virtloc.c`, `loc.c` | positions | `virtloc_recalc`, a random walk | numeric; not modelled |

The front ends (`sim.c`, `serial.c`) call a node's handlers one at a time, and the node calls back
to send a packet or to ask for a timer. In the simulator both become events in the queue; on the
serial line a packet becomes a frame of symbols, and a timer a value of the one timer variable.

### radio/serial

| component | state | operations | correct when |
|---|---|---|---|
| packet queue `queue.c`, `use_queue.c` | a linked list, two mutexes, a condition variable | `queue_send_packet`, `queue_send_get_size`, the threads `queue_sender` and `queue_receiver`, `queue_stop` | packets leave once and in order, none waits for ever, the threads do not use the radio at once, and none stays at work when stopped |
| beacons `beacon.c` | a table with strata, stamps and on/off states | `beacon_recv`, `beacon_prepare`, `beacon_recalc` | tables have one entry a node, a neighbour is one that was heard, and one that has stopped fades |
| carrier sense: `virtloc.c`, `chatter.c`, `topofind.c`; with threads `tvirtloc.c`, `mvirtloc.c`, `tchatter.c` | what is left of a wait; `collision_mutex`, `beacon_mutex` | the waiting loops of `main`; `reader`, `writer` | a station does not send into a frame once it has noticed it, keeps a distance, and is put off only by what it hears |
| framing `sendrecv.c`, `symbols.c`, `crc.c` | as in radio2 | `send_packet`, `wait_packet`, `recv_packet` | as in radio2 |
| bench tools `spy.c`, `send_*.c`, `recv_*.c` | | only send, or only receive and print | not modelled |

### What is hard

Threads that share a list and a radio (`queue.c`) and are cancelled where they stand; stations
that share a channel and must not talk into each other, each with waits of its own (`virtloc.c`,
`tvirtloc.c`); beacons that are lost, late, or say what was true a moment ago (`node.c`,
`beacon.c`); packets routed over tables filled from such beacons; one variable for several timers
(`serial.c`); packets shared by events, and a clock that route tests turn back (`sim.c`); loops
whose intermediate states are out of order (`radio2/src/queue.c`); frames that are cut, damaged or
run together (`radio.c`). `PROJECT.json` lists these under "hazards", each at its line, with its
properties.

## 2. The modules

| module | models | composed of |
|---|---|---|
| `PriorityQueue` | what the event queue promises: a set from which an earliest event is taken | |
| `HeapQueue` | `radio2/src/queue.c`, one action a turn of a loop | implements `PriorityQueue` |
| `HeapQueueProofs` | its theorems | `HeapQueue` |
| `Neighbours` | what the beacon protocol establishes: tables as functions, beacons with any part of a table | |
| `NeighboursProofs` | its theorems | `Neighbours` |
| `Neigh` | `neigh.c`: the table as a sequence | |
| `NodeRules` | what the handlers of `node.c` work out: what a beacon lists, what is learnt from one, when one is ignored, which hop a packet takes | `Neigh` |
| `Mesh` | the protocol of `node.c` with its timers, events in any order | `NodeRules`; implements `Neighbours` |
| `MeshProofs` | its theorems, the refinement among them | `Mesh`; takes over those of `NeighboursProofs` |
| `Topo` | `topo.c`: the hash table, its insertion and its iterator, as operators | |
| `SimLoop` | reading the topology, the event loop of `sim.c` with its nodes, the packets they route, and their reference counts | `NodeRules`, `Topo`; its queue is the bag that `PriorityQueue` stands for |
| `SimLoopProofs` | theorems about `Topo`, and about the simulator with its nodes | `SimLoop` |
| `Serial` | `serial.c` with the part of `node.c` that sets timers | |
| `SerialProofs` | its theorems | `Serial` |
| `Codec` | `symbols.c` and `crc.c`, bit by bit | |
| `Framing` | `radio.c`: frames, their search and their decoding, and the loop that receives them | `Codec` |
| `TxQueue` | `radio/serial/queue.c` and `use_queue.c`, threads, mutexes, cancellation | |
| `TxQueueProofs` | its theorems | `TxQueue` |
| `Beacons` | `radio/serial/beacon.c` in the loop of `virtloc.c` or the threads of `tvirtloc.c` | |
| `BeaconsProofs` | its theorems | `Beacons` |
| `Stations` | when the programs of `radio/serial` send: the waiting loops, the readers and writers, and the channel | |
| `StationsProofs` | its theorems | `Stations` |
| `MC*` | small instances for TLC | |

How the state and the actions correspond to the code:

- **HeapQueue.** `events`, `nevents` and `size` are the fields of `queue_t`, `i` and `cur` the
  locals of the running call, `pc` which call runs. `Insert` is `queue_insert` up to its loop,
  `SiftUp` one turn of it, `Place` its end; `Pop`, `SiftDown` and `PopReturns` divide `queue_pop`
  and `_queue_heapify` in the same way. `_queue_resize` is `Resized` and `ResizeAsserts`.
- **Neighbours and Mesh.** `Timer` is all of `node_timer` with `node_beacon` and
  `node_set_status`; `Receive` and `Ignore` are `node_receive_beacon` with and without its early
  return. `timers` counts the timer events queued for a node, `air` holds the beacons queued for
  each hearer. Time is left out: timers fire and beacons arrive in any order, which includes every
  order the delays can produce. Two beacons with the same contents on one link count as one. In
  `Neighbours` the table is a function and a beacon carries any part of it; `Mesh` refines that
  with `StratumIn` as the table and `Heard` as the part.
- **NodeRules.** The functions of the handlers, without state: `BeaconEntries` is `node_beacon`,
  with `Listing` a turn of its loop; `Recorded` is what `node_receive_beacon` makes of a table,
  with `Learnt` a turn of its loop; `Routed` gives the answers of `node_route_mfr` when it is
  asked for a hop over direct neighbours. It is greedy over positions, and these are left open:
  `Routed` is every neighbour that some positions make the nearest, and none of them.
- **SimLoop.** `ReadLine` is a turn of `topo_file_read`, `Start` the end of it, `TickDue` the
  loop's `queue_pop` when a tick comes first, `RouteTest` one `node_route_test` of the tick, and
  `Timer`, `ReceiveBeacon` and `ReceiveData` the handlers, each with the `queue_pop` before it and
  the `packet_free` after it. Nodes keep their status, wake time and table as in `Mesh`, with room
  for every node. `Init` already holds the nodes that `main` makes after it has read the file
  (`LastNode`; `Mapped` of the proofs says that `topo_max_id` is that number then). The ttl, which
  nothing tests, is left out.
- **Topo.** A line is two integers and two probabilities, of which those that are positive make an
  entry (`Given`); `NodeId` is what a `node_id_t` of 16 bits keeps of an integer, so that 65536 is
  node 0 and -1 is NODE_ID_INVALID. `topo_insert` overwrites an entry of the same link
  (`Holding`). Of the iterator the order of its entries is left out: `Iterated` is the set of
  their cells.
- **Serial.** `Idle` is a turn of the inner loop that receives nothing, `Hear` and `Wake` one that
  receives a beacon, `Timer` the due timer. `vtime_from_wall` may be up to `Lag` later than what was
  waited for; each call of it is a choice of its own.
- **Framing.** `line` is what the serial line holds. `Wait` is one turn of `radio_wait`, `Recv(r)`
  one read of `radio_recv` that finds up to `r` symbols. A symbol is what `symbol_decode` makes of
  it, and the three reserved ones and invalid bytes are the negative numbers the table has for
  them, so that `Added` reproduces how they borrow from their neighbours when a damaged frame is
  unpacked. `SendThroughNoise` is the channel. `Returned` is what becomes of the bytes of a frame:
  more of them than `packet_buffer` has room for end the run in "overrun", since what C does then is
  undefined, and the check sum of nothing ends it in "failed", the assert of `packet_new`.
- **TxQueue.** One step is what another thread can see: locking, unlocking, waiting, or the body of
  a critical section. `caller` includes the receiver's handler, which may call
  `queue_send_packet`; it is a thread of its own here, which allows more interleavings.
  `pthread_cond_wait` may wake without a signal. `Stop` is `queue_stop`. A cancelled thread ends at
  its next cancellation point: `SenderEnds` in `pthread_cond_wait` (which locks the mutex again
  first) or `write`, `ReceiverEnds` in `poll` or `read`; waiting for a mutex is none. The mutexes
  are destroyed, which POSIX leaves undefined for a locked one; here a thread that comes to a free
  one may get it or not, and one that comes to a locked one waits, as in the C library.
- **Beacons.** `Send(n)` is what `virtloc.c` does after its inner loop, with the handling of the
  beacon by each node that hears it; the channel loses it for the others. With threads, `Prepare` is
  what the writer does under `beacon_mutex` and `SendPrepared` what it does under `collision_mutex`;
  in between the table may change. `Listing` and `Recorded` are the turns of the loops of
  `beacon_prepare` and `beacon_recv`, and `Prepared` and `Received` the functions themselves. A
  stamp is kept as its age. Beacons tell the stratum of entry `j` for node `i` as line 104 does.
- **Stations.** Here it is the packets that are left out, and time that counts, in ticks: `left`
  is what is left of the `poll` that runs, and starts again with each symbol; `since` the time
  since a station sent, which stands for `tv1`; `silent` the time since it sent or heard anything;
  `air` what is left of a frame. Each program has its own TIMEOUT, HOLDOFFMIN, HOLDOFFMAX and
  length of frames. `Waits` is the end of the inner loop (`virtloc.c:77-83`), the same in the
  three programs. `Tick` comes only when nobody has anything to do: the programs are fast against
  a holdoff. A frame that overlaps another is noise (`Spoils`), in which `recv_packet` may find an
  end anywhere or not at all. `send_packet` may return before the last symbols have left. The end
  of the programs is left out.

## 3. The runs

| run | checks | shows |
|---|---|---|
| `heap` | `HeapQueue` | eight events, two of each of four times; the array starts with one cell and grows to six, so it is doubled, capped, halved, and full. `IInv` is the invariant of the proofs, `ImplementsPriorityQueue` the refinement, `CallsReturn` termination |
| `neighbours` | `Neighbours` | three nodes, a link that works one way only, beacons lost: promises are kept, and a neighbour has us in its own table |
| `mesh` | `Mesh` | four nodes, one with more neighbours than a beacon has room for, a one-way link, losses: tables, timers, and the same promises |
| `mesh_live` | `Mesh` | three nodes, no losses, fair: it implements `Neighbours`, all nodes wake, neighbours settle |
| `tx` | `TxQueue` | two callers with three packets, the sender, the receiver and one foreign frame, in every interleaving, and `queue_stop` at any time after |
| `tx_silence` | `TxQueue` | a finding, see below |
| `beacons` | `Beacons` | a line of three nodes, the middle one with threads; entries time out and come back, one end may stop |
| `stations` | `Stations` | a `virtloc.c`, a `chatter.c` and a `tvirtloc.c` with their own times, of which the last does not hear the second: carrier sense, the gap after a packet, and that only traffic puts a station off |
| `sim` | `Topo`, `SimLoop`, `NodeRules` | files of up to three lines that collide in a table of seven cells, repeat links with other probabilities, link a node to itself, and hold numbers a `node_id_t` cannot; then three nodes with a one-way link, asleep or awake, to the end of time |
| `serial` | `Serial` | a started and a sleeping node; beacons at any time, a clock that may be late |
| `serial_assert` | `Serial` | a finding |
| `framing` | `Codec`, `Framing` | a packet of one byte and one of seven, the MTU here; one symbol of a frame replaced, lost or the rest cut; reads in pieces of 1, 5 or 9; timeouts anywhere |

Why the bounds are enough:

- `heap`: with six cells the heap has three levels, a last parent with one child, and both parities
  of `nevents`; equal times occur. The theorems below cover every size.
- `neighbours`, `mesh`, `mesh_live`: a stratum is 1, 2, 3 or INF, and beacons repeat only 1, 2 and
  INF, so a line of three nodes with a one-way chord has every rule of merging. `LinkDepth = 1` puts
  one beacon on each link at a time. That beacons of one sender may overtake each other is covered
  by the theorems, which hold for every `LinkDepth`. `BeaconMax = 3` cuts the beacons of the node
  with three neighbours in `mesh`. `AwakeOpt` is FALSE in both runs, the harder case: with it all
  nodes start awake.
- `tx`: two callers meet in the list, three packets give it a head, a middle and a tail; one foreign
  frame is enough for the receiver to take the mutex at any time, since the properties speak of one
  frame at a time.
- `beacons`: `Timeout = 0` makes an entry due one step of the clock after it was heard, so that it
  is on, out, and back on; with 1 the run finds the same in three times the time. `MaxStops = 1`
  makes one end of the line fall silent for good: the node next to it had it for a neighbour, the
  far one only heard of it. The two ends are alike, hence the symmetry, which is sound for
  invariants and for `EndedFades`, which says the same of every node.
- `stations`: one of each kind of program, with a tick of a tenth of a second: `virtloc.c` 1000 ms
  and 100 to 499, `chatter.c` 500 and 20 to 99, which become a tick, `tvirtloc.c` 5000 and 200 to
  999. A beacon takes four ticks, a full one at 9600 baud, and the frame of `chatter.c` one. That
  one station does not hear another makes frames collide around a third.
- `sim`: every file of up to three of seven lines is read; a `node_id_t` has eight values, so that
  8 is node 0 and -1 the last of them. A table of seven cells makes the links of all nodes
  collide, and `File` among them is simulated: a line of three with a link that works one way
  across it, so that tables hold entries that were only heard, and packets of node 2 must go round
  by node 1. The time-outs (6 and 7, with seconds of 2) give three ticks; with nodes that start
  awake the tables fill early enough for data to be forwarded. `PropDelay` has one value, so all
  hearers of a packet get it at once, in any order; with two values the run no longer ends in
  minutes. The timer delay may be shorter or longer than what comes between.
- `serial`: periods in the proportions of the code (a wake-up of 2.5 periods, a timer of half to
  three halves of one), long enough to sleep, wake, become awake and send twice more. `Lag = 1` is
  half of the shortest delay. A clock that is a whole timer late is beyond this bound.
- `framing`: all positions of a frame are damaged, by every reserved symbol, the invalid one and
  four data symbols. With `MTU = 7` the long packet fills `packet_buffer`, so that one damaged
  symbol of the preamble overruns it, and two frames run together overrun it or `recv_buffer`. The
  long packet begins with 255, 255, the check sum of nothing, so that a damaged symbol can make an
  empty one. One frame is damaged, in one symbol or from one on: what is said of noise is said of
  that.

Deadlock is checked except in `heap` (a failed assert ends the program), `serial` (it ends with the
time) and `framing` (it stops when all packets were sent).

### Fairness

- `HeapQueue`: a call that has begun goes on (`WF` of a turn of its loop). Nobody has to call.
- `Mesh`: every queued timer and beacon is popped in the end, since `queue_pop` takes the earliest
  and time goes on: `WF` for each node's timer, for the passing of its wake time, and for the
  arrival of a beacon on each link. Losses are excluded where liveness is checked, as in the
  simulator.
- `TxQueue`: the threads run. A lock that is free again and again is taken in the end (`SF` for
  `queue_send_mutex`): callers sleep between calls (`use_queue.c:37`), while POSIX mutexes by
  themselves promise less. The other mutex needs `WF` only: `AllSent` and `HeardIsRead` speak of the
  time when no more frames come, or the sender is at rest, so that nobody contends for it.
- `SimLoop`: one thread that goes on, `WF(Next)`.
- `Serial`, `Beacons`, `Stations`, `Framing`, `Neighbours`: safety only, no fairness. That a
  station that hears nothing sends in time is an invariant over the clock (`SpeaksUp`): in constant
  traffic it may never send, so that there is nothing more to promise.

## 4. The proofs

All assumptions are the ASSUMEs of the modules: sets of nodes are finite, links lead from one node
to another, sizes and times are numbers and positive where the code's constants are. One says
more: `FrameAssumption` of `Stations`, that a frame is shorter than the sender's TIMEOUT, and,
when that has threads, shorter by as much as any other frame. At 9600 baud, the default, a frame
of `chatter.c` takes some 52 ms and a full beacon, of 20 entries of 15 bytes, some 370 ms; TIMEOUT
is 500 ms for `chatter.c`, 1000 for `virtloc.c`, 2500 for `topofind.c` and 5000 for the programs
with threads. So any mix of them satisfies it; of slower rates the theorems say nothing. Every
inductive invariant was checked by TLC on the instance of its run, or a smaller one, before it was
proved.

Instead of induction the proofs take a least counterexample (`LeastNat`). `MeshProofs`,
`BeaconsProofs` and `SimLoopProofs` derive from it that a loop of n turns has a result after each
(`LoopRuns`). That makes it possible to reason about the loops of `node_beacon`,
`node_receive_beacon`, `beacon_prepare` and `beacon_recv`, which are recursive functions in the
models: such a function exists, and what every turn keeps holds of its result. Each of these modules
proves the few lemmas for itself.

**`HeapQueueProofs`**: for all times, items and array sizes, `IInv` is inductive (`Invariance`).
It says that between calls every event is due no earlier than its parent and, inside the loops,
that exactly one place is out of order: around the hole of `queue_insert` the argument is less
than all below it and the hole's parent is no later than its grandchildren (`UpOrder`), and around
the sinking element of `_queue_heapify` its parent is no later than its children (`DownOrder`).
Without the clauses about grandchildren the order is not preserved by a turn of a loop.
`HeapOrdered`, `FailsFull` and `NeverCopied` follow; `EarliestFirst`, that the root is earliest of
all, by a least-counterexample argument along the parents; `Implementation`, the refinement,
because a call takes effect in its first step and the other turns leave `Contents` alone.

**`NeighboursProofs`**: for every set of nodes, links, roots and `LinkDepth`, with losses and
reordering. `IInv` adds to `PromisesKept` and `WokenByAwake` what beacons on their way say
(`AirInv`): each carries entries that were true of its sender's links, and the links do not
change, so they are true whenever they arrive. This needs that a promise is about links and not
about tables, which is why `Promise` is stated so. `HeardUs` does relate two tables: it holds
because no node is forgotten, so that those a beacon lists are still in its sender's table when it
arrives, however late. `BidirectionalNeighbours`, `Awakening` and `HeardBack` follow.

**`MeshProofs`**: for every finite network, with or without losses, every size of tables, beacons
and channel. `IInv` adds to `TypeOK` and `TimerChains` that a table has a node once, and that
every beacon on the air, however old, lists its sender first and then nodes of its sender's table
in their order (`BeaconOK`): `neigh_table_insert` never moves an entry, so that this stays true
while the table changes. `Implementation` needs it twice. A beacon of `Neighbours` says which
entries it has and not in which order; with the order of the table there is one list for each such
set, so that two beacons on one link are the same there only when they are here, and receiving or
losing one takes one away (`BeaconOK` makes the mapping injective). And since a list has a node
once, the entry by entry insertion of `Recorded` is the one-step merge of `Neighbours` at every
node (`RecordedFacts`). Each action maps to a step of `Neighbours`, `Rest` to a stutter. With
that, `Promises`, `Awakening` and `HeardBack` are those of `NeighboursProofs`, cited under the
refinement mapping and not proved again. `Types` and `Chains` follow from `IInv`.

**`TxQueueProofs`**: for any number of callers and packets, with cancellation. `IInv` says who
holds which mutex at every place of every thread (`Locks`), that both ends of the list are null
together, and `NoLostWakeup` itself: it is inductive because a caller that finds the list empty is
the only place where an empty list is filled, and it wakes the sender in the same critical
section. `RadioExclusion` follows from `Locks` by the owner of one mutex. `InOrder` states the
list without recursion, through the history: the accepted packets from the first not yet taken are
linked one to the next, `head` and `tail` are their ends. It needs `Fresh`: no packet is put in
twice, and one that is on its way has no link and one caller only.

**`SerialProofs`**: for all periods, delays and lateness of the clock. `IInv` adds to `TimerPending`
and `AwakeInTime` that between the last beacon and the pending timer there is at least the shortest
delay (`Spaced`); `BeaconsApart` is then an action property of every step that sends.

**`StationsProofs`**: for any stations, links and times. `IInv` says that until the gap after a
packet has passed a station either receives or is in a wait of which enough is left, also when a
symbol makes `poll` start it again (`KeepsGap`); and that a loop that sends does not read, for its
next wait begins with TIMEOUT, which need not be longer than the gap. `Gap` follows, as only
`LoopSends` and `WriterSends` put a frame on the air.

`CarrierSensed` needs `SInv`, which relates what a station does to the frames that others have on
the air around it: while one is under way and nothing has collided, the reader of a station is in
it or in a wait that each of its symbols starts afresh (`KeptFrom`), unless the station has just
sent itself; and of two frames that are audible at once the one has spoilt the other, or both
began while the station's own was on the air (`Alone`). A station whose own frame ends in the
middle of another's has not heard its start; it does not talk into its rest because its next wait,
TIMEOUT, is longer: here `FrameAssumption` is used. `Carrier` follows. It says of the instant in
which a frame begins only who may send then: a station that has read nothing yet, or a threaded
one whose reader has read the start and has not locked `collision_mutex`. That the reader locks it
before the next tick is how `Tick` takes the scheduler.

`SpeaksUp` needs `PInv`: but in the instant in which a frame begins, how long a station has been
silent and what is left of its wait together do not exceed its longest wait (`Waiting`), because
each symbol that starts a `poll` again ends the silence too. `Patience` is that invariant,
`Speaks` the theorem.

**`BeaconsProofs`**: for every finite set of nodes, any links, threads, table size and time-out.
`IInv` says that a table starts with its own entry, on and at stratum 0, and has every other node
once and not at stratum 0, and that a beacon prepared and not yet sent starts with its sender and
has no other node at stratum 0 (`TableOf`, `BeaconOf`). That the strata of a beacon belong to
other entries (`beacon.c:104`) does no harm here, because the shift never takes another node's
stratum from place one: the own entry is always listed first. A table therefore has no more
entries than there are nodes (`TableSize`, by counting), so that with enough room the assert of
`beacon_recv` never fails (`Types`), each beacon satisfies the other assert (`OwnEntryFirst`),
only what was heard is at stratum 1 (`RumoursMakeNoNeighbour`), and no beacon makes anybody but
its sender a neighbour, from which `Fading` follows. The strata told may grow up to INF on their
way through tables with gaps, which is why `TypeOK` bounds them by INF and not by MAXSTRAT.

**`SimLoopProofs`**: for every topology file, every size of a hash table with two cells and more
for each line, all delays, time-outs and options. All six safety properties of the run `sim` are
proved, in three parts.

- *The file.* Node numbers and probabilities are any integers. `Reached` says of the table of
  `topo.c` that between the cell where the search for a link begins and the one that holds it no
  cell is empty; with `Distinct`, that no link is there twice, this is what the iterator, which
  stops at the first empty cell, relies on. `InsertFacts` shows that `topo_insert` keeps both,
  whether it takes an empty cell or overwrites an entry of the same link (`Replaced`), and the
  loops end because a cell is always left (`RoomLeft`). A link of a node to itself, which leaves
  its cell empty, is the case that makes the statement delicate: such a link is lost, and no
  other. `FileRead` is the invariant while lines are read: the entries are those of the lines so
  far, the last of each link. `Links` is the theorem.
- *The loop.* `IInv` holds what the queue, the clock and the counts owe each other. None of the
  properties is inductive. `LessThanASecondLate` needs that nothing is overdue while route tests
  are sent (`Clock`), as they are queued from the time of the tick on. `BeaconsInOrder` needs that
  no event but a data packet is due before the last beacon, nor before the event that the tick has
  put off (`InOrder`): the clock does run backwards, but only for data packets. `RefcountsExact`
  needs that an event with a packet is queued once (`Single`), since queue and references are
  bags, and that the event put off is not in the queue as well (`Counted`). `NeverMultiplied`
  needs that a data packet is told from all others by its source and its tick, and that the nodes
  from the tester on have not sent a test at this tick (`Tested`). What the three handlers do to
  the queue is one relation (`Moved`), and that it keeps the invariant is proved once for all of
  them.
- *The routes.* `Routes` adds that main makes all the nodes of the file (`Mapped`), and that every
  entry of every table, and of every beacon under way, says only what its node knows (`Truthful`):
  a neighbour is heard, and one of stratum 1 hears the node too. It must speak of beacons, for
  they carry tables that have changed since. `RoutesBothWays` follows, for any choice of the
  nearest.

In these proofs the queue is the bag; that the heap of `queue.c` behaves like one that is popped in
order is the refinement of `HeapQueueProofs`.

What stays with TLC: liveness (`CallsReturn`, `AllWake`, `NeighboursSettle`, `AllSent`,
`HeardIsRead`, `StopEndsBoth`, `Ends`) and fairness, which are out of the prover's reach; and
everything about `Codec` and `Framing`, which use bitwise operators that the provers have no
theory of (`BoundsKept`, `ReceivedInOrder` and `AloneReceived`). Every other safety and action
property of the passing runs is proved.

## 5. Findings

1. `tx_silence`, `SendsOnlyInSilence`: `queue_holdoff_mutex` is meant to keep the sender quiet while
   the receiver receives (`queue.c:25`). The receiver takes it only after it has read the start of a
   frame (162-163), so the sender can begin in between. `RadioExclusion`, that they are
   not both at the radio under the mutex, does hold.
2. `serial_assert`, `AssertHolds`: the assert in `serial_callback` (`serial.c:41`) fails when a node
   is woken or becomes awake, because `node.c` then asks for a second, later timer. Compiled with
   asserts the program ends there; the model ends with it.

Behaviours that no property of a run speaks against, and that are modelled as they are:

- every node that slept runs three chains of timers and beacons three times as often as an awake one
  (`TimerChains`);
- a beacon of the first version tells wrong strata once an entry was skipped (`beacon.c:104`), and
  survivors keep a rumour at INF about a stopped node going for ever; what they cannot do is take it
  for a neighbour again (`EndedFades`);
- `beacon_recv` takes its own id in a beacon at INF for the sign that the sender hears it ("If our
  id isn't in the packet, maybe we can't be heard by this node", `beacon.c:59`). Rumours at INF
  are passed on (81, 101), so the id may come from a third node, and over a link that works one
  way the table lists a neighbour that cannot hear. On a ring of three with one such link TLC
  finds it in seconds; it is kept as a remark because the runs go to what holds;
- in constant traffic a station may never send. Each packet that `virtloc.c` (1000, 100 to 499) hears
  in the last half second of its wait puts it off by up to half a second more, so that two others
  with their frames are enough to keep it beyond its time-out, turn after turn; with the times of
  `topofind.c` (2500, 500 to 1499) the same; and a `tvirtloc.c`, whose reader keeps the mutex for
  200 to 999 ms after each packet, may wait for ever beside one `chatter.c`, which sends every
  500. `SpeaksUp` says what is left: it is traffic and nothing else that keeps it;
- a loop restarts its `poll` with every symbol, so that frames that collide around it, or the rest
  of a frame whose start it missed, keep it silent as well;
- `tvirtloc.c` (58-59) has the race of the first finding: its reader locks `collision_mutex` after
  it has read the start of a frame, and the writer may send in between. No comment denies it
  there; `CarrierSensed` says how far it goes;
- a reception that comes to nothing sets n = 0 and takes back the holdoff of the packet before it
  (`virtloc.c:68, 80`); `GapKept` speaks of the others;
- a write error in `send_packet` (`sendrecv.c:98-102`) is not looked at (`queue.c:143`): the packet
  counts as sent, here as there;
- after `queue_stop` a thread may be left waiting for ever for `queue_holdoff_mutex`, with which the
  other has ended; the program ends soon after (`use_queue.c:45-48`);
- a frame that follows at once on another is lost with the rest of the read (`radio.c:154`);
- `symbols_to_bytes` does not know how large `packet_buffer` is ("May buffer overrrun",
  `symbols.c:61`), and `recv_buffer` holds more symbols than decode to that size (`radio.c:28,
  134, 181`). No undamaged frame overruns it, but a damaged one does: it is enough that one symbol
  of the preamble of a packet of full size becomes a data symbol. `recv_packet` of the first
  version takes the size of its array and does not use it either (`sendrecv.c:140, 187`);
- a packet that begins with the bytes 255, 255 is taken for an empty one when the symbol after
  them is damaged into an end, and the assert of `packet_new` ends the program (`radio.c:183`);
- "the same or lower stratum or has expired, replace it" says `neigh.c:22` of an entry of the
  table, and line 26 does not look at its time of expiry, nor does other code: an expired entry is
  not replaced by one of a higher stratum, and a node that has left keeps its stratum for ever;
- "DOESN'T HANDLE REPEATED ENTRIES CORRECTLY" says `topo.c:11`, and lines 32-36 do handle them in
  some way ("squish duplicates"): the entry of the later line replaces the earlier. What is not
  handled is a later line with probability zero, which takes nothing back (56, 60), and a link of
  a node to itself. `LinksFound` states what the code does, not what else the comment may have in
  mind;
- node numbers of a file are cut to 16 bits without a word (`topo.c:57, 61`): 65536 is node 0, and
  -1 is NODE_ID_INVALID.

## 6. What is not modelled

- Flooding in `node.c` (278-307), which is unfinished and does not compile; positions and the
  random walks (`virtloc.c`, `loc.c`, `beacon_recalc`), which are floating-point searches with
  random steps. Routing is modelled for every outcome of them; whether a route gets nearer to its
  end is not.
- `sim_route_test` (`sim.c:30-57`) and `topostats.c`, which print figures and change no state.
- The time of expiry of an entry of radio2, which nothing reads (the comment at `neigh.c:22` has
  no code); `neigh_table_cull`, `neigh_table_foreach` and `packet_copy`, which only tests call, or
  nobody.
- The millisecond, at most, that `sim_timer_delay` adds to a timer (`sim.c:71`); the iterator
  that `node_route_mfr` does not free; write errors of `send_packet`.
- What `queue_send_get_size` counts, which races with the sender (`queue.c:103`).
- The end of the programs in `Stations`; an interrupted loop sends once more and stops.
- Setting up and flushing serial ports, the tables generated by `symbols.py`, bench tools that only
  send or only receive, tests and plotters.
- `topo_insert`'s assert on 9000 entries: the table has 30000 cells, and here the assumption that it
  is never full.

What remains of the implementation is this list, includes and declarations: I/O set-up, printing,
generated tables and numerics. The components stay "partly" where a line of it belongs to them.

## 7. Plan

Done, in order of importance: the event queue and its proof; the beacon protocol with its proof
and its detailed version; the threaded packet queue with cancellation and its proof; the first
version's beacons, with the threads that share the table, and their proof; the channel and its
stations, with the proofs of the gap, of carrier sensing and of who is put off by what; the
simulator with its topology, tables and routing, and the proof of its six safety properties; the
serial front end and its proof; framing.

Next:

1. How many stations, with which holdoffs and frames, a channel of `Stations` can take before one of
   them is put off for ever.
2. Positions on a small grid for `Routed`, to check that a packet only goes in circles when they
   change.
3. A decision on what a node that has left must be to the tables of radio2, where nothing expires.
