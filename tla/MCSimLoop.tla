----------------------------- MODULE MCSimLoop -----------------------------
(* Small topologies and options for SimLoop. *)
EXTENDS SimLoop

Line(n1, n2, to, from) == [node1 |-> n1, node2 |-> n2, to |-> to, from |-> from]

\* links both ways and one way, some that other lines repeat with another chance,
\* one to itself, and numbers that a node_id_t cannot hold: 8 is node 0, -1 is node 7
SomeLines ==
    {Line(0, 1, 2, 2), Line(2, 8, 2, 2), Line(1, 0, 1, 2), Line(2, 0, 0, 2),
     Line(2, 1, 2, 2), Line(2, 2, 2, 2), Line(-1, 1, 0, 1)}

\* both ways all along, and node 2 hears node 0 without being heard by it
OneWay3 == <<Line(0, 1, 2, 2), Line(2, 1, 2, 2), Line(2, 0, 0, 2)>>

\* nodes that sleep have more timers, and awake ones come to forward packets sooner
SleepingAndAwake == {[opts |-> {"R"}, timeout |-> 6], [opts |-> {"R", "A"}, timeout |-> 7]}
=============================================================================
