----------------------------- MODULE MCBeacons -----------------------------
(* Small topologies for Beacons. *)
EXTENDS Beacons, TLC

CONSTANTS n0, n1, n2

Nodes == {n0, n1, n2}

\* the node that the ends of the line hear of each other by has threads
Middle == {n1}

Line3 == {<<n0, n1>>, <<n1, n0>>, <<n1, n2>>, <<n2, n1>>}

\* a survivor who heard the ended node itself, and one who heard of it
Outer == {n0, n2}

\* the ends of the line are alike
Ends == Permutations({n0, n2})
=============================================================================
