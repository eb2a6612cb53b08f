---------------------------- MODULE MCNeighbours ----------------------------
(* Three nodes: two pairs that hear each other, and a link one way only. *)
EXTENDS Neighbours

CONSTANTS n0, n1, n2

Nodes == {n0, n1, n2}
Links == {<<n0, n1>>, <<n1, n0>>, <<n1, n2>>, <<n2, n1>>, <<n2, n0>>}
RootNode == {n0}
=============================================================================
