------------------------------- MODULE MCMesh -------------------------------
(* Small topologies for Mesh. *)
EXTENDS Mesh

CONSTANTS n0, n1, n2, n3

Three == {n0, n1, n2}
Four  == {n0, n1, n2, n3}
First == {n0}

Line3 == {<<n0, n1>>, <<n1, n0>>, <<n1, n2>>, <<n2, n1>>}

\* a link from the far end to the root that works one way only
OneWay3 == Line3 \union {<<n2, n0>>}

\* n1 has one neighbour more than a beacon of three entries has room for
Kite4 == OneWay3 \union {<<n1, n3>>, <<n3, n1>>}
=============================================================================
