----------------------------- MODULE MCStations -----------------------------
(***************************************************************************)
(* A small network for Stations, in ticks of a tenth of a second: s0 runs  *)
(* virtloc.c (1000, 100 to 499), s1 chatter.c (500, 20 to 99), and s2      *)
(* tvirtloc.c (5000, 200 to 999).                                          *)
(***************************************************************************)
EXTENDS Stations

CONSTANTS s0, s1, s2

All3 == {s0, s1, s2}
OneThreaded == {s2}
OneChatter == {s1}
\* all hear each other, but for s1 that s2 does not hear
OneDeaf == {l \in Station \X Station : l[1] # l[2] /\ l # <<s1, s2>>}

\* what is n0 of s0, n1 of s1, and n2 of s2
PerStation(n0, n1, n2) == [s \in All3 |-> IF s = s0 THEN n0 ELSE IF s = s1 THEN n1 ELSE n2]
Timeouts == PerStation(10, 5, 50)
HoldoffMins == PerStation(1, 1, 2)
HoldoffMaxs == PerStation(5, 2, 10)
Airtimes == PerStation(4, 1, 4)
=============================================================================
