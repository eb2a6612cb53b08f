------------------------------- MODULE Neigh -------------------------------
(***************************************************************************)
(* radio2/src/neigh.c: the neighbour table as a sequence of entries, in    *)
(* the order their nodes were first heard of.  An entry is a record with   *)
(* at least an id and a stratum.                                           *)
(***************************************************************************)
EXTENDS Naturals, Sequences, SequencesExt

StratumInf == 10  \* NEIGH_STRATUM_INF

\* the index of id's entry, 0 when it has none
Slot(table, id) == SelectInSeq(table, LAMBDA e : e.id = id)

(***************************************************************************)
(* Whether neigh_table_insert lets an entry take the place of the one that *)
(* has its id.                                                             *)
(***************************************************************************)
Replaces(new, old) ==
    \/ new.stratum = StratumInf /\ old.stratum > 1
    \/ new.stratum <= old.stratum

(***************************************************************************)
(* neigh_table_insert.  Its assert fails when the result is longer than    *)
(* NEIGH_MAX.                                                              *)
(***************************************************************************)
Inserted(table, new) ==
    LET k == Slot(table, new.id)
    IN  IF k = 0 THEN Append(table, new)
        ELSE IF Replaces(new, table[k]) THEN [table EXCEPT ![k] = new]
        ELSE table

\* the assert of neigh_table_insert fails
Overfull(table, max) == Len(table) > max
=============================================================================
