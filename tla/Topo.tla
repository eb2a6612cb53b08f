-------------------------------- MODULE Topo --------------------------------
(***************************************************************************)
(* radio2/src/topo.c: the links of a topology file in a hash table with    *)
(* linear probing.  A cell is empty when its entry leads from a node to    *)
(* itself, as those of a new table do.  A probability is any number: what  *)
(* counts is whether it is positive, and which one an entry has.           *)
(***************************************************************************)
EXTENDS Integers, Sequences, FiniteSets, FiniteSetsExt

CONSTANTS
    TableSize, \* TOPO_TABLESIZE
    TableOffs, \* TOPO_TABLEOFFS: how far apart the cells of two nodes begin
    NodeIds    \* how many numbers a node_id_t can hold: 2^16

ASSUME TableAssumption == {TableSize, NodeIds} \subseteq Nat \ {0} /\ TableOffs \in Nat

\* the node_id_t that is left of an int
NodeId(i) == i % NodeIds

Entry(src, dst, prob) == [src |-> src, dst |-> dst, prob |-> prob]

Empty(entry) == entry.src = entry.dst

topo_new == [table |-> [n \in 0 .. TableSize - 1 |-> Entry(0, 0, 0)], max_id |-> 0]

\* the cell tried after k others
Cell(src, k) == (TableOffs * src + k) % TableSize

SameLink(e, f) == e.src = f.src /\ e.dst = f.dst

\* mutant: whole entries are compared, with their probabilities
HoldingAlike(table, entry) == {n \in DOMAIN table : table[n] = entry}

\* the cells that hold the link of an entry, and the empty ones
Holding(table, entry) == {n \in DOMAIN table : SameLink(table[n], entry)}
Vacant(table) == {n \in DOMAIN table : Empty(table[n])}

\* how many cells are tried before one of cells; they must not be none
Tried(src, cells) == Min({k \in 0 .. TableSize - 1 : Cell(src, k) \in cells})

\* an entry of the same link is overwritten; otherwise the first empty cell is
topo_insert(topo, entry) ==
    LET stops == Vacant(topo.table) \union Holding(topo.table, entry)
        n == Cell(entry.src, Tried(entry.src, stops))
    IN  [table |-> [topo.table EXCEPT ![n] = entry],
         max_id |-> IF Empty(topo.table[n]) THEN Max({topo.max_id, entry.src, entry.dst})
                    ELSE topo.max_id]

\* the two entries a line may make
EntryTo(line) == Entry(NodeId(line.node1), NodeId(line.node2), line.to)
EntryFrom(line) == Entry(NodeId(line.node2), NodeId(line.node1), line.from)

\* one turn of topo_file_read
LineRead(topo, line) ==
    LET there == IF line.to > 0 THEN topo_insert(topo, EntryTo(line)) ELSE topo
    IN  IF line.from > 0 THEN topo_insert(there, EntryFrom(line)) ELSE there

\* the cells an iterator for src comes to before one of stops
Probed(src, stops) ==
    {Cell(src, k) : k \in {i \in 0 .. TableSize - 1 : \A j \in 0 .. i : Cell(src, j) \notin stops}}

\* the cells whose entries topo_iter_next returns from a new iterator until NULL
Iterated(topo, src) ==
    {n \in Probed(src, Vacant(topo.table)) : topo.table[n].src = src}
=============================================================================
