--------------------------- MODULE SimLoopProofs ----------------------------
(***************************************************************************)
(* Proofs about SimLoop, for every topology file, every size of the hash   *)
(* table that holds the file, and every range of delays: the six safety    *)
(* properties that sim.cfg checks.                                         *)
(*                                                                         *)
(* The parts: numbers and loops; the hash table of topo.c; bags; the       *)
(* invariant of the queue, the clock and the reference counts; its steps;  *)
(* and the tables of the nodes, from which their routes come.              *)
(***************************************************************************)
EXTENDS SimLoop, FiniteSetTheorems, TLAPS

-----------------------------------------------------------------------------
(***************************************************************************)
(* Numbers and loops. A least counterexample takes the place of an         *)
(* induction.                                                              *)
(***************************************************************************)

(* Some well-founded relation has all that is less.                        *)
LEMMA LessIsWellFounded ==
    \E R : /\ IsWellFoundedOn(R, Nat)
           /\ \A x, y \in Nat : x < y => <<x, y>> \in R
<1> DEFINE R == OpToRel(<, Nat)
<1>1. IsWellFoundedOn(R, Nat)
  BY NatLessThanWellFounded
<1>2. \A x, y \in Nat : x < y => <<x, y>> \in R
  BY Zenon DEF OpToRel
<1> QED
  BY <1>1, <1>2, Zenon

(* A set of numbers has a minimal element under such a relation.           *)
LEMMA MinimalElement ==
    ASSUME NEW R, IsWellFoundedOn(R, Nat), NEW S, S \subseteq Nat, S # {}
    PROVE  \E m \in S : \A n \in S : ~ (<<n, m>> \in R)
BY WFMin, Zenon

(* Every non-empty set of natural numbers has a least element.             *)
LEMMA LeastNat ==
    ASSUME NEW S, S \subseteq Nat, S # {}
    PROVE  \E m \in S : \A n \in S : m <= n
<1>1. PICK R : /\ IsWellFoundedOn(R, Nat)
               /\ \A x, y \in Nat : x < y => <<x, y>> \in R
  BY LessIsWellFounded
<1>2. PICK m \in S : \A n \in S : ~ (<<n, m>> \in R)
  BY <1>1, MinimalElement, Zenon
<1>3. \A x, y \in Nat : x < y => <<x, y>> \in R
  BY <1>1
<1>4. \A n \in S : ~ (n < m)
  BY <1>2, <1>3, Zenon
<1> QED
  BY <1>2, <1>4, SMT

(* Induction up to n, for the set of numbers that have the property.       *)
LEMMA Upwards ==
    ASSUME NEW n \in Nat, NEW S, 0 \in S, \A k \in 1 .. n : k - 1 \in S => k \in S
    PROVE  0 .. n \subseteq S
<1> DEFINE Fails == {m \in 0 .. n : m \notin S}
<1> SUFFICES ASSUME Fails # {} PROVE FALSE
  OBVIOUS
<1>1. PICK m \in Fails : \A k \in Fails : m <= k
  <2>1. Fails \subseteq Nat
    OBVIOUS
  <2> HIDE DEF Fails
  <2>2. QED
    BY <2>1, LeastNat
<1>2. m \in 1 .. n /\ m - 1 \in 0 .. n /\ ~(m <= m - 1) /\ m \notin S
  OBVIOUS
<1>3. m - 1 \notin Fails
  BY <1>1, <1>2
<1>4. QED
  BY <1>2, <1>3

(* The turns of a loop: each makes one result of another.                  *)
Turns(n, Result) == [1 .. n -> [Result -> Result]]

(* f holds the results of a loop after each of its n turns.                *)
RunOf(f, n, Result, start, turn) ==
    /\ f \in [0 .. n -> Result]
    /\ f[0] = start
    /\ \A k \in 1 .. n : f[k] = turn[k][f[k - 1]]

(* Every loop has results: the recursive function that stands for it       *)
(* exists.                                                                 *)
LEMMA LoopRuns ==
    ASSUME NEW Result, NEW start \in Result, NEW n \in Nat, NEW turn \in Turns(n, Result)
    PROVE  \E f : RunOf(f, n, Result, start, turn)
<1> DEFINE Holds(m) == \E f : RunOf(f, m, Result, start, turn)
<1>1. Holds(0)
  <2>1. [k \in 0 .. 0 |-> start] \in [0 .. 0 -> Result]
    OBVIOUS
  <2>2. [k \in 0 .. 0 |-> start][0] = start /\ 1 .. 0 = {}
    OBVIOUS
  <2>3. QED
    BY <2>1, <2>2 DEF RunOf
<1>2. ASSUME NEW m \in 1 .. n, Holds(m - 1)
      PROVE  Holds(m)
  <2>1. PICK f : RunOf(f, m - 1, Result, start, turn)
    BY <1>2
  <2> DEFINE g == [k \in 0 .. m |-> IF k = m THEN turn[m][f[m - 1]] ELSE f[k]]
  <2>2. f \in [0 .. m - 1 -> Result] /\ turn[m] \in [Result -> Result]
    BY <2>1 DEF RunOf, Turns
  <2>3. g \in [0 .. m -> Result]
    BY <2>2
  <2>4. g[0] = start
    BY <2>1 DEF RunOf
  <2>5. ASSUME NEW k \in 1 .. m PROVE g[k] = turn[k][g[k - 1]]
    <3>1. g[k - 1] = f[k - 1]
      OBVIOUS
    <3>2. CASE k = m
      <4>1. m \in 0 .. m /\ g[m] = turn[m][f[m - 1]]
        OBVIOUS
      <4> HIDE DEF g
      <4>2. QED
        BY <3>1, <3>2, <4>1
    <3>3. CASE k # m
      <4>1. k \in 1 .. m - 1 /\ g[k] = f[k]
        BY <3>3
      <4>2. QED
        BY <2>1, <3>1, <4>1 DEF RunOf
    <3>4. QED
      BY <3>2, <3>3
  <2> HIDE DEF g
  <2>6. QED
    BY <2>3, <2>4, <2>5 DEF RunOf
<1> DEFINE S == {m \in 0 .. n : Holds(m)}
<1>3. 0 \in S
  BY <1>1
<1>4. \A m \in 1 .. n : m - 1 \in S => m \in S
  <2> HIDE DEF Holds
  <2>1. QED
    BY <1>2
<1>5. 0 .. n \subseteq S
  <2> HIDE DEF S
  <2>1. QED
    BY <1>3, <1>4, Upwards
<1>6. QED
  BY <1>5

(* What is left of a number by division.                                   *)
LEMMA Remainder ==
    ASSUME NEW s \in Nat \ {0}, NEW y \in Nat
    PROVE  y % s \in 0 .. s - 1 /\ \E q \in Nat : y = s * q + (y % s)
<1>1. y % s \in 0 .. s - 1
  BY Z3
<1>2. y = s * (y \div s) + (y % s) /\ y \div s \in Nat
  BY Z3
<1>3. QED
  BY <1>1, <1>2

(* A multiple of s is s or more.                                           *)
LEMMA AtLeastOnce == ASSUME NEW s \in Nat \ {0}, NEW d \in Int, d >= 1 PROVE s * d >= s
OBVIOUS

(* A number has only one remainder.                                        *)
LEMMA OneRemainder ==
    ASSUME NEW s \in Nat \ {0}, NEW p \in Int, NEW q \in Int,
           NEW r \in 0 .. s - 1, NEW t \in 0 .. s - 1, s * p + r = s * q + t
    PROVE  r = t
<1>1. CASE p = q
  BY <1>1
<1>2. CASE p > q
  <2>1. s * (p - q) >= s
    BY <1>2, AtLeastOnce
  <2>2. s * p - s * q = s * (p - q)
    OBVIOUS
  <2>3. s * p - s * q = t - r
    OBVIOUS
  <2>4. QED
    BY <2>1, <2>2, <2>3
<1>3. CASE p < q
  <2>1. s * (q - p) >= s
    BY <1>3, AtLeastOnce
  <2>2. s * q - s * p = s * (q - p)
    OBVIOUS
  <2>3. s * q - s * p = r - t
    OBVIOUS
  <2>4. QED
    BY <2>1, <2>2, <2>3
<1>4. QED
  BY <1>1, <1>2, <1>3

-----------------------------------------------------------------------------
(***************************************************************************)
(* The hash table of a topology. The iterator of a node stops at the first *)
(* empty cell, so a link is found as long as no cell is empty between      *)
(* where the search for it begins and where it is: topo_insert must keep   *)
(* that up for every link, whatever else has filled the cells on the way   *)
(* (topo.c:27-44, 83-100).                                                 *)
(***************************************************************************)

(* The cell tried after k others is a cell of the table.                   *)
LEMMA CellType ==
    ASSUME NEW src \in Nat, NEW k \in Nat
    PROVE  Cell(src, k) \in 0 .. TableSize - 1
<1>1. TableOffs * src + k \in Nat /\ TableSize \in Nat \ {0}
  BY TableAssumption
<1>2. QED
  BY <1>1, Remainder DEF Cell

(* Trying one cell after the other from anywhere, every cell of the table  *)
(* has been tried after as many as it has.                                 *)
LEMMA AllCells ==
    ASSUME NEW src \in Nat, NEW c \in 0 .. TableSize - 1
    PROVE  \E k \in 0 .. TableSize - 1 : Cell(src, k) = c
<1> DEFINE s == TableSize
           x == TableOffs * src
           r == x % s
           k == IF c >= r THEN c - r ELSE c - r + s
<1>1. s \in Nat \ {0} /\ x \in Nat
  BY TableAssumption
<1>2. r \in 0 .. s - 1
  BY <1>1, Remainder
<1>3. PICK q \in Nat : x = s * q + r
  BY <1>1, Remainder
<1> HIDE DEF x, r, s
<1>4. k \in 0 .. s - 1 /\ c \in 0 .. s - 1 /\ c \in Int
  BY <1>1, <1>2 DEF s
<1>5. \E p \in Int : x + k = s * p + c
  <2>1. CASE c >= r
    <3>1. x + k = s * q + c
      BY <1>1, <1>2, <1>3, <2>1
    <3>2. QED
      BY <3>1
  <2>2. CASE ~(c >= r)
    <3>1. x + k = s * q + s + c
      BY <1>1, <1>2, <1>3, <2>2
    <3>2. s * (q + 1) = s * q + s
      BY <1>1
    <3>3. x + k = s * (q + 1) + c /\ q + 1 \in Int
      BY <3>1, <3>2
    <3>4. QED
      BY <3>3
  <2>3. QED
    BY <2>1, <2>2
<1> HIDE DEF k
<1>6. PICK p \in Int : x + k = s * p + c
  BY <1>5
<1>7. x + k \in Nat
  BY <1>1, <1>4
<1>8. PICK t \in Nat : x + k = s * t + ((x + k) % s)
  BY <1>1, <1>7, Remainder
<1>9. (x + k) % s \in 0 .. s - 1
  BY <1>1, <1>7, Remainder
<1>10. (x + k) % s = c
  <2> DEFINE y == (x + k) % s
  <2>1. s * p + c = s * t + y /\ p \in Int /\ t \in Int /\ y \in 0 .. s - 1 /\ c \in 0 .. s - 1
    BY <1>4, <1>6, <1>8, <1>9
  <2> HIDE DEF y
  <2>2. y = c
    BY <1>1, <2>1, OneRemainder
  <2>3. QED
    BY <2>2 DEF y
<1>11. Cell(src, k) = c
  BY <1>10 DEF Cell, x, s
<1>12. QED
  BY <1>4, <1>11 DEF s

(* The entries a topology is made of, and the contents its table can have. *)
Entries == [src : Nat, dst : Nat, prob : Int]
Tables == [0 .. TableSize - 1 -> Entries]

(* The cells that are not empty.                                           *)
Used(t) == {c \in 0 .. TableSize - 1 : ~Empty(t[c])}

(* Every link is found from where the search for it begins: no cell on the *)
(* way is empty.                                                           *)
Reached(t) ==
    \A c \in Used(t) : \E k \in 0 .. TableSize - 1 :
        /\ Cell(t[c].src, k) = c
        /\ \A j \in 0 .. k : Cell(t[c].src, j) \in Used(t)

(* No link is in the table twice.                                          *)
Distinct(t) == \A c, d \in Used(t) : SameLink(t[c], t[d]) => c = d

(* What topo_insert keeps of a table.                                      *)
SoundTable(t) == t \in Tables /\ Reached(t) /\ Distinct(t)

(* What is in a table.                                                     *)
EntriesOf(t) == {t[c] : c \in Used(t)}

(* The used cells can be counted.                                          *)
LEMMA UsedFinite ==
    ASSUME NEW t
    PROVE  IsFiniteSet(Used(t)) /\ Cardinality(Used(t)) \in Nat
<1>1. IsFiniteSet(0 .. TableSize - 1)
  <2>1. 0 \in Int /\ TableSize - 1 \in Int
    BY TableAssumption
  <2>2. QED
    BY <2>1, FS_Interval
<1>2. Used(t) \in SUBSET (0 .. TableSize - 1)
  BY DEF Used
<1>3. QED
  BY <1>1, <1>2, FS_Subset, FS_CardinalityType

(* A table with fewer used cells than cells has an empty one.              *)
LEMMA RoomLeft ==
    ASSUME NEW t, Cardinality(Used(t)) < TableSize
    PROVE  \E c \in 0 .. TableSize - 1 : c \notin Used(t)
<1> SUFFICES ASSUME \A c \in 0 .. TableSize - 1 : c \in Used(t) PROVE FALSE
  OBVIOUS
<1>1. Used(t) = 0 .. TableSize - 1
  BY DEF Used
<1>2. Cardinality(0 .. TableSize - 1) = TableSize
  <2>1. /\ 0 \in Int /\ TableSize - 1 \in Int /\ ~(0 > TableSize - 1)
        /\ TableSize - 1 - 0 + 1 = TableSize
    BY TableAssumption
  <2>2. QED
    BY <2>1, FS_Interval
<1>3. QED
  BY <1>1, <1>2, TableAssumption

(* The loop that tries cells until it comes to one of some cells ends, and *)
(* at the first of them, when there is one at all.                         *)
LEMMA TriedFacts ==
    ASSUME NEW src \in Nat, NEW cells, NEW c \in 0 .. TableSize - 1, c \in cells
    PROVE  /\ Tried(src, cells) \in 0 .. TableSize - 1
           /\ Cell(src, Tried(src, cells)) \in cells
           /\ \A k \in 0 .. TableSize - 1 : Cell(src, k) \in cells => Tried(src, cells) <= k
<1> DEFINE hits == {k \in 0 .. TableSize - 1 : Cell(src, k) \in cells}
<1>1. hits # {}
  BY AllCells
<1>2. hits \subseteq Nat
  BY TableAssumption
<1>3. \E k \in hits : \A j \in hits : k <= j
  <2> HIDE DEF hits
  <2>1. QED
    BY <1>1, <1>2, LeastNat
<1>4. Min(hits) \in hits /\ \A j \in hits : Min(hits) <= j
  <2> HIDE DEF hits
  <2>1. QED
    BY <1>3 DEF Min
<1>5. Tried(src, cells) = Min(hits)
  BY DEF Tried
<1>6. QED
  BY <1>4, <1>5

(* The entries that lead to another node: a link of a node to itself       *)
(* leaves its cell empty.                                                  *)
Others(entries) == {e \in entries : ~Empty(e)}

(* The entries when one more has been read.                                *)
Replaced(entries, e) == {f \in entries : ~SameLink(f, e)} \union {e}

(* m is the greatest number in the links, or 0 when there are none.        *)
Greatest(m, links) ==
    /\ links \subseteq Nat \X Nat
    /\ m \in {0} \union {l[1] : l \in links} \union {l[2] : l \in links}
    /\ \A l \in links : l[1] <= m /\ l[2] <= m

(* A topology with these entries, the last of each of these links: all of  *)
(* them in the table but those of a node to itself, and max_id the         *)
(* greatest number in a link.                                              *)
Has(a, entries, links) ==
    /\ SoundTable(a.table) /\ a.max_id \in Nat
    /\ EntriesOf(a.table) = Others(entries)
    /\ \A e \in entries : <<e.src, e.dst>> \in links
    /\ Greatest(a.max_id, links)

(* The greatest number in the links when one more link has been read.      *)
LEMMA MoreGreatest ==
    ASSUME NEW m \in Nat, NEW links, Greatest(m, links), NEW a \in Nat, NEW b \in Nat,
           NEW k \in {m, a, b}, k >= m, k >= a, k >= b
    PROVE  Greatest(k, links \union {<<a, b>>})
<1> DEFINE more == links \union {<<a, b>>}
<1>1. /\ <<a, b>> \in more /\ <<a, b>>[1] = a /\ <<a, b>>[2] = b
      /\ links \subseteq more /\ more \subseteq Nat \X Nat
  BY DEF Greatest
<1>2. k \in {0} \union {l[1] : l \in more} \union {l[2] : l \in more}
  <2> HIDE DEF more
  <2>1. a \in {l[1] : l \in more} /\ b \in {l[2] : l \in more}
    BY <1>1
  <2>2. m \in {0} \union {l[1] : l \in more} \union {l[2] : l \in more}
    BY <1>1 DEF Greatest
  <2>3. QED
    BY <2>1, <2>2
<1>3. ASSUME NEW l \in more PROVE l[1] <= k /\ l[2] <= k
  <2>1. CASE l \in links
    <3>1. l[1] <= m /\ l[2] <= m /\ l[1] \in Nat /\ l[2] \in Nat
      BY <2>1 DEF Greatest
    <3>2. QED
      BY <3>1
  <2>2. CASE l = <<a, b>>
    BY <2>2
  <2>3. QED
    BY <2>1, <2>2
<1>4. QED
  BY <1>1, <1>2, <1>3 DEF Greatest

(* topo_insert adds its entry to the topology, in the place of one for the *)
(* same link, and loses no other, as long as a cell is empty: the cell it  *)
(* takes is the first empty one on the way of its link, and the ways of    *)
(* the others only become fuller.                                          *)
LEMMA InsertFacts ==
    ASSUME NEW old, NEW entries, NEW links, Has(old, entries, links), NEW entry \in Entries,
           NEW m \in Nat, Cardinality(Used(old.table)) <= m, m < TableSize
    PROVE  LET new == topo_insert(old, entry)
           IN  /\ Has(new, Replaced(entries, entry), links \union {<<entry.src, entry.dst>>})
               /\ Cardinality(Used(new.table)) <= m + 1
<1> DEFINE t == old.table
           a == entry.src
           b == entry.dst
           stops == Vacant(t) \union Holding(t, entry)
           steps == Tried(a, stops)
           c == Cell(a, steps)
           u == [t EXCEPT ![c] = entry]
           new == topo_insert(old, entry)
           more == links \union {<<a, b>>}
<1>1. /\ t \in Tables /\ Reached(t) /\ Distinct(t) /\ SoundTable(t) /\ old.max_id \in Nat
      /\ EntriesOf(t) = Others(entries) /\ Greatest(old.max_id, links)
      /\ \A e \in entries : <<e.src, e.dst>> \in links
  BY DEF SoundTable, Has
<1>2. a \in Nat /\ b \in Nat /\ (Empty(entry) <=> a = b)
  BY DEF Entries, Empty
<1>3. DOMAIN t = 0 .. TableSize - 1
  BY <1>1 DEF Tables
<1>4. Cardinality(Used(t)) \in Nat /\ Cardinality(Used(t)) < TableSize /\ IsFiniteSet(Used(t))
  BY UsedFinite, TableAssumption
<1>5. PICK room \in 0 .. TableSize - 1 : room \notin Used(t)
  BY <1>4, RoomLeft
<1>6. room \in stops
  BY <1>3, <1>5 DEF Vacant, Used
<1>7. /\ steps \in 0 .. TableSize - 1 /\ c \in stops
      /\ \A k \in 0 .. TableSize - 1 : Cell(a, k) \in stops => steps <= k
  <2> HIDE DEF stops
  <2>1. QED
    BY <1>2, <1>6, TriedFacts
<1>8. \A d \in 0 .. TableSize - 1 : d \notin stops => d \in Used(t)
  BY <1>3 DEF Vacant, Used
<1>9. c \in 0 .. TableSize - 1
  BY <1>3, <1>7 DEF Vacant, Holding
<1>10. new = [table |-> u, max_id |-> IF Empty(t[c]) THEN Max({old.max_id, a, b})
                                      ELSE old.max_id]
  BY DEF topo_insert
<1>11. u \in Tables /\ u[c] = entry /\ \A d \in 0 .. TableSize - 1 : d # c => u[d] = t[d]
  BY <1>1, <1>9 DEF Tables
<1>12. \A e \in Replaced(entries, entry) : <<e.src, e.dst>> \in more
  BY <1>1 DEF Replaced
<1>13. Others(Replaced(entries, entry)) =
           {e \in EntriesOf(t) : ~SameLink(e, entry)} \union (IF a = b THEN {} ELSE {entry})
  BY <1>1, <1>2 DEF Others, Replaced
<1>14. \A d \in Used(t) : SameLink(t[d], entry) => d \in stops
  BY <1>3 DEF Holding, Used
<1> HIDE DEF c, steps, stops, u, new
<1>15. CASE ~Empty(t[c])
  <2>1. c \in Used(t) /\ SameLink(t[c], entry) /\ a # b
    BY <1>7, <1>9, <1>15 DEF Used, stops, Vacant, Holding, SameLink, Empty
  <2>2. Used(u) = Used(t)
    BY <1>2, <1>9, <1>11, <2>1 DEF Used
  <2>3. \A d \in Used(t) : SameLink(u[d], t[d]) /\ u[d].src = t[d].src
    BY <1>11, <2>1 DEF SameLink, Used
  <2>4. Reached(u)
    <3>1. SUFFICES ASSUME NEW d \in Used(u)
                   PROVE  \E k \in 0 .. TableSize - 1 :
                              /\ Cell(u[d].src, k) = d
                              /\ \A j \in 0 .. k : Cell(u[d].src, j) \in Used(u)
      BY DEF Reached
    <3>2. QED
      BY <1>1, <2>2, <2>3, <3>1 DEF Reached
  <2>5. Distinct(u)
    BY <1>1, <2>2, <2>3 DEF Distinct, SameLink
  <2>6. EntriesOf(u) = {e \in EntriesOf(t) : ~SameLink(e, entry)} \union {entry}
    <3>1. \A d \in Used(t) : d # c => ~SameLink(t[d], entry)
      BY <1>1, <2>1 DEF Distinct, SameLink
    <3>2. \A d \in Used(t) : d # c => u[d] = t[d]
      BY <1>11 DEF Used
    <3>3. QED
      BY <1>11, <2>1, <2>2, <3>1, <3>2 DEF EntriesOf
  <2>7. <<a, b>> \in links
    <3>1. t[c] \in entries
      BY <1>1, <2>1 DEF EntriesOf, Others
    <3>2. t[c].src = a /\ t[c].dst = b
      BY <2>1 DEF SameLink
    <3>3. QED
      BY <1>1, <3>1, <3>2
  <2>8. more = links
    BY <2>7
  <2>9. EntriesOf(u) = Others(Replaced(entries, entry))
    BY <1>13, <2>1, <2>6
  <2>10. new.table = u /\ new.max_id = old.max_id
    BY <1>10, <1>15
  <2>11. SoundTable(u)
    BY <1>11, <2>4, <2>5 DEF SoundTable
  <2>12. Cardinality(Used(u)) <= m + 1
    BY <1>4, <2>2
  <2> HIDE DEF more
  <2>13. Has(new, Replaced(entries, entry), more)
    BY <1>1, <1>12, <2>8, <2>9, <2>10, <2>11 DEF Has
  <2>14. QED
    BY <2>10, <2>12, <2>13 DEF new, more
<1>16. CASE Empty(t[c])
  <2>1. new = [table |-> u, max_id |-> Max({old.max_id, a, b})]
    BY <1>10, <1>16
  <2>2. Max({old.max_id, a, b}) \in Nat /\ Greatest(Max({old.max_id, a, b}), more)
    <3> DEFINE k == Max({old.max_id, a, b})
    <3>1. \E x \in {old.max_id, a, b} : \A y \in {old.max_id, a, b} : x >= y
      BY <1>1, <1>2
    <3>2. k \in {old.max_id, a, b} /\ k >= old.max_id /\ k >= a /\ k >= b
      BY <3>1 DEF Max
    <3> HIDE DEF k
    <3>3. QED
      BY <1>1, <1>2, <3>2, MoreGreatest DEF k
  <2>3. c \notin Used(t)
    BY <1>16 DEF Used
  <2>4. Used(u) = Used(t) \union (IF a = b THEN {} ELSE {c})
    BY <1>2, <1>9, <1>11, <2>3 DEF Used
  <2>5. \A d \in Used(t) : u[d] = t[d]
    BY <1>11, <2>3 DEF Used
  <2>6. ASSUME a # b, NEW d \in Used(t)
        PROVE  ~SameLink(t[d], entry)
    <3>1. SUFFICES ASSUME SameLink(t[d], entry) PROVE FALSE
      OBVIOUS
    <3>2. t[d].src = a
      BY <3>1 DEF SameLink
    <3>3. PICK k \in 0 .. TableSize - 1 :
              /\ Cell(a, k) = d
              /\ \A j \in 0 .. k : Cell(a, j) \in Used(t)
      BY <1>1, <3>2 DEF Reached
    <3>4. d \in stops
      BY <1>14, <3>1
    <3>5. steps \in 0 .. k
      BY <1>7, <3>3, <3>4
    <3>6. QED
      BY <2>3, <3>3, <3>5 DEF c
  <2>7. Distinct(u)
    <3>1. CASE a = b
      BY <1>1, <2>4, <2>5, <3>1 DEF Distinct
    <3>2. CASE a # b
      <4>1. \A d \in Used(t) : ~SameLink(u[d], u[c]) /\ ~SameLink(u[c], u[d])
        BY <1>11, <2>5, <2>6, <3>2 DEF SameLink
      <4>2. QED
        BY <1>1, <2>4, <2>5, <3>2, <4>1 DEF Distinct
    <3>3. QED
      BY <3>1, <3>2
  <2>8. Reached(u)
    <3>1. SUFFICES ASSUME NEW d \in Used(u)
                   PROVE  \E k \in 0 .. TableSize - 1 :
                              /\ Cell(u[d].src, k) = d
                              /\ \A j \in 0 .. k : Cell(u[d].src, j) \in Used(u)
      BY DEF Reached
    <3>2. CASE d \in Used(t)
      BY <1>1, <2>4, <2>5, <3>2 DEF Reached
    <3>3. CASE d \notin Used(t)
      <4>1. a # b /\ d = c /\ u[d].src = a
        BY <1>11, <2>4, <3>1, <3>3
      <4>2. ASSUME NEW j \in 0 .. steps
            PROVE  Cell(a, j) \in Used(u)
        <5>1. CASE j = steps
          BY <2>4, <4>1, <5>1 DEF c
        <5>2. CASE j # steps
          <6>1. j \in 0 .. TableSize - 1 /\ j \in Nat /\ ~(steps <= j)
            BY <1>7, <5>2, TableAssumption
          <6>2. Cell(a, j) \notin stops /\ Cell(a, j) \in 0 .. TableSize - 1
            BY <1>2, <1>7, <6>1, CellType
          <6>3. QED
            BY <1>8, <2>4, <6>2
        <5>3. QED
          BY <5>1, <5>2
      <4>3. QED
        BY <1>7, <4>1, <4>2 DEF c
    <3>4. QED
      BY <3>2, <3>3
  <2>9. Cardinality(Used(u)) <= m + 1
    <3>1. CASE a = b
      BY <1>4, <2>4, <3>1
    <3>2. CASE a # b
      <4>1. Used(u) = Used(t) \union {c}
        BY <2>4, <3>2
      <4>2. Cardinality(Used(u)) = Cardinality(Used(t)) + 1
        BY <1>4, <2>3, <4>1, FS_AddElement
      <4>3. QED
        BY <1>4, <4>2
    <3>3. QED
      BY <3>1, <3>2
  <2>10. EntriesOf(u) = Others(Replaced(entries, entry))
    <3>1. CASE a = b
      <4>1. \A e \in EntriesOf(t) : ~SameLink(e, entry)
        BY <1>2, <3>1 DEF EntriesOf, Used, SameLink, Empty
      <4>2. Used(u) = Used(t)
        BY <2>4, <3>1
      <4>3. EntriesOf(u) = EntriesOf(t)
        BY <2>5, <4>2 DEF EntriesOf
      <4>4. QED
        BY <1>13, <3>1, <4>1, <4>3
    <3>2. CASE a # b
      <4>1. \A e \in EntriesOf(t) : ~SameLink(e, entry)
        BY <2>6, <3>2 DEF EntriesOf
      <4>2. EntriesOf(u) = EntriesOf(t) \union {entry}
        BY <1>11, <2>4, <2>5, <3>2 DEF EntriesOf
      <4>3. QED
        BY <1>13, <3>2, <4>1, <4>2
    <3>3. QED
      BY <3>1, <3>2
  <2>11. SoundTable(u)
    BY <1>11, <2>7, <2>8 DEF SoundTable
  <2>12. Has(new, Replaced(entries, entry), more)
    BY <1>12, <2>1, <2>2, <2>10, <2>11 DEF Has
  <2>13. QED
    BY <2>1, <2>9, <2>12 DEF new
<1>17. QED
  BY <1>15, <1>16

(* The links of one line of the file.                                      *)
LineLinks(line) == {<<e.src, e.dst>> : e \in Given(line)}

(* The entries when those of one more line have been read.                 *)
Later(entries, line) ==
    LET there == IF line.to > 0 THEN Replaced(entries, EntryTo(line)) ELSE entries
    IN  IF line.from > 0 THEN Replaced(there, EntryFrom(line)) ELSE there

(* What is left of a number in a line is the number of a node.             *)
LEMMA NodeIdType == ASSUME NEW i \in Int PROVE NodeId(i) \in Nat
BY TableAssumption, Z3 DEF NodeId

(* The entries of a line are entries.                                      *)
LEMMA LineType ==
    ASSUME NEW line \in Lines
    PROVE  /\ EntryTo(line) \in Entries /\ EntryFrom(line) \in Entries
           /\ EntryTo(line).prob = line.to /\ EntryFrom(line).prob = line.from
           /\ EntryTo(line).src = EntryFrom(line).dst /\ EntryTo(line).dst = EntryFrom(line).src
           /\ line.to \in Int /\ line.from \in Int
<1>1. line.node1 \in Int /\ line.node2 \in Int /\ line.to \in Int /\ line.from \in Int
  BY FileAssumption
<1>2. NodeId(line.node1) \in Nat /\ NodeId(line.node2) \in Nat
  BY <1>1, NodeIdType
<1>3. QED
  BY <1>1, <1>2 DEF EntryTo, EntryFrom, Entry, Entries

(* One turn of topo_file_read adds the entries of its line.                *)
LEMMA LineFacts ==
    ASSUME NEW old, NEW entries, NEW links, Has(old, entries, links), NEW line \in Lines,
           NEW m \in Nat, Cardinality(Used(old.table)) <= m, m + 1 < TableSize
    PROVE  LET new == LineRead(old, line)
           IN  /\ Has(new, Later(entries, line), links \union LineLinks(line))
               /\ Cardinality(Used(new.table)) <= m + 2
<1> DEFINE to == EntryTo(line)
           from == EntryFrom(line)
           there == IF line.to > 0 THEN topo_insert(old, to) ELSE old
           new == IF line.from > 0 THEN topo_insert(there, from) ELSE there
           thereEntries == IF line.to > 0 THEN Replaced(entries, to) ELSE entries
           newEntries == IF line.from > 0 THEN Replaced(thereEntries, from) ELSE thereEntries
           way == IF line.to > 0 THEN {<<to.src, to.dst>>} ELSE {}
           back == IF line.from > 0 THEN {<<from.src, from.dst>>} ELSE {}
           k == m + 1
<1>1. /\ to \in Entries /\ from \in Entries
      /\ TableSize \in Nat /\ m < TableSize /\ k \in Nat /\ k < TableSize
      /\ Cardinality(Used(old.table)) \in Nat
  BY LineType, TableAssumption, UsedFinite
<1>2. LineRead(old, line) = new /\ Later(entries, line) = newEntries
  BY DEF LineRead, Later
<1>3. links \union LineLinks(line) = (links \union way) \union back
  BY LineType DEF LineLinks, Given
<1>4. /\ Has(there, thereEntries, links \union way)
      /\ Cardinality(Used(there.table)) <= k
  <2>1. CASE line.to > 0
    <3>1. there = topo_insert(old, to) /\ thereEntries = Replaced(entries, to)
          /\ way = {<<to.src, to.dst>>}
      BY <2>1
    <3> HIDE DEF to, there, thereEntries, way
    <3>2. QED
      BY <1>1, <3>1, InsertFacts
  <2>2. CASE ~(line.to > 0)
    <3>1. there = old /\ thereEntries = entries /\ links \union way = links
      BY <2>2
    <3> HIDE DEF to, there, thereEntries, way
    <3>2. Has(there, thereEntries, links \union way)
      BY <3>1
    <3>3. Cardinality(Used(there.table)) <= k
      BY <1>1, <3>1
    <3>4. QED
      BY <3>2, <3>3
  <2>3. QED
    BY <2>1, <2>2
<1> HIDE DEF to, there, thereEntries, way
<1>5. /\ Has(new, newEntries, (links \union way) \union back)
      /\ Cardinality(Used(new.table)) <= k + 1
  <2>1. CASE line.from > 0
    <3>1. new = topo_insert(there, from) /\ newEntries = Replaced(thereEntries, from)
          /\ back = {<<from.src, from.dst>>}
      BY <2>1
    <3> HIDE DEF from, new, newEntries, back, k
    <3>2. QED
      BY <1>1, <1>4, <3>1, InsertFacts
  <2>2. CASE ~(line.from > 0)
    <3>1. new = there /\ newEntries = thereEntries
          /\ (links \union way) \union back = links \union way
      BY <2>2
    <3>2. Cardinality(Used(there.table)) \in Nat
      BY UsedFinite
    <3> HIDE DEF from, new, newEntries, back
    <3>3. QED
      BY <1>1, <1>4, <3>1, <3>2
  <2>3. QED
    BY <2>1, <2>2
<1>6. k + 1 = m + 2
  OBVIOUS
<1> HIDE DEF from, new, newEntries, back, k
<1>7. QED
  BY <1>2, <1>3, <1>5, <1>6

(* While the file is read the topology has what the lines so far give; two *)
(* cells for each line are enough.                                         *)
FileRead ==
    pc = "read" =>
        /\ read \in Seq(Lines) /\ Len(read) <= MaxLines
        /\ Has(topo, EntriesIn(read), LinksIn(read))
        /\ Cardinality(Used(topo.table)) <= 2 * Len(read)

(* The links of the lines read, when one more has been read.               *)
LEMMA MoreLinks ==
    ASSUME NEW s \in Seq(Lines), NEW line \in Lines
    PROVE  LinksIn(Append(s, line)) = LinksIn(s) \union LineLinks(line)
<1> DEFINE t == Append(s, line)
           all(q) == UNION {Given(q[i]) : i \in DOMAIN q}
<1>1. /\ DOMAIN t = DOMAIN s \union {Len(s) + 1} /\ t[Len(s) + 1] = line
      /\ \A i \in DOMAIN s : t[i] = s[i]
  OBVIOUS
<1> HIDE DEF t
<1>2. all(t) = all(s) \union Given(line)
  BY <1>1
<1>3. \A q : LinksIn(q) = {<<e.src, e.dst>> : e \in all(q)}
  BY DEF LinksIn
<1> HIDE DEF all
<1>4. QED
  BY <1>2, <1>3 DEF LineLinks, t

(* And their entries: those of the line count, and of the others those for *)
(* links that it does not give.                                            *)
LEMMA MoreEntries ==
    ASSUME NEW s \in Seq(Lines), NEW line \in Lines
    PROVE  EntriesIn(Append(s, line)) =
               {e \in EntriesIn(s) : \A f \in Given(line) : ~SameLink(e, f)} \union Given(line)
<1> DEFINE t == Append(s, line)
           n == Len(s)
           last(q, i, e) == \A j \in i + 1 .. Len(q) : \A f \in Given(q[j]) : ~SameLink(e, f)
           free(e) == \A f \in Given(line) : ~SameLink(e, f)
<1>1. /\ DOMAIN s = 1 .. n /\ DOMAIN t = 1 .. n + 1 /\ Len(t) = n + 1 /\ n \in Nat
      /\ t[n + 1] = line /\ \A i \in 1 .. n : t[i] = s[i]
  OBVIOUS
<1>2. /\ \A e : e \in EntriesIn(s) <=> \E i \in 1 .. n : e \in Given(s[i]) /\ last(s, i, e)
      /\ \A e : e \in EntriesIn(t) <=> \E i \in 1 .. n + 1 : e \in Given(t[i]) /\ last(t, i, e)
  BY <1>1 DEF EntriesIn
<1> HIDE DEF t, n
<1>3. ASSUME NEW i \in 1 .. n, NEW e
      PROVE  last(t, i, e) <=> last(s, i, e) /\ free(e)
  <2>1. i + 1 .. n + 1 = (i + 1 .. n) \union {n + 1} /\ i + 1 .. n \subseteq 1 .. n
    BY <1>1
  <2>2. Len(s) = n
    BY DEF n
  <2>3. QED
    BY <1>1, <2>1, <2>2
<1>4. \A e : last(t, n + 1, e)
  BY <1>1
<1> HIDE DEF last, free
<1>5. ASSUME NEW e
      PROVE  e \in EntriesIn(t) <=> (e \in EntriesIn(s) /\ free(e)) \/ e \in Given(line)
  BY <1>1, <1>2, <1>3, <1>4
<1>6. QED
  BY <1>5 DEF free, t

(* That is what is left when the entries of the line are inserted, but for *)
(* links of a node to itself.                                              *)
LEMMA LaterEntries ==
    ASSUME NEW entries, NEW line \in Lines
    PROVE  Others(Later(entries, line)) =
               Others({e \in entries : \A f \in Given(line) : ~SameLink(e, f)} \union Given(line))
<1> DEFINE to == EntryTo(line)
           from == EntryFrom(line)
<1>1. /\ Given(line) = (IF line.to > 0 THEN {to} ELSE {})
                            \union (IF line.from > 0 THEN {from} ELSE {})
      /\ SameLink(to, from) => Empty(to)
  BY LineType DEF Given, SameLink, Empty
<1>2. Later(entries, line) =
          LET there == IF line.to > 0 THEN Replaced(entries, to) ELSE entries
          IN  IF line.from > 0 THEN Replaced(there, from) ELSE there
  BY DEF Later
<1> HIDE DEF to, from
<1>3. CASE line.to > 0 /\ line.from > 0
  BY <1>1, <1>2, <1>3 DEF Others, Replaced
<1>4. CASE line.to > 0 /\ ~(line.from > 0)
  BY <1>1, <1>2, <1>4 DEF Others, Replaced
<1>5. CASE ~(line.to > 0) /\ line.from > 0
  BY <1>1, <1>2, <1>5 DEF Others, Replaced
<1>6. CASE ~(line.to > 0) /\ ~(line.from > 0)
  BY <1>1, <1>2, <1>6 DEF Others, Replaced
<1>7. QED
  BY <1>3, <1>4, <1>5, <1>6

(* Before the first line there are none.                                   *)
LEMMA FileInit == Init => FileRead
<1> SUFFICES ASSUME Init PROVE FileRead
  OBVIOUS
<1>1. topo = [table |-> [n \in 0 .. TableSize - 1 |-> Entry(0, 0, 0)], max_id |-> 0] /\ read = <<>>
  BY DEF Init, topo_new
<1>2. Used(topo.table) = {} /\ topo.table \in Tables
  BY <1>1 DEF Used, Empty, Entry, Entries, Tables
<1>3. SoundTable(topo.table) /\ EntriesOf(topo.table) = {}
  BY <1>2 DEF SoundTable, Reached, Distinct, EntriesOf
<1>4. Cardinality(Used(topo.table)) <= 2 * Len(read)
  <2>1. Len(read) = 0 /\ 2 * 0 = 0
    BY <1>1
  <2>2. Cardinality(Used(topo.table)) = 0
    BY <1>2, FS_EmptySet
  <2>3. QED
    BY <2>1, <2>2
<1>5. LinksIn(read) = {} /\ EntriesIn(read) = {}
  BY <1>1 DEF LinksIn, EntriesIn
<1>6. read \in Seq(Lines) /\ Len(read) <= MaxLines /\ topo.max_id \in Nat
  BY <1>1, FileAssumption
<1>7. Has(topo, EntriesIn(read), LinksIn(read))
  BY <1>1, <1>3, <1>5 DEF Has, Others, Greatest
<1>8. QED
  BY <1>4, <1>6, <1>7 DEF FileRead

(* Every line keeps the topology true to the file.                         *)
LEMMA FileStep == FileRead /\ [Next]_vars => FileRead'
<1> SUFFICES ASSUME FileRead, [Next]_vars, pc' = "read" PROVE FileRead'
  BY DEF FileRead
<1>1. CASE ReadLine
  <2>1. PICK line \in Lines : read' = Append(read, line) /\ topo' = LineRead(topo, line)
    BY <1>1 DEF ReadLine
  <2>2. /\ pc = "read" /\ Len(read) < MaxLines
        /\ read \in Seq(Lines) /\ Len(read) \in Nat /\ MaxLines \in Nat
        /\ 2 * MaxLines < TableSize /\ TableSize \in Nat
    BY <1>1, FileAssumption, TableAssumption DEF ReadLine, FileRead
  <2> DEFINE m == 2 * Len(read)
  <2>3. m \in Nat /\ m + 1 < TableSize /\ 2 * (Len(read) + 1) = m + 2
    BY <2>2
  <2>4. Has(topo, EntriesIn(read), LinksIn(read)) /\ Cardinality(Used(topo.table)) <= m
    BY <2>2 DEF FileRead
  <2> HIDE DEF m
  <2>5. /\ Has(topo', Later(EntriesIn(read), line), LinksIn(read) \union LineLinks(line))
        /\ Cardinality(Used(topo'.table)) <= m + 2
    BY <2>1, <2>3, <2>4, LineFacts
  <2>6. read' \in Seq(Lines) /\ Len(read') = Len(read) + 1
    BY <2>1, <2>2
  <2>7. LinksIn(read)' = LinksIn(read) \union LineLinks(line)
    <3>1. LinksIn(read)' = LinksIn(read')
      BY DEF LinksIn
    <3>2. QED
      BY <2>1, <2>2, <3>1, MoreLinks
  <2>8. Others(EntriesIn(read)') = Others(Later(EntriesIn(read), line))
    <3>1. EntriesIn(read)' = EntriesIn(read')
      BY DEF EntriesIn
    <3>2. QED
      BY <2>1, <2>2, <3>1, MoreEntries, LaterEntries
  <2>9. Len(read') <= MaxLines /\ Cardinality(Used(topo'.table)) <= 2 * Len(read')
    BY <2>2, <2>3, <2>5, <2>6
  <2>10. \A e \in EntriesIn(read)' : <<e.src, e.dst>> \in LinksIn(read)'
    BY DEF EntriesIn, LinksIn
  <2>11. Has(topo', EntriesIn(read)', LinksIn(read)')
    BY <2>5, <2>7, <2>8, <2>10 DEF Has
  <2>12. QED
    BY <2>6, <2>9, <2>11 DEF FileRead, Has
<1>2. CASE UNCHANGED <<pc, read, topo>>
  <2>1. LinksIn(read)' = LinksIn(read) /\ EntriesIn(read)' = EntriesIn(read)
    BY <1>2 DEF LinksIn, EntriesIn
  <2>2. QED
    BY <1>2, <2>1 DEF FileRead, Has
<1>3. Start \/ TickDue \/ Finish => pc' # "read"
  BY DEF Start, TickDue, Finish
<1>4. RouteTest => pc' # "read"
  <2>1. RouteTest => pc' \in {"test", "dispatch"}
    BY Zenon DEF RouteTest
  <2>2. QED
    BY <2>1
<1>5. ASSUME NEW e \in Handled, Timer(e) \/ ReceiveBeacon(e) \/ ReceiveData(e)
      PROVE  pc' # "read"
  <2>1. pc' = "loop"
    BY <1>5, Zenon DEF Timer, ReceiveBeacon, ReceiveData
  <2>2. QED
    BY <2>1
<1>6. Stopped \/ UNCHANGED vars => UNCHANGED <<pc, read, topo>>
  BY DEF Stopped, vars
<1>7. QED
  BY <1>1, <1>2, <1>3, <1>4, <1>5, <1>6 DEF Next

(* The iterator finds just the entries of its node, each link once.        *)
LEMMA HearersAre ==
    ASSUME SoundTable(topo.table), NEW n \in Nat
    PROVE  /\ {topo.table[k] : k \in Iterated(topo, n)} = {e \in EntriesOf(topo.table) : e.src = n}
           /\ \A m \in Hearers(n) : \E e \in EntriesOf(topo.table) : e.src = n /\ e.dst = m
           /\ \A j, k \in Iterated(topo, n) :
                 topo.table[j].dst = topo.table[k].dst => j = k
<1> DEFINE t == topo.table
<1>1. t \in Tables /\ Reached(t) /\ Distinct(t)
  BY DEF SoundTable
<1>2. Vacant(t) = (0 .. TableSize - 1) \ Used(t)
  BY <1>1 DEF Vacant, Used, Tables
<1>3. Iterated(topo, n) = {c \in Probed(n, Vacant(t)) : t[c].src = n}
  BY DEF Iterated
<1> HIDE DEF t
<1>4. ASSUME NEW c
      PROVE  c \in Iterated(topo, n) <=> c \in Used(t) /\ t[c].src = n
  <2>1. ASSUME c \in Iterated(topo, n)
        PROVE  c \in Used(t) /\ t[c].src = n
    <3>1. PICK k \in 0 .. TableSize - 1 :
              c = Cell(n, k) /\ \A j \in 0 .. k : Cell(n, j) \notin Vacant(t)
      BY <1>3, <2>1 DEF Probed
    <3>2. k \in 0 .. k /\ k \in Nat
      BY TableAssumption
    <3>3. c \in 0 .. TableSize - 1 /\ c \notin Vacant(t)
      BY <3>1, <3>2, CellType
    <3>4. QED
      BY <1>2, <1>3, <2>1, <3>3
  <2>2. ASSUME c \in Used(t), t[c].src = n
        PROVE  c \in Iterated(topo, n)
    <3>1. PICK k \in 0 .. TableSize - 1 :
              Cell(n, k) = c /\ \A j \in 0 .. k : Cell(n, j) \in Used(t)
      BY <1>1, <2>2 DEF Reached
    <3>2. \A j \in 0 .. k : Cell(n, j) \notin Vacant(t)
      BY <1>2, <3>1
    <3>3. c \in Probed(n, Vacant(t))
      BY <3>1, <3>2 DEF Probed
    <3>4. QED
      BY <1>3, <2>2, <3>3
  <2>3. QED
    BY <2>1, <2>2
<1>5. /\ {t[k] : k \in Iterated(topo, n)} = {e \in EntriesOf(t) : e.src = n}
      /\ \A m \in Hearers(n) : \E e \in EntriesOf(t) : e.src = n /\ e.dst = m
  <2>1. {t[k] : k \in Iterated(topo, n)} = {e \in EntriesOf(t) : e.src = n}
    BY <1>4 DEF EntriesOf
  <2>2. \A m \in Hearers(n) : \E c \in Iterated(topo, n) : m = t[c].dst
    BY DEF Hearers, t
  <2>3. QED
    BY <1>4, <2>1, <2>2 DEF EntriesOf
<1>6. ASSUME NEW j \in Iterated(topo, n), NEW k \in Iterated(topo, n), t[j].dst = t[k].dst
      PROVE  j = k
  <2>1. j \in Used(t) /\ k \in Used(t) /\ t[j].src = t[k].src
    BY <1>4, <1>6
  <2>2. SameLink(t[j], t[k])
    BY <1>6, <2>1 DEF SameLink
  <2>3. QED
    BY <1>1, <2>1, <2>2 DEF Distinct
<1>7. QED
  BY <1>5, <1>6 DEF t

(* So it finds the entries of the file that was read.                      *)
LEMMA ReadFinds == FileRead => LinksFound
<1> SUFFICES ASSUME FileRead, pc = "read", NEW n \in 0 .. topo.max_id
             PROVE  /\ {topo.table[k] : k \in Iterated(topo, n)} =
                            {e \in EntriesIn(read) : e.src = n /\ e.dst # n}
                    /\ \A j, k \in Iterated(topo, n) :
                          topo.table[j].dst = topo.table[k].dst => j = k
  BY DEF LinksFound
<1>1. /\ SoundTable(topo.table) /\ n \in Nat
      /\ EntriesOf(topo.table) = {e \in EntriesIn(read) : e.src # e.dst}
  BY DEF FileRead, Has, Others, Empty
<1>2. {e \in EntriesOf(topo.table) : e.src = n} = {e \in EntriesIn(read) : e.src = n /\ e.dst # n}
  BY <1>1
<1>3. QED
  BY <1>1, <1>2, HearersAre

(***************************************************************************)
(* Whatever the lines of a file, their order, and the numbers and chances  *)
(* in them, the iterator of a node finds every link from it to another,    *)
(* each of them once, with the chance of the last line that gives it one:  *)
(* cells of different nodes that run together, and those that go on at the *)
(* beginning of the table, hide none (topo.c:27-64, 93-100).               *)
(***************************************************************************)
THEOREM Links == Spec => []LinksFound
<1>1. Spec => []FileRead
  BY FileInit, FileStep, PTL DEF Spec
<1>2. QED
  BY <1>1, ReadFinds, PTL

-----------------------------------------------------------------------------
(***************************************************************************)
(* Bags, and the finite sets in them.                                      *)
(***************************************************************************)

(* What is in the sum of two bags, and how often.                          *)
LEMMA SumHolds ==
    ASSUME NEW A, NEW B
    PROVE  /\ BagToSet(A (+) B) = BagToSet(A) \union BagToSet(B)
           /\ \A x \in BagToSet(A) \ BagToSet(B) : A[x] \in Nat => (A (+) B)[x] = A[x]
           /\ \A x \in BagToSet(B) \ BagToSet(A) : B[x] \in Nat => (A (+) B)[x] = B[x]
BY DEF (+), BagToSet

(* What is left of a bag when another has been taken from it.              *)
LEMMA RestHolds ==
    ASSUME NEW A, NEW B
    PROVE  /\ BagToSet(A (-) B) \subseteq BagToSet(A)
           /\ \A x \in BagToSet(A) \ BagToSet(B) :
                 A[x] \in Nat \ {0} => x \in BagToSet(A (-) B) /\ (A (-) B)[x] = A[x]
           /\ \A x \in BagToSet(A) \cap BagToSet(B) :
                 A[x] \in Nat /\ B[x] \in Nat =>
                     /\ A[x] <= B[x] => x \notin BagToSet(A (-) B)
                     /\ A[x] > B[x] => x \in BagToSet(A (-) B) /\ (A (-) B)[x] = A[x] - B[x]
BY DEF (-), BagToSet

(* What is in the bag of a set, once each.                                 *)
LEMMA SetHolds ==
    ASSUME NEW S
    PROVE  BagToSet(SetToBag(S)) = S /\ \A x \in S : SetToBag(S)[x] = 1
BY DEF BagToSet, SetToBag

(* Nothing is in the empty bag.                                            *)
LEMMA EmptyHolds == BagToSet(EmptyBag) = {}
BY SetHolds DEF EmptyBag

(* What a finite set is mapped on is finite.                               *)
LEMMA SurjectionFinite ==
    ASSUME NEW S, IsFiniteSet(S), NEW T, NEW f \in [S -> T], \A y \in T : \E x \in S : f[x] = y
    PROVE  IsFiniteSet(T)
<1>1. f \in Surjection(S, T)
  BY DEF Surjection
<1> QED
  BY <1>1, FS_Surjection

-----------------------------------------------------------------------------
(***************************************************************************)
(* The invariant. None of the properties is inductive. That the trace is   *)
(* in order needs that no event but a data packet is due before the last   *)
(* beacon traced, nor before the event that a tick has put off; that the   *)
(* clock lags by less than a second, that nothing is overdue while the     *)
(* route tests are sent; that no data packet is multiplied, that its       *)
(* source and its tick tell it from all others, and that the nodes from    *)
(* the tester on have not sent a test at this tick.                        *)
(***************************************************************************)

(* The loop has taken an event out of the queue and not yet handled it.    *)
Busy == pc \in {"test", "dispatch"}

(* The event is the arrival of a data packet.                              *)
IsData(e) == e.packet.content.type = "data"

(* What the variables hold: numbers, and nothing at all before Start.      *)
Numbers ==
    /\ pc \in {"read", "loop", "test", "dispatch", "done"}
    /\ args \in Args
    /\ tick \in Nat
    /\ traced \in Nat
    /\ tester \in Nat
    /\ pc = "read" => queue = EmptyBag /\ refs = EmptyBag /\ tick = 0 /\ traced = 0
    /\ \A e \in BagToSet(Pending) : e.vtime \in Nat

(* The clock of events, and that nothing is overdue while tests are sent:  *)
(* the event that was popped is later than the tick, and so are all        *)
(* others.                                                                 *)
Clock ==
    /\ LessThanASecondLate
    /\ pc = "test" => \A e \in BagToSet(Pending) : e.vtime > tick

(* No event but a data packet is due before the last beacon was traced;    *)
(* nor before the event that a tick has put off.                           *)
InOrder ==
    /\ \A e \in BagToSet(Pending) : IsData(e) \/ e.vtime >= traced
    /\ Busy => \A e \in BagToSet(queue) : IsData(e) \/ e.vtime >= current.vtime

(* The events of E that carry packet p.                                    *)
Carriers(p, E) == {e \in E : e.packet = p}

(* How many references to p there are in r.                                *)
Copies(p, r) == IF BagIn(p, r) THEN r[p] ELSE 0

(* The references r are those of the events E: none to a timer's packet,   *)
(* which there is not, and for any other packet as many as events carry    *)
(* it.                                                                     *)
Balanced(r, E) ==
    /\ IsFiniteSet(BagToSet(r))
    /\ \A p \in BagToSet(r) : p # NoPacket /\ r[p] \in Nat \ {0}
    /\ \A p \in BagToSet(r) \union {e.packet : e \in E} : p # NoPacket =>
           IsFiniteSet(Carriers(p, E)) /\ Copies(p, r) = Cardinality(Carriers(p, E))

(* No event with a packet is in the queue twice.                           *)
Single(q) == \A e \in BagToSet(q) : e.packet # NoPacket => q[e] = 1

(* The reference counts are those of the pending events, which the event   *)
(* that a tick has put off is one of, and is not in the queue as well.     *)
Counted ==
    /\ Balanced(refs, BagToSet(Pending))
    /\ Single(queue)
    /\ Busy /\ current.packet # NoPacket => current \notin BagToSet(queue)

(* A data packet says which node's test it is and of which tick: one that  *)
(* has passed, or this one for a node that has had its turn.               *)
Tested ==
    \A e \in BagToSet(Pending) : IsData(e) =>
        LET data == e.packet.content
        IN  /\ data = Data(data.src, data.vtime, data.hop)
            /\ data.src \in Nat /\ data.vtime \in Nat
            /\ \/ data.vtime < tick
               \/ pc = "test" /\ data.vtime = tick /\ data.src < tester

(* The inductive invariant.                                                *)
IInv == Numbers /\ Clock /\ InOrder /\ Counted /\ Tested /\ NeverMultiplied

(* What the constants are.                                                 *)
LEMMA NumbersKnown ==
    /\ Second \in Nat \ {0} /\ WakeupPeriod \in Nat \ {0}
    /\ \A d \in PropDelay : d \in Nat \ {0}
    /\ \A d \in TimerDelay : d \in Nat \ {0}
    /\ \A a \in Args : a.timeout \in Nat \ {0}
BY TimeAssumption

(* The pending events: those in the queue, and the one taken out.          *)
LEMMA PendingIs ==
    BagToSet(Pending) = BagToSet(queue) \union (IF Busy THEN {current} ELSE {})
<1> DEFINE now == IF Busy THEN {current} ELSE {}
           bag == IF Busy THEN SetToBag({current}) ELSE EmptyBag
<1>1. BagToSet(bag) = now
  BY SetHolds, EmptyHolds
<1>2. Pending = queue (+) bag
  BY DEF Pending, Busy
<1> HIDE DEF bag
<1> QED
  BY <1>1, <1>2, SumHolds

(* The same in the next state.                                             *)
LEMMA PendingNext ==
    BagToSet(Pending)' = BagToSet(queue') \union
                             (IF pc' \in {"test", "dispatch"} THEN {current'} ELSE {})
<1>1. BagToSet(Pending) = BagToSet(queue) \union (IF Busy THEN {current} ELSE {})
  BY PendingIs
<1>2. (BagToSet(Pending) = BagToSet(queue) \union (IF Busy THEN {current} ELSE {}))'
  BY <1>1, PTL
<1>3. QED
  BY <1>2, Zenon DEF Busy, BagToSet

(* A timer's event is not that of a data packet.                           *)
LEMMA NoPacketFacts ==
    ASSUME NEW x, x.packet = NoPacket
    PROVE  ~IsData(x)
BY DEF IsData, NoPacket, Packet

(* A beacon or a data packet is a packet.                                  *)
LEMMA HasPacket ==
    ASSUME NEW p, p.content.type \in {"beacon", "data"}
    PROVE  p # NoPacket
BY DEF NoPacket, Packet

(* Balanced references are so for every packet, allocated or not.          *)
LEMMA BalancedAll ==
    ASSUME NEW r, NEW E, Balanced(r, E), NEW p, p # NoPacket
    PROVE  IsFiniteSet(Carriers(p, E)) /\ Copies(p, r) = Cardinality(Carriers(p, E))
<1>1. CASE p \in BagToSet(r) \union {e.packet : e \in E}
  BY <1>1 DEF Balanced
<1>2. CASE p \notin BagToSet(r) \union {e.packet : e \in E}
  <2>1. Carriers(p, E) = {} /\ Copies(p, r) = 0
    BY <1>2 DEF Carriers, Copies, BagIn
  <2>2. QED
    BY <2>1, FS_EmptySet
<1>3. QED
  BY <1>1, <1>2

(* Timers do not matter to the references.                                 *)
LEMMA BalancedSame ==
    ASSUME NEW r, NEW E, NEW F, Balanced(r, E),
           \A e \in E \union F : e.packet # NoPacket => (e \in E <=> e \in F)
    PROVE  Balanced(r, F)
<1>1. ASSUME NEW p, p # NoPacket
      PROVE  Carriers(p, F) = Carriers(p, E)
  BY <1>1 DEF Carriers
<1>2. QED
  BY <1>1, BalancedAll DEF Balanced

(* packet_free of an event's packet, when the event is gone.               *)
LEMMA BalancedFreed ==
    ASSUME NEW r, NEW E, Balanced(r, E), NEW e \in E, e.packet # NoPacket
    PROVE  Balanced(r (-) SetToBag({e.packet}), E \ {e})
<1> DEFINE p == e.packet
           rest == r (-) SetToBag({p})
           F == E \ {e}
<1>1. /\ IsFiniteSet(Carriers(p, E))
      /\ Copies(p, r) = Cardinality(Carriers(p, E))
      /\ Carriers(p, F) = Carriers(p, E) \ {e}
      /\ e \in Carriers(p, E)
  BY BalancedAll DEF Carriers
<1>2. /\ IsFiniteSet(Carriers(p, F))
      /\ Cardinality(Carriers(p, F)) = Cardinality(Carriers(p, E)) - 1
      /\ Cardinality(Carriers(p, E)) \in Nat \ {0}
  <2> HIDE DEF F, p
  <2>1. Cardinality(Carriers(p, E)) \in Nat /\ Cardinality(Carriers(p, E)) # 0
    BY <1>1, FS_CardinalityType, FS_EmptySet
  <2>2. QED
    BY <1>1, <2>1, FS_RemoveElement
<1>3. p \in BagToSet(r) /\ r[p] = Cardinality(Carriers(p, E))
  BY <1>1, <1>2 DEF Copies, BagIn
<1>4. BagToSet(SetToBag({p})) = {p} /\ SetToBag({p})[p] = 1
  BY SetHolds
<1>5. BagToSet(rest) \subseteq BagToSet(r)
  BY RestHolds
<1>6. ASSUME NEW q \in BagToSet(r), q # p
      PROVE  q \in BagToSet(rest) /\ rest[q] = r[q]
  <2>1. r[q] \in Nat \ {0}
    BY DEF Balanced
  <2> HIDE DEF p
  <2>2. QED
    BY <1>4, <1>6, <2>1, RestHolds
<1>7. /\ Copies(p, rest) = Cardinality(Carriers(p, F))
      /\ p \in BagToSet(rest) => rest[p] \in Nat \ {0}
  <2>0. /\ p \in BagToSet(r) \cap BagToSet(SetToBag({p}))
        /\ r[p] \in Nat \ {0} /\ SetToBag({p})[p] = 1
    BY <1>2, <1>3, <1>4
  <2> HIDE DEF p, F
  <2>1. CASE r[p] = 1
    <3>1. p \notin BagToSet(rest)
      BY <2>0, <2>1, RestHolds
    <3> HIDE DEF rest
    <3>2. QED
      BY <1>2, <1>3, <2>1, <3>1 DEF Copies, BagIn
  <2>2. CASE r[p] # 1
    <3>1. p \in BagToSet(rest) /\ rest[p] = r[p] - 1
      <4>1. r[p] > 1
        BY <2>0, <2>2
      <4>2. QED
        BY <2>0, <4>1, RestHolds
    <3> HIDE DEF rest
    <3>2. QED
      BY <1>2, <1>3, <2>2, <3>1 DEF Copies, BagIn
  <2>3. QED
    BY <2>1, <2>2
<1>8. IsFiniteSet(BagToSet(rest))
  <2>1. BagToSet(rest) \in SUBSET BagToSet(r)
    BY <1>5
  <2>2. QED
    BY <2>1, FS_Subset DEF Balanced
<1>9. ASSUME NEW q, q # NoPacket
      PROVE  IsFiniteSet(Carriers(q, F)) /\ Copies(q, rest) = Cardinality(Carriers(q, F))
  <2>1. CASE q = p
    BY <1>2, <1>7, <2>1
  <2>2. CASE q # p
    <3>1. Carriers(q, F) = Carriers(q, E)
      BY <2>2 DEF Carriers
    <3> HIDE DEF rest, p, F
    <3>2. Copies(q, rest) = Copies(q, r)
      BY <1>5, <1>6, <2>2 DEF Copies, BagIn
    <3>3. QED
      BY <3>1, <3>2, <1>9, BalancedAll
  <2>3. QED
    BY <2>1, <2>2
<1>10. \A q \in BagToSet(rest) : q # NoPacket /\ rest[q] \in Nat \ {0}
  <2> HIDE DEF rest
  <2>1. \A q \in BagToSet(r) : q # NoPacket /\ r[q] \in Nat \ {0}
    BY DEF Balanced
  <2>2. QED
    BY <1>5, <1>6, <1>7, <2>1
<1> HIDE DEF rest, F
<1>11. Balanced(rest, F)
  BY <1>8, <1>9, <1>10 DEF Balanced
<1>12. QED
  BY <1>11 DEF rest, F

(* A new packet with a reference for each of its events; with none it is   *)
(* freed at once (packet.c:36-51).                                         *)
LEMMA BalancedSent ==
    ASSUME NEW r, NEW E, Balanced(r, E), NEW p, p # NoPacket, p \notin BagToSet(r),
           \A e \in E : e.packet # p,
           NEW events, IsFiniteSet(events), \A e \in events : e.packet = p
    PROVE  Balanced(r (+) [q \in {q \in {p} : Cardinality(events) > 0} |-> Cardinality(events)],
                    E \union events)
<1> DEFINE c == Cardinality(events)
           held == [q \in {q \in {p} : c > 0} |-> c]
           more == r (+) held
           F == E \union events
<1>1. c \in Nat
  BY FS_CardinalityType
<1>2. BagToSet(held) = {q \in {p} : c > 0}
  BY DEF BagToSet
<1>3. BagToSet(more) = BagToSet(r) \union BagToSet(held)
  <2> HIDE DEF held
  <2> QED BY SumHolds
<1>4. IsFiniteSet(BagToSet(more))
  <2>1. BagToSet(held) \in SUBSET {p} /\ IsFiniteSet({p})
    BY <1>2, FS_Singleton
  <2>2. IsFiniteSet(BagToSet(held))
    BY <2>1, FS_Subset
  <2>3. QED
    BY <1>3, <2>2, FS_Union DEF Balanced
<1>5. \A q \in BagToSet(r) : q # NoPacket /\ r[q] \in Nat \ {0}
  BY DEF Balanced
<1>6. ASSUME NEW q \in BagToSet(r)
      PROVE  q # p /\ more[q] = r[q]
  <2>1. q # p /\ q \notin BagToSet(held) /\ r[q] \in Nat
    BY <1>2, <1>5
  <2> HIDE DEF held
  <2>2. QED
    BY <2>1, SumHolds
<1>7. ASSUME c > 0
      PROVE  p \in BagToSet(more) /\ more[p] = c
  <2>1. p \in BagToSet(held) \ BagToSet(r) /\ held[p] = c
    BY <1>2, <1>7
  <2> HIDE DEF held, c
  <2>2. QED
    BY <1>1, <1>3, <2>1, SumHolds
<1>8. \A q \in BagToSet(more) : q # NoPacket /\ more[q] \in Nat \ {0}
  <2> HIDE DEF more, held, c
  <2>1. \A q \in BagToSet(more) : q \in BagToSet(r) \/ (q = p /\ c > 0)
    BY <1>2, <1>3
  <2>2. QED
    BY <1>1, <1>5, <1>6, <1>7, <2>1
<1>9. Carriers(p, F) = events
  BY DEF Carriers
<1>10. Copies(p, more) = c
  <2> HIDE DEF more, held, c
  <2>1. CASE c > 0
    BY <1>7, <2>1 DEF Copies, BagIn
  <2>2. CASE ~(c > 0)
    <3>1. p \notin BagToSet(more) /\ c = 0
      BY <1>1, <1>2, <1>3, <2>2
    <3>2. QED
      BY <3>1 DEF Copies, BagIn
  <2>3. QED
    BY <2>1, <2>2
<1>11. ASSUME NEW q, q # NoPacket
       PROVE  IsFiniteSet(Carriers(q, F)) /\ Copies(q, more) = Cardinality(Carriers(q, F))
  <2>1. CASE q = p
    BY <1>9, <1>10, <2>1
  <2>2. CASE q # p
    <3>1. Carriers(q, F) = Carriers(q, E)
      BY <2>2 DEF Carriers
    <3>2. q \in BagToSet(more) <=> q \in BagToSet(r)
      BY <1>2, <1>3, <2>2
    <3> HIDE DEF more
    <3>3. Copies(q, more) = Copies(q, r)
      BY <3>2, <1>6 DEF Copies, BagIn
    <3> HIDE DEF F
    <3>4. QED
      BY <3>1, <3>3, <1>11, BalancedAll
  <2>3. QED
    BY <2>1, <2>2
<1> HIDE DEF more, F
<1>12. Balanced(more, F)
  BY <1>4, <1>8, <1>11 DEF Balanced
<1>13. QED
  BY <1>12 DEF more, F

(* No event carries a packet that is not allocated.                        *)
LEMMA Unallocated ==
    ASSUME NEW r, NEW E, Balanced(r, E), NEW p, p # NoPacket, p \notin BagToSet(r)
    PROVE  \A e \in E : e.packet # p
<1>1. IsFiniteSet(Carriers(p, E)) /\ Cardinality(Carriers(p, E)) = 0
  BY BalancedAll DEF Copies, BagIn
<1>2. Carriers(p, E) = {}
  BY <1>1, FS_EmptySet
<1>3. QED
  BY <1>2 DEF Carriers

-----------------------------------------------------------------------------
(***************************************************************************)
(* What a step does to the queue and the reference counts.                 *)
(***************************************************************************)

(* A node has finitely many hearers.                                       *)
LEMMA HearersFinite ==
    ASSUME NEW n
    PROVE  IsFiniteSet(Hearers(n))
<1> DEFINE steps == {i \in 0 .. TableSize - 1 :
                        \A j \in 0 .. i : Cell(n, j) \notin Vacant(topo.table)}
           probed == {Cell(n, k) : k \in steps}
           found == {k \in probed : topo.table[k].src = n}
           f == [k \in steps |-> Cell(n, k)]
           g == [k \in found |-> topo.table[k].dst]
<1>1. IsFiniteSet(steps)
  <2>1. IsFiniteSet(0 .. TableSize - 1)
    <3>1. 0 \in Int /\ TableSize - 1 \in Int
      BY TableAssumption
    <3>2. QED
      BY <3>1, FS_Interval
  <2>2. steps \in SUBSET (0 .. TableSize - 1)
    OBVIOUS
  <2> HIDE DEF steps
  <2>3. QED
    BY <2>1, <2>2, FS_Subset
<1>2. IsFiniteSet(probed)
  <2>1. f \in [steps -> probed] /\ \A y \in probed : \E x \in steps : f[x] = y
    OBVIOUS
  <2> HIDE DEF f, steps, probed
  <2>2. QED
    BY <1>1, <2>1, SurjectionFinite
<1>3. IsFiniteSet(found)
  <2>1. found \in SUBSET probed
    OBVIOUS
  <2> HIDE DEF found, probed
  <2>2. QED
    BY <1>2, <2>1, FS_Subset
<1>4. Hearers(n) = {topo.table[k].dst : k \in found}
  BY DEF Hearers, Iterated, Probed
<1>5. g \in [found -> Hearers(n)] /\ \A y \in Hearers(n) : \E x \in found : g[x] = y
  BY <1>4
<1> HIDE DEF g, found
<1>6. QED
  BY <1>3, <1>5, SurjectionFinite

(* T has only events of packet p that are sent to S at v.                  *)
Spread(T, S, delay, v, p) == \A e \in T : \E m \in S : e = Event(v + delay[m], m, p)

(* There are finitely many of them.                                        *)
LEMMA EventsFinite ==
    ASSUME NEW S, IsFiniteSet(S), NEW delay, NEW v, NEW p, NEW T, Spread(T, S, delay, v, p)
    PROVE  IsFiniteSet(T)
<1> DEFINE U == {Event(v + delay[m], m, p) : m \in S}
           f == [m \in S |-> Event(v + delay[m], m, p)]
<1>1. f \in [S -> U] /\ \A y \in U : \E x \in S : f[x] = y
  OBVIOUS
<1>2. T \in SUBSET U
  BY DEF Spread
<1> HIDE DEF f, U
<1>3. IsFiniteSet(U)
  BY <1>1, SurjectionFinite
<1>4. QED
  BY <1>2, <1>3, FS_Subset

(* The number of a new packet tells it from those that say the same.       *)
LEMMA NextNoFacts ==
    ASSUME NEW content, IsFiniteSet(BagToSet(refs))
    PROVE  NextNo(content) \in Nat \ {0} /\ Packet(content, NextNo(content)) \notin BagToSet(refs)
<1> DEFINE same == {q \in BagToSet(refs) : q.content = content}
           used == {p.no : p \in same}
           free == (1 .. Cardinality(used) + 1) \ used
<1>1. IsFiniteSet(same)
  <2>1. same \in SUBSET BagToSet(refs)
    OBVIOUS
  <2> HIDE DEF same
  <2>2. QED
    BY <2>1, FS_Subset
<1>2. IsFiniteSet(used)
  <2> DEFINE f == [p \in same |-> p.no]
  <2>1. f \in [same -> used] /\ \A y \in used : \E x \in same : f[x] = y
    OBVIOUS
  <2> HIDE DEF f, same
  <2>2. QED
    BY <1>1, <2>1, SurjectionFinite
<1>3. Cardinality(used) \in Nat
  BY <1>2, FS_CardinalityType
<1>4. Cardinality(1 .. Cardinality(used) + 1) = Cardinality(used) + 1
      /\ IsFiniteSet(1 .. Cardinality(used) + 1)
  <2> HIDE DEF used
  <2> QED
    BY <1>3, FS_Interval
<1>5. free # {}
  <2>1. SUFFICES ASSUME 1 .. Cardinality(used) + 1 \subseteq used PROVE FALSE
    OBVIOUS
  <2> HIDE DEF used
  <2> DEFINE T == 1 .. Cardinality(used) + 1
  <2>2. Cardinality(T) <= Cardinality(used)
    <3> HIDE DEF T
    <3>1. T \in SUBSET used
      BY <2>1 DEF T
    <3>2. QED
      BY <3>1, <1>2, FS_Subset
  <2>3. QED
    BY <2>2, <1>3, <1>4
<1>6. Min(free) \in free
  <2>1. free \subseteq Nat
    <3> HIDE DEF used
    <3> QED BY <1>3
  <2> HIDE DEF free
  <2>2. QED
    BY <1>5, <2>1, LeastNat DEF Min
<1>7. NextNo(content) = Min(free)
  BY DEF NextNo
<1>8. ASSUME Packet(content, NextNo(content)) \in BagToSet(refs)
      PROVE  FALSE
  <2> DEFINE p == Packet(content, NextNo(content))
  <2>1. p.content = content /\ p.no = NextNo(content)
    BY DEF Packet
  <2> HIDE DEF p
  <2>2. p \in same
    BY <1>8, <2>1 DEF p
  <2>3. NextNo(content) \in used
    BY <2>1, <2>2
  <2>4. QED
    BY <2>3, <1>6, <1>7
<1>9. NextNo(content) \in 1 .. Cardinality(used) + 1
  BY <1>6, <1>7
<1> HIDE DEF used
<1> QED
  BY <1>3, <1>8, <1>9

(* The events of the new packet p are queued with the others, and their    *)
(* references are added to freed, those that are left.                     *)
Queued(others, freed, p, events) ==
    /\ p # NoPacket /\ IsFiniteSet(events) /\ \A e \in events : e.packet = p
    /\ queue' = others (+) SetToBag(events)
    /\ refs' = freed (+) [q \in {q \in {p} : Cardinality(events) > 0} |-> Cardinality(events)]

(* What sim_callback does with the packet of node n at time v: it queues   *)
(* an event later than v for some of the nodes that hear n, one for each.  *)
Sent(n, v, content, others, freed, p, events) ==
    /\ p.content = content
    /\ p \notin BagToSet(refs)
    /\ \A e \in events : /\ e.packet = p /\ e.node \in Hearers(n)
                         /\ e.vtime \in Nat /\ e.vtime > v
    /\ \A d, e \in events : d.node = e.node => d = e
    /\ Queued(others, freed, p, events)

(* Sends does that.                                                        *)
LEMMA SendsFacts ==
    ASSUME NEW n, NEW v \in Nat, NEW content, NEW others, NEW freed,
           Sends(n, v, content, others, freed), args \in Args, IsFiniteSet(BagToSet(refs))
    PROVE  \E p, events : Sent(n, v, content, others, freed, p, events)
<1> DEFINE p == Packet(content, NextNo(content))
<1>1. p.content = content /\ p # NoPacket
  <2>1. p.content = content /\ p.no = NextNo(content) /\ NoPacket.no = 0
    BY DEF Packet, NoPacket
  <2>2. NextNo(content) # 0
    BY NextNoFacts
  <2> HIDE DEF p
  <2>3. QED
    BY <2>1, <2>2
<1>2. p \notin BagToSet(refs)
  BY NextNoFacts
<1>3. PICK delay \in [Hearers(n) -> PropDelay] :
          LET events == {Event(v + delay[m], m, p) :
                            m \in {x \in Hearers(n) : v + delay[x] < Eschaton}}
              held == [q \in {q \in {p} : References(n, events) > 0} |-> References(n, events)]
          IN  /\ queue' = others (+) SetToBag(events)
              /\ refs' = freed (+) held
  BY Zenon DEF Sends
<1> DEFINE R == {x \in Hearers(n) : v + delay[x] < Eschaton}
           events == {Event(v + delay[m], m, p) : m \in R}
<1>4. queue' = others (+) SetToBag(events)
      /\ refs' = freed (+) [q \in {q \in {p} : Cardinality(events) > 0} |-> Cardinality(events)]
  BY <1>3, Zenon DEF References
<1>5. delay \in [Hearers(n) -> Nat] /\ \A m \in Hearers(n) : delay[m] \in Nat \ {0}
  BY NumbersKnown
<1>6. IsFiniteSet(events)
  <2>1. Spread(events, Hearers(n), delay, v, p)
    BY DEF Spread
  <2> HIDE DEF events, p
  <2>2. QED
    BY <2>1, EventsFinite, HearersFinite
<1>7. ASSUME NEW e \in events
      PROVE  e.packet = p /\ e.node \in Hearers(n) /\ e.vtime \in Nat /\ e.vtime > v
  <2> HIDE DEF p
  <2>1. PICK m \in Hearers(n) : e = Event(v + delay[m], m, p)
    OBVIOUS
  <2>2. e.packet = p /\ e.node = m /\ e.vtime = v + delay[m]
    BY <2>1 DEF Event
  <2>3. QED
    BY <2>2, <1>5
<1>8. ASSUME NEW d \in events, NEW e \in events, d.node = e.node
      PROVE  d = e
  <2> HIDE DEF p
  <2>1. PICK k \in Hearers(n) : d = Event(v + delay[k], k, p)
    OBVIOUS
  <2>2. PICK m \in Hearers(n) : e = Event(v + delay[m], m, p)
    OBVIOUS
  <2>3. d.node = k /\ e.node = m
    BY <2>1, <2>2 DEF Event
  <2>4. QED
    BY <2>1, <2>2, <2>3, <1>8
<1> HIDE DEF p, events
<1>9. Sent(n, v, content, others, freed, p, events)
  BY <1>1, <1>2, <1>4, <1>6, <1>7, <1>8 DEF Sent, Queued
<1>10. QED
  BY <1>9

(* Timers may be in the queue more than once.                              *)
LEMMA PlusTimers ==
    ASSUME NEW q, NEW t, Single(q), \A x \in BagToSet(t) : x.packet = NoPacket
    PROVE  Single(q (+) t)
<1>1. BagToSet(q (+) t) = BagToSet(q) \union BagToSet(t)
  BY SumHolds
<1>2. ASSUME NEW x \in BagToSet(q (+) t), x.packet # NoPacket
      PROVE  (q (+) t)[x] = 1
  <2>1. x \in BagToSet(q) \ BagToSet(t) /\ q[x] = 1
    BY <1>1, <1>2 DEF Single
  <2>2. q[x] \in Nat
    BY <2>1
  <2>3. (q (+) t)[x] = q[x]
    BY <2>1, <2>2, SumHolds
  <2>4. QED
    BY <2>1, <2>3
<1>3. QED
  BY <1>2 DEF Single

(* The events of a new packet are not in the queue yet.                    *)
LEMMA PlusEvents ==
    ASSUME NEW q, NEW p, NEW events, Single(q), \A x \in events : x.packet = p,
           \A x \in BagToSet(q) : x.packet # p
    PROVE  Single(q (+) SetToBag(events))
<1> DEFINE b == SetToBag(events)
<1>1. BagToSet(b) = events /\ \A x \in events : b[x] = 1
  BY SetHolds
<1> HIDE DEF b
<1>2. BagToSet(q (+) b) = BagToSet(q) \union BagToSet(b)
  BY SumHolds
<1>3. ASSUME NEW x \in BagToSet(q (+) b), x.packet # NoPacket
      PROVE  (q (+) b)[x] = 1
  <2>1. CASE x \in BagToSet(q)
    <3>1. x \in BagToSet(q) \ BagToSet(b) /\ q[x] = 1
      BY <1>1, <1>3, <2>1 DEF Single
    <3>2. q[x] \in Nat
      BY <3>1
    <3>3. (q (+) b)[x] = q[x]
      BY <3>1, <3>2, SumHolds
    <3>4. QED
      BY <3>1, <3>3
  <2>2. CASE x \notin BagToSet(q)
    <3>1. x \in BagToSet(b) \ BagToSet(q) /\ b[x] = 1
      BY <1>1, <1>2, <2>2
    <3>2. b[x] \in Nat
      BY <3>1
    <3>3. (q (+) b)[x] = b[x]
      BY <3>1, <3>2, SumHolds
    <3>4. QED
      BY <3>1, <3>3
  <2>3. QED
    BY <2>1, <2>2
<1>4. QED
  BY <1>3 DEF Single, b

(* queue_pop: what is left of the queue.                                   *)
LEMMA MinusOne ==
    ASSUME NEW q, NEW e \in BagToSet(q), Single(q)
    PROVE  LET rest == BagToSet(q (-) SetToBag({e}))
           IN  /\ rest \subseteq BagToSet(q)
               /\ \A x \in BagToSet(q) : x.packet # NoPacket => (x \in rest <=> x # e)
               /\ Single(q (-) SetToBag({e}))
<1> DEFINE b == SetToBag({e})
           less == q (-) b
<1>1. BagToSet(b) = {e} /\ b[e] = 1
  BY SetHolds
<1> HIDE DEF b
<1>2. BagToSet(less) \subseteq BagToSet(q)
  BY RestHolds
<1>3. ASSUME NEW x \in BagToSet(q), x.packet # NoPacket
      PROVE  (x \in BagToSet(less) <=> x # e) /\ (x # e => less[x] = 1)
  <2>1. q[x] = 1
    BY <1>3 DEF Single
  <2>2. CASE x = e
    <3>1. x \in BagToSet(q) \cap BagToSet(b) /\ q[x] \in Nat /\ b[x] \in Nat /\ q[x] <= b[x]
      BY <1>1, <2>1, <2>2
    <3>2. x \notin BagToSet(less)
      BY <3>1, RestHolds
    <3>3. QED
      BY <2>2, <3>2
  <2>3. CASE x # e
    <3>1. x \in BagToSet(q) \ BagToSet(b) /\ q[x] \in Nat \ {0}
      BY <1>1, <2>1, <2>3
    <3>2. x \in BagToSet(less) /\ less[x] = q[x]
      BY <3>1, RestHolds
    <3> HIDE DEF less
    <3>3. QED
      BY <2>1, <2>3, <3>2
  <2>4. QED
    BY <2>2, <2>3
<1> HIDE DEF less
<1>4. Single(less)
  BY <1>2, <1>3 DEF Single
<1>5. QED
  BY <1>2, <1>3, <1>4 DEF less, b

(* Then the references are still those of the events.                      *)
LEMMA SentBalanced ==
    ASSUME NEW r, NEW E, Balanced(r, E), NEW others, NEW p, NEW events,
           Queued(others, r, p, events), p \notin BagToSet(r),
           BagToSet(others) \subseteq E, Single(others)
    PROVE  /\ BagToSet(queue') = BagToSet(others) \union events
           /\ Single(queue')
           /\ Balanced(refs', E \union events)
<1>1. /\ queue' = others (+) SetToBag(events)
      /\ refs' = r (+) [q \in {q \in {p} : Cardinality(events) > 0} |-> Cardinality(events)]
      /\ p # NoPacket /\ IsFiniteSet(events) /\ \A x \in events : x.packet = p
  BY DEF Queued
<1>2. \A x \in E : x.packet # p
  BY <1>1, Unallocated
<1>3. BagToSet(queue') = BagToSet(others) \union events
  <2>1. BagToSet(SetToBag(events)) = events
    BY SetHolds
  <2>2. QED
    BY <1>1, <2>1, SumHolds
<1>4. Single(queue')
  BY <1>1, <1>2, PlusEvents
<1>5. Balanced(refs', E \union events)
  BY <1>1, <1>2, BalancedSent
<1>6. QED
  BY <1>3, <1>4, <1>5

(* A timer that is asked for is one event, or none after the Eschaton.     *)
LEMMA TimerHolds ==
    ASSUME NEW n, NEW v \in Nat, args \in Args
    PROVE  \A e \in BagToSet(TimerEvent(n, v)) : e = Event(v, n, NoPacket)
<1> DEFINE S == {Event(u, n, NoPacket) : u \in {v} \cap 0 .. Eschaton - 1}
<1>1. BagToSet(TimerEvent(n, v)) = S
  BY SetHolds DEF TimerEvent
<1>2. \A e \in S : e = Event(v, n, NoPacket)
  OBVIOUS
<1> QED
  BY <1>1, <1>2

(* A timer of n is due after the time it was asked for.                    *)
LEMMA TimerIn ==
    ASSUME NEW n, NEW v \in Nat, NEW d \in Nat \ {0}, args \in Args
    PROVE  \A x \in BagToSet(TimerEvent(n, Due(v, d))) :
              x.packet = NoPacket /\ x.node = n /\ x.vtime \in Nat /\ x.vtime > v
<1> DEFINE u == v + d
<1>1. u \in Nat /\ u > v /\ Due(v, d) = u
  BY DEF Due
<1> HIDE DEF u
<1>2. ASSUME NEW x \in BagToSet(TimerEvent(n, u))
      PROVE  x.packet = NoPacket /\ x.node = n /\ x.vtime = u
  <2>1. x = Event(u, n, NoPacket)
    BY <1>1, TimerHolds
  <2>2. QED
    BY <2>1 DEF Event
<1>3. QED
  BY <1>1, <1>2

(* The event handled is the earliest pending one but for data packets, and *)
(* what is left when it is.                                                *)
LEMMA LeftFacts ==
    ASSUME Numbers, InOrder, Counted, NEW e \in Handled
    PROVE  /\ e \in BagToSet(Pending) /\ e.vtime \in Nat
           /\ pc \in {"loop", "dispatch"}
           /\ pc = "loop" => e.vtime <= tick
           /\ BagToSet(Left(e)) \subseteq BagToSet(Pending)
           /\ \A x \in BagToSet(Pending) :
                 x.packet # NoPacket => (x \in BagToSet(Left(e)) <=> x # e)
           /\ Single(Left(e))
           /\ \A x \in BagToSet(Left(e)) : IsData(x) \/ x.vtime >= e.vtime
<1>1. CASE pc = "dispatch"
  <2>1. e = current /\ Left(e) = queue /\ Busy
    BY <1>1 DEF Handled, Left, Busy
  <2>2. BagToSet(Pending) = BagToSet(queue) \union {current}
    BY <2>1, PendingIs
  <2>3. QED
    BY <1>1, <2>1, <2>2 DEF Numbers, InOrder, Counted
<1>2. CASE pc # "dispatch"
  <2>1. pc = "loop" /\ e \in Earliest(queue) /\ e.vtime <= tick /\ ~Busy
    BY <1>2 DEF Handled, Busy
  <2>2. Left(e) = queue (-) SetToBag({e})
    BY <2>1 DEF Left
  <2>3. BagToSet(Pending) = BagToSet(queue)
    BY <2>1, PendingIs
  <2>4. e \in BagToSet(queue) /\ \A x \in BagToSet(queue) : e.vtime <= x.vtime
    BY <2>1 DEF Earliest
  <2>5. Single(queue)
    BY DEF Counted
  <2>6. /\ BagToSet(Left(e)) \subseteq BagToSet(queue)
        /\ \A x \in BagToSet(queue) :
                 x.packet # NoPacket => (x \in BagToSet(Left(e)) <=> x # e)
        /\ Single(Left(e))
    BY <2>2, <2>4, <2>5, MinusOne, Zenon
  <2>7. \A x \in BagToSet(queue) : x.vtime \in Nat
    BY <2>3 DEF Numbers
  <2>8. \A x \in BagToSet(queue) : x.vtime >= e.vtime
    BY <2>4, <2>7
  <2>9. QED
    BY <2>1, <2>3, <2>4, <2>6, <2>7, <2>8
<1>3. QED
  BY <1>1, <1>2

(* packet_free of the packet of the event handled.                         *)
LEMMA FreedFacts ==
    ASSUME Numbers, InOrder, Counted, NEW e \in Handled, e.packet # NoPacket
    PROVE  /\ Balanced(Freed(e), BagToSet(Left(e)))
           /\ BagToSet(Freed(e)) \subseteq BagToSet(refs)
<1> DEFINE E == BagToSet(Pending)
           rest == BagToSet(Left(e))
<1>1. /\ e \in E /\ rest \subseteq E
      /\ \A x \in E : x.packet # NoPacket => (x \in rest <=> x # e)
  BY LeftFacts
<1>2. Balanced(refs, E)
  BY DEF Counted
<1> HIDE DEF E, rest
<1>3. Balanced(Freed(e), E \ {e})
  BY <1>1, <1>2, BalancedFreed DEF Freed
<1>4. Balanced(Freed(e), rest)
  <2>1. \A x \in (E \ {e}) \union rest : x.packet # NoPacket => (x \in E \ {e} <=> x \in rest)
    BY <1>1
  <2>2. QED
    BY <1>3, <2>1, BalancedSame
<1>5. BagToSet(Freed(e)) \subseteq BagToSet(refs)
  BY RestHolds DEF Freed
<1>6. QED
  BY <1>4, <1>5 DEF rest

(* What a handler of event e does to the queue and the references: the     *)
(* rest stays, e goes, timers of its node come, and so do events of one    *)
(* packet p for nodes that hear it.                                        *)
Moved(e, rest, timers, p, events) ==
    /\ pc' = "loop"
    /\ BagToSet(queue') = (rest \union timers) \union events
    /\ rest \subseteq BagToSet(Pending)
    /\ \A x \in BagToSet(Pending) : x.packet # NoPacket => (x \in rest <=> x # e)
    /\ \A x \in rest : IsData(x) \/ x.vtime >= e.vtime
    /\ \A x \in timers : /\ x.packet = NoPacket /\ x.node = e.node
                         /\ x.vtime \in Nat /\ x.vtime > e.vtime
    /\ \A x \in events : /\ x.packet = p /\ x.node \in Hearers(e.node)
                         /\ x.vtime \in Nat /\ x.vtime > e.vtime
    /\ \A x, y \in events : x.node = y.node => x = y
    /\ Single(queue')
    /\ Balanced(refs', BagToSet(queue'))

(* node_timer does that, with a beacon.                                    *)
LEMMA TimerEffect ==
    ASSUME Numbers, InOrder, Counted, NEW e \in Handled, Timer(e)
    PROVE  \E rest, timers, p, events :
              /\ Moved(e, rest, timers, p, events)
              /\ p.content = Beacon(status'[e.node], BeaconEntries(e.node, table[e.node]))
<1>1. e.vtime \in Nat /\ args \in Args /\ IsFiniteSet(BagToSet(refs))
  BY LeftFacts DEF Numbers, Counted, Balanced
<1>2. PICK delay \in TimerDelay,
           first \in IF status[e.node] = "WAKING" /\ e.vtime >= wake[e.node]
                     THEN TimerDelay ELSE {Eschaton} :
          Sends(e.node, e.vtime, Beacon(status'[e.node], BeaconEntries(e.node, table[e.node])),
                Left(e) (+) TimerEvent(e.node, Due(e.vtime, delay))
                        (+) TimerEvent(e.node, Due(e.vtime, first)),
                refs)
  BY Zenon DEF Timer
<1> DEFINE content == Beacon(status'[e.node], BeaconEntries(e.node, table[e.node]))
           t1 == TimerEvent(e.node, Due(e.vtime, delay))
           t2 == TimerEvent(e.node, Due(e.vtime, first))
           others == Left(e) (+) t1 (+) t2
           rest == BagToSet(Left(e))
           timers == BagToSet(t1) \union BagToSet(t2)
<1>3. delay \in Nat \ {0} /\ first \in Nat \ {0}
  BY <1>1, <1>2, NumbersKnown DEF Eschaton
<1>4. \A x \in timers : /\ x.packet = NoPacket /\ x.node = e.node
                        /\ x.vtime \in Nat /\ x.vtime > e.vtime
  BY <1>1, <1>3, TimerIn
<1> HIDE DEF content
<1>6. PICK p, events : Sent(e.node, e.vtime, content, others, refs, p, events)
  <2>1. Sends(e.node, e.vtime, content, others, refs)
    BY <1>2 DEF content
  <2> HIDE DEF others
  <2>2. QED
    BY <1>1, <2>1, SendsFacts
<1> HIDE DEF t1, t2
<1>7. BagToSet(others) = rest \union timers /\ Single(others)
  <2>1. Single(Left(e))
    BY LeftFacts
  <2>2. BagToSet(Left(e) (+) t1) = BagToSet(Left(e)) \union BagToSet(t1) /\ Single(Left(e) (+) t1)
    BY <1>4, <2>1, SumHolds, PlusTimers
  <2>3. QED
    BY <1>4, <2>2, SumHolds, PlusTimers
<1> HIDE DEF others, rest, timers
<1>8. /\ rest \subseteq BagToSet(Pending)
      /\ \A x \in BagToSet(Pending) : x.packet # NoPacket => (x \in rest <=> x # e)
      /\ \A x \in rest : IsData(x) \/ x.vtime >= e.vtime
  BY LeftFacts DEF rest
<1>9. Balanced(refs, rest \union timers)
  <2>1. e.packet = NoPacket /\ Balanced(refs, BagToSet(Pending))
    BY DEF Timer, Counted
  <2>2. \A x \in BagToSet(Pending) \union (rest \union timers) : x.packet # NoPacket =>
            (x \in BagToSet(Pending) <=> x \in rest \union timers)
    BY <1>4, <1>8, <2>1
  <2>3. QED
    BY <2>1, <2>2, BalancedSame
<1>10. /\ BagToSet(queue') = (rest \union timers) \union events
       /\ Single(queue')
       /\ Balanced(refs', BagToSet(queue'))
  <2>1. p \notin BagToSet(refs) /\ Queued(others, refs, p, events)
    BY <1>6 DEF Sent
  <2>2. BagToSet(others) \subseteq rest \union timers
    BY <1>7
  <2>3. /\ BagToSet(queue') = BagToSet(others) \union events
        /\ Single(queue')
        /\ Balanced(refs', (rest \union timers) \union events)
    BY <1>7, <1>9, <2>1, <2>2, SentBalanced
  <2>4. QED
    BY <1>7, <2>3
<1>11. /\ \A x \in events : /\ x.packet = p /\ x.node \in Hearers(e.node)
                            /\ x.vtime \in Nat /\ x.vtime > e.vtime
       /\ \A x, y \in events : x.node = y.node => x = y
       /\ p.content = content
  BY <1>6 DEF Sent
<1>12. pc' = "loop"
  BY DEF Timer
<1>13. Moved(e, rest, timers, p, events)
  BY <1>4, <1>8, <1>10, <1>11, <1>12 DEF Moved
<1>14. QED
  BY <1>11, <1>13 DEF content

(* node_receive_beacon does that, without a packet.                        *)
LEMMA BeaconEffect ==
    ASSUME Numbers, InOrder, Counted, NEW e \in Handled, ReceiveBeacon(e)
    PROVE  \E rest, timers : Moved(e, rest, timers, NoPacket, {})
<1>1. e.vtime \in Nat /\ args \in Args
  BY LeftFacts DEF Numbers
<1>2. /\ e.packet.content.type = "beacon" /\ refs' = Freed(e) /\ pc' = "loop"
      /\ \/ \E delay \in TimerDelay :
                     queue' = Left(e) (+) TimerEvent(e.node, Due(e.vtime, delay))
                                      (+) TimerEvent(e.node, Due(e.vtime, Second))
         \/ queue' = Left(e)
  BY Zenon DEF ReceiveBeacon
<1> DEFINE rest == BagToSet(Left(e))
<1>3. e.packet # NoPacket
  BY <1>2, HasPacket
<1>4. /\ Balanced(refs', rest) /\ Single(Left(e)) /\ rest \subseteq BagToSet(Pending)
      /\ \A x \in BagToSet(Pending) : x.packet # NoPacket => (x \in rest <=> x # e)
      /\ \A x \in rest : IsData(x) \/ x.vtime >= e.vtime
  BY <1>2, <1>3, FreedFacts, LeftFacts
<1>5. \E timers :
          /\ BagToSet(queue') = rest \union timers
          /\ \A x \in timers : /\ x.packet = NoPacket /\ x.node = e.node
                               /\ x.vtime \in Nat /\ x.vtime > e.vtime
          /\ Single(queue')
  <2>1. CASE queue' = Left(e)
    <3> DEFINE timers == {}
    <3>1. BagToSet(queue') = rest \union timers /\ Single(queue')
      BY <1>4, <2>1
    <3>2. \A x \in timers : /\ x.packet = NoPacket /\ x.node = e.node
                            /\ x.vtime \in Nat /\ x.vtime > e.vtime
      OBVIOUS
    <3> HIDE DEF timers
    <3>3. QED
      BY <3>1, <3>2
  <2>2. CASE \E delay \in TimerDelay :
                     queue' = Left(e) (+) TimerEvent(e.node, Due(e.vtime, delay))
                                      (+) TimerEvent(e.node, Due(e.vtime, Second))
    <3>1. PICK delay \in TimerDelay :
                     queue' = Left(e) (+) TimerEvent(e.node, Due(e.vtime, delay))
                                      (+) TimerEvent(e.node, Due(e.vtime, Second))
      BY <2>2
    <3> DEFINE t1 == TimerEvent(e.node, Due(e.vtime, delay))
               t2 == TimerEvent(e.node, Due(e.vtime, Second))
               timers == BagToSet(t1) \union BagToSet(t2)
    <3>2. \A x \in timers : /\ x.packet = NoPacket /\ x.node = e.node
                            /\ x.vtime \in Nat /\ x.vtime > e.vtime
      BY <1>1, NumbersKnown, TimerIn
    <3> HIDE DEF t1, t2
    <3>3. queue' = Left(e) (+) t1 (+) t2
      BY <3>1 DEF t1, t2
    <3>4. BagToSet(Left(e) (+) t1) = rest \union BagToSet(t1) /\ Single(Left(e) (+) t1)
      BY <1>4, <3>2, SumHolds, PlusTimers
    <3>5. BagToSet(queue') = rest \union timers /\ Single(queue')
      BY <3>2, <3>3, <3>4, SumHolds, PlusTimers
    <3> HIDE DEF timers
    <3>6. QED
      BY <3>2, <3>5
  <2>3. QED
    BY <1>2, <2>1, <2>2
<1> HIDE DEF rest
<1>6. PICK timers :
          /\ BagToSet(queue') = rest \union timers
          /\ \A x \in timers : /\ x.packet = NoPacket /\ x.node = e.node
                               /\ x.vtime \in Nat /\ x.vtime > e.vtime
          /\ Single(queue')
  BY <1>5
<1>7. Balanced(refs', BagToSet(queue'))
  <2>1. \A x \in rest \union (rest \union timers) : x.packet # NoPacket =>
            (x \in rest <=> x \in rest \union timers)
    BY <1>6
  <2>2. QED
    BY <1>4, <1>6, <2>1, BalancedSame
<1>8. Moved(e, rest, timers, NoPacket, {})
  BY <1>2, <1>4, <1>6, <1>7 DEF Moved
<1>9. QED
  BY <1>8

(* node_receive_data and node_forward_data do that, with a packet that     *)
(* differs from the one received in its hop only, if with any.             *)
LEMMA DataEffect ==
    ASSUME Numbers, InOrder, Counted, NEW e \in Handled, ReceiveData(e)
    PROVE  \E rest, p, events :
              /\ Moved(e, rest, {}, p, events)
              /\ \/ events = {}
                 \/ /\ Forwards(e.node, e.packet.content)
                    /\ \E hop : p.content = [e.packet.content EXCEPT !.hop = hop]
<1>1. e.vtime \in Nat /\ args \in Args /\ IsFiniteSet(BagToSet(refs))
  BY LeftFacts DEF Numbers, Counted, Balanced
<1> DEFINE data == e.packet.content
           rest == BagToSet(Left(e))
<1>2. data.type = "data" /\ pc' = "loop"
  BY Zenon DEF ReceiveData
<1>3. e.packet # NoPacket
  BY <1>2, HasPacket
<1>4. /\ Balanced(Freed(e), rest) /\ Single(Left(e)) /\ rest \subseteq BagToSet(Pending)
      /\ BagToSet(Freed(e)) \subseteq BagToSet(refs)
      /\ \A x \in BagToSet(Pending) : x.packet # NoPacket => (x \in rest <=> x # e)
      /\ \A x \in rest : IsData(x) \/ x.vtime >= e.vtime
  BY <1>3, FreedFacts, LeftFacts
<1>5. PICK hop \in IF Forwards(e.node, data) THEN Hops(e.node) ELSE {Nobody} :
          IF hop = Nobody
            THEN refs' = Freed(e) /\ queue' = Left(e)
            ELSE Sends(e.node, e.vtime, [data EXCEPT !.hop = hop], Left(e), Freed(e))
  BY Zenon DEF ReceiveData
<1>6. CASE hop = Nobody
  <2>1. refs' = Freed(e) /\ queue' = Left(e)
    BY <1>5, <1>6
  <2>2. Moved(e, rest, {}, NoPacket, {})
    BY <1>2, <1>4, <2>1 DEF Moved
  <2>3. QED
    BY <2>2
<1>7. CASE hop # Nobody
  <2> DEFINE content == [data EXCEPT !.hop = hop]
  <2>1. Forwards(e.node, data)
    BY <1>5, <1>7
  <2>2. Sends(e.node, e.vtime, content, Left(e), Freed(e))
    BY <1>5, <1>7
  <2> HIDE DEF content, rest, data
  <2>3. PICK p, events : Sent(e.node, e.vtime, content, Left(e), Freed(e), p, events)
    BY <1>1, <2>2, SendsFacts
  <2>4. p.content = content /\ p \notin BagToSet(Freed(e)) /\ Queued(Left(e), Freed(e), p, events)
    BY <1>4, <2>3 DEF Sent
  <2>5. /\ BagToSet(queue') = rest \union events
        /\ Single(queue')
        /\ Balanced(refs', BagToSet(queue'))
    <3>0. /\ Balanced(Freed(e), rest) /\ Single(Left(e)) /\ p \notin BagToSet(Freed(e))
          /\ Queued(Left(e), Freed(e), p, events)
      BY <1>4, <2>4
    <3>1. BagToSet(Left(e)) = rest /\ BagToSet(Left(e)) \subseteq rest
      BY DEF rest
    <3>2. /\ BagToSet(queue') = BagToSet(Left(e)) \union events
          /\ Single(queue')
          /\ Balanced(refs', rest \union events)
      BY <3>0, <3>1, SentBalanced
    <3>3. QED
      BY <3>1, <3>2
  <2>6. /\ \A x \in events : /\ x.packet = p /\ x.node \in Hearers(e.node)
                             /\ x.vtime \in Nat /\ x.vtime > e.vtime
        /\ \A x, y \in events : x.node = y.node => x = y
    BY <2>3 DEF Sent
  <2>7. Moved(e, rest, {}, p, events)
    BY <1>2, <1>4, <2>5, <2>6 DEF Moved
  <2>8. QED
    BY <2>1, <2>4, <2>7 DEF content, data
<1>8. QED
  BY <1>6, <1>7

(* node_route_test queues a new data packet with what its table says is    *)
(* the next hop, if with any.                                              *)
LEMMA TestEffect ==
    ASSUME IInv, RouteTest
    PROVE  \E p, events :
              /\ BagToSet(queue') = BagToSet(queue) \union events
              /\ Single(queue')
              /\ Balanced(refs', BagToSet(Pending) \union events)
              /\ \A x \in events : /\ x.packet = p /\ x.node \in Hearers(tester)
                                   /\ x.vtime \in Nat /\ x.vtime > tick
              /\ \A x, y \in events : x.node = y.node => x = y
              /\ \A x \in BagToSet(Pending) \union events :
                    x.packet # NoPacket /\ x \in BagToSet(Pending) => x \notin events
              /\ p # NoPacket
              /\ \E hop : p.content = Data(tester, tick, hop)
<1> USE DEF IInv
<1>1. PICK hop \in Hops(tester) :
          IF hop = Nobody THEN UNCHANGED <<queue, refs>>
          ELSE Sends(tester, tick, Data(tester, tick, hop), queue, refs)
  BY Zenon DEF RouteTest
<1>2. /\ BagToSet(queue) \subseteq BagToSet(Pending)
      /\ Single(queue) /\ Balanced(refs, BagToSet(Pending))
  BY PendingIs DEF Counted
<1>3. CASE hop = Nobody
  <2> DEFINE events == {}
             p == Packet(Data(tester, tick, 0), 1)
  <2>1. queue' = queue /\ refs' = refs
    BY <1>1, <1>3
  <2>2. p # NoPacket /\ p.content = Data(tester, tick, 0)
    BY DEF Packet, NoPacket
  <2>3. /\ \A x \in events : /\ x.packet = p /\ x.node \in Hearers(tester)
                             /\ x.vtime \in Nat /\ x.vtime > tick
        /\ \A x, y \in events : x.node = y.node => x = y
        /\ \A x \in BagToSet(Pending) \union events :
              x.packet # NoPacket /\ x \in BagToSet(Pending) => x \notin events
    OBVIOUS
  <2>4. /\ BagToSet(queue') = BagToSet(queue) \union events
        /\ Single(queue')
        /\ Balanced(refs', BagToSet(Pending) \union events)
    BY <1>2, <2>1
  <2> HIDE DEF p, events
  <2>5. QED
    BY <2>2, <2>3, <2>4
<1>4. CASE hop # Nobody
  <2>1. Sends(tester, tick, Data(tester, tick, hop), queue, refs)
    BY <1>1, <1>4
  <2>2. tick \in Nat /\ args \in Args /\ IsFiniteSet(BagToSet(refs))
    BY DEF Numbers, Counted, Balanced
  <2>3. PICK p, events : Sent(tester, tick, Data(tester, tick, hop), queue, refs, p, events)
    BY <2>1, <2>2, SendsFacts
  <2>4. /\ p.content = Data(tester, tick, hop) /\ p # NoPacket /\ p \notin BagToSet(refs)
        /\ \A x \in events : /\ x.packet = p /\ x.node \in Hearers(tester)
                             /\ x.vtime \in Nat /\ x.vtime > tick
        /\ \A x, y \in events : x.node = y.node => x = y
        /\ Queued(queue, refs, p, events)
    BY <2>3 DEF Sent, Queued
  <2>5. \A x \in BagToSet(Pending) : x.packet # p
    BY <1>2, <2>4, Unallocated
  <2>6. /\ BagToSet(queue') = BagToSet(queue) \union events
        /\ Single(queue')
        /\ Balanced(refs', BagToSet(Pending) \union events)
    BY <1>2, <2>4, SentBalanced
  <2>7. QED
    BY <2>4, <2>5, <2>6
<1>5. QED
  BY <1>3, <1>4

-----------------------------------------------------------------------------
(***************************************************************************)
(* What the invariant needs of a handler is the same for all three         *)
(* (Moved).                                                                *)
(***************************************************************************)

(* A handler keeps the numbers, the clock and the counts.                  *)
LEMMA MovedNumbers ==
    ASSUME Numbers, Clock, InOrder, Counted, NEW e \in Handled,
           NEW rest, NEW timers, NEW p, NEW events, Moved(e, rest, timers, p, events),
           UNCHANGED <<args, tick, tester>>, traced' \in {traced, e.vtime}
    PROVE  Numbers' /\ Clock' /\ Counted'
<1>1. /\ BagToSet(Pending)' = (rest \union timers) \union events
      /\ BagToSet(Pending)' = BagToSet(queue')
      /\ pc' = "loop"
  BY PendingNext DEF Moved
<1>2. /\ e \in BagToSet(Pending) /\ e.vtime \in Nat
      /\ \A x \in BagToSet(Pending) : x.vtime \in Nat /\ x.vtime > tick - Second
      /\ tick \in Nat /\ Second \in Nat
  BY LeftFacts, NumbersKnown DEF Numbers, Clock, LessThanASecondLate
<1>3. \A x \in rest : x \in BagToSet(Pending)
  BY DEF Moved
<1>4. \A x \in timers \union events : x.vtime \in Nat /\ x.vtime > e.vtime
  BY DEF Moved
<1>5. \A x \in BagToSet(Pending)' : x.vtime \in Nat /\ x.vtime > tick - Second
  BY <1>1, <1>2, <1>3, <1>4
<1>6. Numbers'
  BY <1>1, <1>2, <1>5 DEF Numbers
<1>7. Clock'
  BY <1>1, <1>5 DEF Clock, LessThanASecondLate
<1>8. Counted'
  BY <1>1 DEF Counted, Moved, Busy
<1>9. QED
  BY <1>6, <1>7, <1>8

(* A handler keeps the order of beacons, as no event is asked for at a     *)
(* time before that of the event handled.                                  *)
LEMMA MovedInOrder ==
    ASSUME Numbers, InOrder, Counted, NEW e \in Handled,
           NEW rest, NEW timers, NEW p, NEW events, Moved(e, rest, timers, p, events),
           traced' = traced \/ (traced' = e.vtime /\ ~IsData(e)),
           IsData(e) => timers = {} /\ \A x \in events : IsData(x)
    PROVE  InOrder' /\ traced' >= traced
<1>1. /\ BagToSet(Pending)' = (rest \union timers) \union events
      /\ pc' = "loop"
  BY PendingNext DEF Moved
<1>2. /\ e \in BagToSet(Pending) /\ e.vtime \in Nat /\ traced \in Nat
      /\ \A x \in BagToSet(Pending) : x.vtime \in Nat /\ (IsData(x) \/ x.vtime >= traced)
  BY LeftFacts DEF Numbers, InOrder
<1>3. traced' \in Nat /\ traced' >= traced /\ (IsData(e) \/ e.vtime >= traced')
  BY <1>2
<1>4. ASSUME NEW x \in rest
      PROVE  IsData(x) \/ x.vtime >= traced'
  <2>1. x \in BagToSet(Pending) /\ (IsData(x) \/ x.vtime >= e.vtime)
    BY DEF Moved
  <2>2. QED
    BY <1>2, <2>1
<1>5. ASSUME NEW x \in timers \union events
      PROVE  IsData(x) \/ x.vtime >= traced'
  <2>1. x.vtime \in Nat /\ x.vtime > e.vtime
    BY DEF Moved
  <2>2. CASE IsData(e)
    BY <2>2
  <2>3. CASE ~IsData(e)
    BY <1>2, <1>3, <2>1, <2>3
  <2>4. QED
    BY <2>2, <2>3
<1>6. \A x \in BagToSet(Pending)' : IsData(x) \/ x.vtime >= traced'
  BY <1>1, <1>4, <1>5
<1>7. InOrder'
  BY <1>1, <1>6 DEF InOrder, Busy, IsData
<1>8. QED
  BY <1>3, <1>7

(* A handler keeps data packets apart: one that is sent takes the place of *)
(* the one received, for no other node has to forward that.                *)
LEMMA MovedData ==
    ASSUME Numbers, InOrder, Counted, Tested, NeverMultiplied, NEW e \in Handled,
           NEW rest, NEW timers, NEW p, NEW events, Moved(e, rest, timers, p, events),
           UNCHANGED tick,
           \/ \A x \in events : ~IsData(x)
           \/ /\ IsData(e) /\ e.packet.content.hop = e.node
              /\ \E hop : p.content = [e.packet.content EXCEPT !.hop = hop]
    PROVE  Tested' /\ NeverMultiplied'
<1>1. /\ BagToSet(Pending)' = (rest \union timers) \union events
      /\ pc' = "loop" /\ pc # "test"
  BY PendingNext, LeftFacts DEF Moved
<1>2. e \in BagToSet(Pending) /\ rest \subseteq BagToSet(Pending)
  BY LeftFacts DEF Moved
<1>3. \A x \in timers : ~IsData(x)
  BY NoPacketFacts DEF Moved
<1> DEFINE Old(x) ==
              LET data == x.packet.content
              IN  /\ data = Data(data.src, data.vtime, data.hop)
                  /\ data.src \in Nat /\ data.vtime \in Nat
                  /\ data.vtime < tick
           key(x) == <<x.packet.content.src, x.packet.content.vtime>>
<1>4. \A x \in BagToSet(Pending) : IsData(x) => Old(x)
  BY <1>1 DEF Tested
<1>5. ASSUME NEW x \in events, IsData(x)
      PROVE  /\ Old(x) /\ key(x) = key(e) /\ e \in Routing
             /\ \A y \in events : x.packet = y.packet
  <2>1. PICK hop : p.content = [e.packet.content EXCEPT !.hop = hop]
    BY <1>5
  <2>2. IsData(e) /\ e.packet.content.hop = e.node
    BY <1>5
  <2>3. Old(e)
    BY <1>2, <1>4, <2>2
  <2> DEFINE data == e.packet.content
  <2>4. p.content = Data(data.src, data.vtime, hop)
    BY <2>1, <2>3 DEF Data
  <2>5. \A y \in events : y.packet = p
    BY DEF Moved
  <2>6. x.packet.content = Data(data.src, data.vtime, hop)
    BY <2>4, <2>5
  <2>7. Old(x) /\ key(x) = key(e)
    BY <2>3, <2>6 DEF Data
  <2>8. e \in Routing
    BY <1>2, <2>2 DEF Routing, IsData
  <2>9. QED
    BY <2>5, <2>7, <2>8
<1>6. \A x \in BagToSet(Pending)' : IsData(x) => Old(x)
  <2> HIDE DEF Old
  <2>1. QED
    BY <1>1, <1>2, <1>3, <1>4, <1>5
<1>7. Tested'
  BY <1>1, <1>6 DEF Tested, IsData
<1>8. ASSUME NEW x \in Routing', NEW y \in Routing', key(x) = key(y)
      PROVE  x = y
  <2>1. /\ x \in BagToSet(Pending)' /\ IsData(x) /\ x.packet.content.hop = x.node
        /\ y \in BagToSet(Pending)' /\ IsData(y) /\ y.packet.content.hop = y.node
    BY DEF Routing, IsData
  <2>2. x \in rest \union events /\ y \in rest \union events
    BY <1>1, <1>3, <2>1
  <2>3. ASSUME NEW z \in rest, IsData(z), z.packet.content.hop = z.node
        PROVE  z \in Routing /\ z # e
    <3>1. z \in Routing
      BY <1>2, <2>3 DEF Routing, IsData
    <3>2. z.packet # NoPacket
      BY <2>3, NoPacketFacts
    <3>3. QED
      BY <1>2, <3>1, <3>2 DEF Moved
  <2>4. \A w, z \in Routing : key(w) = key(z) => w = z
    BY DEF NeverMultiplied
  <2> HIDE DEF key
  <2>5. CASE x \in rest /\ y \in rest
    BY <1>8, <2>1, <2>3, <2>4, <2>5
  <2>6. CASE x \in rest /\ y \in events
    BY <1>5, <1>8, <2>1, <2>3, <2>4, <2>6
  <2>7. CASE x \in events /\ y \in rest
    BY <1>5, <1>8, <2>1, <2>3, <2>4, <2>7
  <2>8. CASE x \in events /\ y \in events
    <3>1. x.packet = y.packet
      BY <1>5, <2>1, <2>8
    <3>2. x.node = y.node
      BY <2>1, <3>1
    <3>3. QED
      BY <2>8, <3>2 DEF Moved
  <2>9. QED
    BY <2>2, <2>5, <2>6, <2>7, <2>8
<1>9. NeverMultiplied'
  BY <1>8 DEF NeverMultiplied
<1>10. QED
  BY <1>7, <1>9

(* Before anything is read nothing is pending.                             *)
LEMMA InitIInv == Init => IInv
<1> SUFFICES ASSUME Init PROVE IInv
  OBVIOUS
<1>1. ~Busy /\ BagToSet(queue) = {} /\ BagToSet(refs) = {}
  BY EmptyHolds DEF Init, Busy
<1>2. BagToSet(Pending) = {}
  BY <1>1, PendingIs
<1>3. Numbers
  BY <1>2 DEF Init, Numbers
<1>4. Clock /\ InOrder /\ Tested
  BY <1>1, <1>2 DEF Clock, InOrder, Tested, LessThanASecondLate
<1>5. Counted
  <2>1. IsFiniteSet(BagToSet(refs))
    BY <1>1, FS_EmptySet
  <2>2. Balanced(refs, BagToSet(Pending))
    BY <1>1, <1>2, <2>1 DEF Balanced
  <2>3. QED
    BY <1>1, <2>2 DEF Counted, Single
<1>6. NeverMultiplied
  BY <1>2 DEF NeverMultiplied, Routing
<1>7. QED
  BY <1>3, <1>4, <1>5, <1>6 DEF IInv

(* node_timer keeps the invariant.                                         *)
LEMMA TimerStep ==
    ASSUME IInv, NEW e \in Handled, Timer(e)
    PROVE  IInv' /\ traced' >= traced
<1> USE DEF IInv
<1>1. PICK rest, timers, p, events :
          /\ Moved(e, rest, timers, p, events)
          /\ p.content = Beacon(status'[e.node], BeaconEntries(e.node, table[e.node]))
  BY TimerEffect
<1>2. e.packet = NoPacket /\ traced' = e.vtime /\ UNCHANGED <<args, tick, tester>>
  BY Zenon DEF Timer
<1>3. ~IsData(e)
  BY <1>2, NoPacketFacts
<1>4. \A x \in events : ~IsData(x)
  BY <1>1 DEF Moved, IsData, Beacon
<1> USE DEF IInv
<1>5. Numbers' /\ Clock' /\ Counted'
  BY <1>1, <1>2, MovedNumbers
<1>6. InOrder' /\ traced' >= traced
  BY <1>1, <1>2, <1>3, MovedInOrder
<1>7. Tested' /\ NeverMultiplied'
  BY <1>1, <1>2, <1>4, MovedData
<1>8. QED
  BY <1>5, <1>6, <1>7

(* node_receive_beacon keeps the invariant.                                *)
LEMMA BeaconStep ==
    ASSUME IInv, NEW e \in Handled, ReceiveBeacon(e)
    PROVE  IInv' /\ traced' >= traced
<1> USE DEF IInv
<1>1. PICK rest, timers : Moved(e, rest, timers, NoPacket, {})
  BY BeaconEffect
<1>2. e.packet.content.type = "beacon" /\ UNCHANGED <<args, tick, tester, traced>>
  BY Zenon DEF ReceiveBeacon
<1>3. ~IsData(e)
  BY <1>2 DEF IsData
<1>5. Numbers' /\ Clock' /\ Counted'
  BY <1>1, <1>2, MovedNumbers
<1>6. InOrder' /\ traced' >= traced
  BY <1>1, <1>2, <1>3, MovedInOrder
<1>7. Tested' /\ NeverMultiplied'
  BY <1>1, <1>2, MovedData
<1>8. QED
  BY <1>5, <1>6, <1>7

(* node_receive_data keeps the invariant.                                  *)
LEMMA DataStep ==
    ASSUME IInv, NEW e \in Handled, ReceiveData(e)
    PROVE  IInv' /\ traced' >= traced
<1> USE DEF IInv
<1>1. PICK rest, p, events :
          /\ Moved(e, rest, {}, p, events)
          /\ \/ events = {}
             \/ /\ Forwards(e.node, e.packet.content)
                /\ \E hop : p.content = [e.packet.content EXCEPT !.hop = hop]
  BY DataEffect
<1>2. e.packet.content.type = "data" /\ UNCHANGED <<args, tick, tester, traced>>
  BY Zenon DEF ReceiveData
<1>3. IsData(e)
  BY <1>2 DEF IsData
<1>4. events # {} => e.packet.content.hop = e.node
  BY <1>1 DEF Forwards
<1>5. Numbers' /\ Clock' /\ Counted'
  BY <1>1, <1>2, MovedNumbers
<1>6. \A x \in events : IsData(x)
  <2>1. CASE events = {}
    BY <2>1
  <2>2. CASE events # {}
    <3>1. PICK hop : p.content = [e.packet.content EXCEPT !.hop = hop]
      BY <1>1, <2>2
    <3> DEFINE data == e.packet.content
    <3>2. data = Data(data.src, data.vtime, data.hop)
      BY <1>3, LeftFacts DEF Tested
    <3>3. p.content.type = "data"
      BY <3>1, <3>2 DEF Data
    <3>4. QED
      BY <1>1, <3>3 DEF Moved, IsData
  <2>3. QED
    BY <2>1, <2>2
<1>7. InOrder' /\ traced' >= traced
  BY <1>1, <1>2, <1>3, <1>6, MovedInOrder
<1>8. Tested' /\ NeverMultiplied'
  <2>1. CASE events = {}
    BY <1>1, <1>2, <2>1, MovedData
  <2>2. CASE events # {}
    BY <1>1, <1>2, <1>3, <1>4, <2>2, MovedData
  <2>3. QED
    BY <2>1, <2>2
<1>9. QED
  BY <1>5, <1>7, <1>8

(* So does a step that leaves all of it alone.                             *)
LEMMA SameStep ==
    ASSUME IInv, UNCHANGED <<args, queue, tick, pc, current, tester, refs, traced>>
    PROVE  IInv' /\ traced' >= traced
<1>1. Pending' = Pending /\ BagToSet(Pending)' = BagToSet(Pending)
  BY DEF Pending, BagToSet
<1>2. Numbers' /\ Clock' /\ traced' >= traced
  BY <1>1 DEF IInv, Numbers, Clock, LessThanASecondLate
<1>3. InOrder' /\ Tested'
  BY <1>1 DEF IInv, InOrder, Tested, Busy, IsData
<1>4. Counted'
  BY <1>1 DEF IInv, Counted, Busy
<1>5. NeverMultiplied'
  <2>1. Routing' = Routing
    BY <1>1 DEF Routing
  <2>2. QED
    BY <2>1 DEF IInv, NeverMultiplied
<1>6. QED
  BY <1>2, <1>3, <1>4, <1>5 DEF IInv

(* So does the end of the loop.                                            *)
LEMMA FinishStep ==
    ASSUME IInv, Finish
    PROVE  IInv' /\ traced' >= traced
<1> USE DEF IInv
<1>1. /\ pc = "loop" /\ pc' = "done"
      /\ UNCHANGED <<args, queue, tick, current, tester, refs, traced>>
  BY DEF Finish
<1>2. BagToSet(Pending)' = BagToSet(queue) /\ BagToSet(Pending) = BagToSet(queue)
  BY <1>1, PendingIs, PendingNext DEF Busy
<1>3. Numbers' /\ Clock' /\ traced' >= traced
  BY <1>1, <1>2 DEF Numbers, Clock, LessThanASecondLate
<1>4. InOrder' /\ Tested'
  BY <1>1, <1>2 DEF InOrder, Tested, Busy, IsData
<1>5. Counted'
  BY <1>1, <1>2 DEF Counted, Busy
<1>6. NeverMultiplied'
  <2>1. Routing' = Routing
    BY <1>2 DEF Routing
  <2>2. QED
    BY <2>1 DEF NeverMultiplied
<1>7. QED
  BY <1>3, <1>4, <1>5, <1>6

(* So does the start, with the first timers of the nodes.                  *)
LEMMA StartStep ==
    ASSUME IInv, Start
    PROVE  IInv' /\ traced' >= traced
<1> USE DEF IInv
<1>1. /\ pc = "read" /\ pc' = "loop"
      /\ UNCHANGED <<args, tick, current, tester, refs, traced>>
  BY DEF Start
<1>2. tick = 0 /\ traced = 0 /\ refs = EmptyBag /\ args \in Args /\ tester \in Nat
  BY <1>1 DEF Numbers
<1>3. PICK delay \in [Node -> TimerDelay] :
          queue' = BagUnion({TimerEvent(n, IF status'[n] = "ROOT" THEN 0 ELSE delay[n]) :
                                n \in {m \in Node : status'[m] # "ASLEEP"}})
  BY DEF Start
<1>4. ASSUME NEW x \in BagToSet(queue')
      PROVE  x.packet = NoPacket /\ x.vtime \in Nat
  <2>1. PICK n \in Node :
            x \in BagToSet(TimerEvent(n, IF status'[n] = "ROOT" THEN 0 ELSE delay[n]))
    BY <1>3 DEF BagUnion, BagToSet
  <2> DEFINE v == IF status'[n] = "ROOT" THEN 0 ELSE delay[n]
  <2>2. v \in Nat
    BY NumbersKnown
  <2> HIDE DEF v
  <2>3. x \in BagToSet(TimerEvent(n, v))
    BY <2>1 DEF v
  <2>4. x = Event(v, n, NoPacket)
    BY <1>2, <2>2, <2>3, TimerHolds
  <2>5. QED
    BY <2>2, <2>4 DEF Event
<1>5. BagToSet(Pending)' = BagToSet(queue')
  BY <1>1, PendingNext
<1>6. Numbers' /\ Clock' /\ traced' >= traced
  BY <1>1, <1>2, <1>4, <1>5, NumbersKnown DEF Numbers, Clock, LessThanASecondLate
<1>7. \A x \in BagToSet(queue') : ~IsData(x)
  BY <1>4, NoPacketFacts
<1>8. InOrder' /\ Tested'
  BY <1>1, <1>2, <1>4, <1>5, <1>7 DEF InOrder, Tested, Busy, IsData
<1>9. Counted'
  <2>1. BagToSet(refs') = {} /\ IsFiniteSet(BagToSet(refs'))
    BY <1>1, <1>2, EmptyHolds, FS_EmptySet
  <2>2. Balanced(refs', BagToSet(queue'))
    BY <1>4, <2>1 DEF Balanced
  <2>3. Single(queue')
    BY <1>4 DEF Single
  <2>4. QED
    BY <1>1, <1>5, <2>2, <2>3 DEF Counted, Busy
<1>10. NeverMultiplied'
  <2>1. Routing' = {}
    BY <1>5, <1>7 DEF Routing, IsData
  <2>2. QED
    BY <2>1 DEF NeverMultiplied
<1>11. QED
  BY <1>6, <1>8, <1>9, <1>10

(* So does queue_pop of an event that waits for the tick.                  *)
LEMMA TickDueStep ==
    ASSUME IInv, TickDue
    PROVE  IInv' /\ traced' >= traced
<1> USE DEF IInv
<1>1. PICK e \in Earliest(queue) :
          e.vtime > tick /\ queue' = queue (-) SetToBag({e}) /\ current' = e
  BY DEF TickDue
<1>2. /\ pc = "loop" /\ pc' = "test"
      /\ UNCHANGED <<args, tick, tester, refs, traced>>
  BY DEF TickDue
<1>3. e \in BagToSet(queue) /\ \A x \in BagToSet(queue) : e.vtime <= x.vtime
  BY DEF Earliest
<1>4. /\ BagToSet(queue') \subseteq BagToSet(queue)
      /\ \A x \in BagToSet(queue) : x.packet # NoPacket => (x \in BagToSet(queue') <=> x # e)
      /\ Single(queue')
  <2>1. Single(queue)
    BY DEF Counted
  <2>2. QED
    BY <1>1, <1>3, <2>1, MinusOne, Zenon
<1>5. BagToSet(Pending) = BagToSet(queue) /\ BagToSet(Pending)' = BagToSet(queue') \union {e}
  BY <1>1, <1>2, PendingIs, PendingNext DEF Busy
<1>6. BagToSet(Pending)' \subseteq BagToSet(Pending)
  BY <1>3, <1>4, <1>5
<1>7. \A x \in BagToSet(Pending) :
          x.vtime \in Nat /\ x.vtime > tick - Second /\ x.vtime >= e.vtime
  BY <1>3, <1>5 DEF Numbers, Clock, LessThanASecondLate
<1>8. tick \in Nat /\ traced \in Nat /\ e.vtime > tick /\ e.vtime \in Nat
  BY <1>1, <1>3, <1>5 DEF Numbers
<1>9. Numbers' /\ traced' >= traced
  BY <1>2, <1>6, <1>8 DEF Numbers
<1>10. Clock'
  BY <1>2, <1>6, <1>7, <1>8 DEF Clock, LessThanASecondLate
<1>11. InOrder'
  BY <1>1, <1>2, <1>4, <1>5, <1>6, <1>7 DEF InOrder, IsData
<1>12. Tested'
  BY <1>2, <1>6 DEF Tested, IsData
<1>13. Counted'
  <2>1. \A x \in BagToSet(Pending) \union BagToSet(Pending)' : x.packet # NoPacket =>
            (x \in BagToSet(Pending) <=> x \in BagToSet(Pending)')
    BY <1>3, <1>4, <1>5
  <2>2. Balanced(refs', BagToSet(Pending)')
    BY <1>2, <2>1, BalancedSame DEF Counted
  <2>3. current'.packet # NoPacket => current' \notin BagToSet(queue')
    BY <1>1, <1>3, <1>4
  <2>4. QED
    BY <1>4, <2>2, <2>3 DEF Counted
<1>14. NeverMultiplied'
  <2>1. Routing' \subseteq Routing
    BY <1>6 DEF Routing
  <2>2. QED
    BY <2>1 DEF NeverMultiplied
<1>15. QED
  BY <1>9, <1>10, <1>11, <1>12, <1>13, <1>14

(* So does a route test; the last one ends the tick. The packet is told    *)
(* from those under way by its source, which is past all that were tested. *)
LEMMA TestStep ==
    ASSUME IInv, RouteTest
    PROVE  IInv' /\ traced' >= traced
<1> USE DEF IInv
<1>1. PICK p, events :
              /\ BagToSet(queue') = BagToSet(queue) \union events
              /\ Single(queue')
              /\ Balanced(refs', BagToSet(Pending) \union events)
              /\ \A x \in events : /\ x.packet = p /\ x.node \in Hearers(tester)
                                   /\ x.vtime \in Nat /\ x.vtime > tick
              /\ \A x, y \in events : x.node = y.node => x = y
              /\ \A x \in BagToSet(Pending) \union events :
                    x.packet # NoPacket /\ x \in BagToSet(Pending) => x \notin events
              /\ p # NoPacket
              /\ \E hop : p.content = Data(tester, tick, hop)
  BY TestEffect
<1>2. PICK hop : p.content = Data(tester, tick, hop)
  BY <1>1
<1>3. /\ pc = "test" /\ UNCHANGED <<args, current, traced>>
      /\ \/ tester' = 0 /\ tick' = tick + Second /\ pc' = "dispatch"
         \/ tester' = tester + 1 /\ UNCHANGED <<tick, pc>>
  BY Zenon DEF RouteTest, NextTick
<1>4. /\ BagToSet(Pending) = BagToSet(queue) \union {current}
      /\ BagToSet(Pending)' = BagToSet(Pending) \union events
  BY <1>1, <1>3, PendingIs, PendingNext DEF Busy
<1>5. /\ tick \in Nat /\ tester \in Nat /\ traced \in Nat /\ Second \in Nat \ {0}
      /\ \A x \in BagToSet(Pending) : x.vtime \in Nat /\ x.vtime > tick
  BY <1>3, NumbersKnown DEF Numbers, Clock
<1>6. \A x \in BagToSet(Pending)' : x.vtime \in Nat /\ x.vtime > tick
  BY <1>1, <1>4, <1>5
<1>7. Numbers' /\ traced' >= traced
  <2>1. tick' \in Nat /\ tester' \in Nat /\ pc' \in {"test", "dispatch"}
    BY <1>3, <1>5
  <2>2. QED
    BY <1>3, <1>5, <1>6, <2>1 DEF Numbers
<1>8. Clock'
  BY <1>3, <1>5, <1>6 DEF Clock, LessThanASecondLate
<1>9. \A x \in events : IsData(x)
  BY <1>1, <1>2 DEF IsData, Data
<1>10. InOrder'
  BY <1>1, <1>3, <1>4, <1>9 DEF InOrder, Busy, IsData
<1>11. Counted'
  <2>1. current'.packet # NoPacket => current' \notin BagToSet(queue')
    BY <1>1, <1>3, <1>4 DEF Counted, Busy
  <2>2. QED
    BY <1>1, <1>4, <2>1 DEF Counted
<1> DEFINE key(x) == <<x.packet.content.src, x.packet.content.vtime>>
<1>12. ASSUME NEW x \in events
       PROVE  LET data == x.packet.content
              IN  /\ data = Data(data.src, data.vtime, data.hop)
                  /\ data.src = tester /\ data.vtime = tick /\ data.hop = hop
  BY <1>1, <1>2 DEF Data
<1>13. ASSUME NEW x \in BagToSet(Pending), IsData(x)
       PROVE  LET data == x.packet.content
              IN  /\ data = Data(data.src, data.vtime, data.hop)
                  /\ data.src \in Nat /\ data.vtime \in Nat
                  /\ data.vtime < tick \/ (data.vtime = tick /\ data.src < tester)
  BY <1>3, <1>13 DEF Tested
<1>14. Tested'
  <2> SUFFICES ASSUME NEW x \in BagToSet(Pending)', IsData(x)
               PROVE  LET data == x.packet.content
                      IN  /\ data = Data(data.src, data.vtime, data.hop)
                          /\ data.src \in Nat /\ data.vtime \in Nat
                          /\ \/ data.vtime < tick'
                             \/ pc' = "test" /\ data.vtime = tick' /\ data.src < tester'
    BY DEF Tested, IsData
  <2>1. CASE x \in events
    BY <1>3, <1>5, <1>12, <2>1
  <2>2. CASE x \in BagToSet(Pending)
    BY <1>3, <1>5, <1>13, <2>2
  <2>3. QED
    BY <1>4, <2>1, <2>2
<1>15. NeverMultiplied'
  <2>1. SUFFICES ASSUME NEW x \in Routing', NEW y \in Routing', key(x) = key(y)
                 PROVE  x = y
    BY DEF NeverMultiplied
  <2>2. /\ x \in BagToSet(Pending)' /\ IsData(x) /\ x.packet.content.hop = x.node
        /\ y \in BagToSet(Pending)' /\ IsData(y) /\ y.packet.content.hop = y.node
    BY DEF Routing, IsData
  <2>3. ASSUME NEW w \in events, NEW z \in BagToSet(Pending), IsData(z)
        PROVE  key(w) # key(z)
    BY <1>5, <1>12, <1>13, <2>3
  <2>4. CASE x \in events /\ y \in events
    <3>1. x.node = y.node
      BY <1>12, <2>2, <2>4
    <3>2. QED
      BY <1>1, <2>4, <3>1
  <2>5. CASE x \in BagToSet(Pending) /\ y \in BagToSet(Pending)
    <3>1. x \in Routing /\ y \in Routing
      BY <2>2, <2>5 DEF Routing, IsData
    <3>2. QED
      BY <2>1, <3>1 DEF NeverMultiplied
  <2>6. QED
    BY <1>4, <2>1, <2>2, <2>3, <2>4, <2>5
<1>16. QED
  BY <1>7, <1>8, <1>10, <1>11, <1>14, <1>15

(* Every step keeps the invariant, and traces no earlier time.             *)
LEMMA NextStep == IInv /\ [Next]_vars => IInv' /\ traced' >= traced
<1> SUFFICES ASSUME IInv, [Next]_vars PROVE IInv' /\ traced' >= traced
  OBVIOUS
<1>1. CASE ReadLine
  BY <1>1, SameStep DEF ReadLine
<1>2. CASE Stopped \/ UNCHANGED vars
  BY <1>2, SameStep DEF Stopped, vars
<1>3. ASSUME NEW e \in Handled, Timer(e) \/ ReceiveBeacon(e) \/ ReceiveData(e)
      PROVE  IInv' /\ traced' >= traced
  BY <1>3, TimerStep, BeaconStep, DataStep
<1>4. QED
  BY <1>1, <1>2, <1>3, StartStep, TickDueStep, FinishStep, TestStep DEF Next

(***************************************************************************)
(* Every reachable state satisfies the inductive invariant.                *)
(***************************************************************************)
THEOREM Invariance == Spec => []IInv
BY InitIInv, NextStep, PTL DEF Spec

(***************************************************************************)
(* Route tests make the clock of events run backwards, but never by as     *)
(* much as a second: no pending event is due at the tick before or earlier *)
(* (sim.c:149-158).                                                        *)
(***************************************************************************)
THEOREM ClockLag == Spec => []LessThanASecondLate
BY Invariance, PTL DEF IInv, Clock

(* The counts of the invariant are those of the property.                  *)
LEMMA CountedExact == IInv => RefcountsExact
<1> SUFFICES ASSUME IInv, NEW p \in BagToSet(refs) \union {e.packet : e \in BagToSet(Pending)},
                    p # NoPacket
             PROVE  RefCount(p) = Cardinality(Carrying(p))
  BY DEF RefcountsExact
<1>1. Copies(p, refs) = Cardinality(Carriers(p, BagToSet(Pending)))
  BY BalancedAll DEF IInv, Counted
<1>2. QED
  BY <1>1 DEF Copies, RefCount, Carriers, Carrying

(***************************************************************************)
(* The reference count of every packet is the number of pending events     *)
(* that carry it: none is freed under an event, or left over               *)
(* (packet.c:36-51, sim.c:86-91, 162).                                     *)
(***************************************************************************)
THEOREM Refcounts == Spec => []RefcountsExact
BY Invariance, CountedExact, PTL

(***************************************************************************)
(* A data packet is passed on and never multiplied, however many nodes     *)
(* overhear it: of all pending events of one route test at most one is for *)
(* the node that is to forward it (node.c:241, 265, sim.c:79-91).          *)
(***************************************************************************)
THEOREM Unicast == Spec => []NeverMultiplied
BY Invariance, PTL DEF IInv

(***************************************************************************)
(* The lines Beacon of the trace are in the order of time, though the      *)
(* clock of events is not (sim.c:149-158, plotanim:21).                    *)
(***************************************************************************)
THEOREM TraceInOrder == Spec => BeaconsInOrder
<1>1. IInv /\ [Next]_vars => [traced' >= traced]_traced
  BY NextStep
<1>2. QED
  BY Invariance, <1>1, PTL DEF Spec, BeaconsInOrder

-----------------------------------------------------------------------------
(***************************************************************************)
(* The tables of the nodes. A node enters in its table what it has heard   *)
(* and what it has been told, and beacons carry tables to others: that     *)
(* every hop works both ways needs that no entry of any table and of any   *)
(* beacon under way says more than its node can know.                      *)
(***************************************************************************)

(* The place of an id in a list, 0 when it has none.                       *)
LEMMA PlaceOf ==
    ASSUME NEW S, NEW t \in Seq(S), NEW id
    PROVE  Slot(t, id) \in 0 .. Len(t)
<1> DEFINE I == {k \in 1 .. Len(t) : t[k].id = id}
<1>1. Slot(t, id) = IF I # {} THEN Min(I) ELSE 0
  BY DEF Slot, SelectInSeq
<1>2. Len(t) \in Nat
  OBVIOUS
<1>3. ASSUME I # {} PROVE Min(I) \in I
  <2>1. I \subseteq Nat
    OBVIOUS
  <2>2. \E m \in I : \A k \in I : m <= k
    <3> HIDE DEF I
    <3>1. QED
      BY <1>3, <2>1, LeastNat
  <2> HIDE DEF I
  <2>3. QED
    BY <2>2 DEF Min
<1>4. QED
  BY <1>1, <1>2, <1>3

(* neigh_table_insert puts nothing in a table but the new entry.           *)
LEMMA InsertedIn ==
    ASSUME NEW S, NEW t \in Seq(S), NEW new \in S
    PROVE  Inserted(t, new) \in Seq(S)
<1> DEFINE k == Slot(t, new.id)
<1>1. k \in 0 .. Len(t) /\ DOMAIN t = 1 .. Len(t)
  BY PlaceOf
<1>2. CASE k = 0
  <2>1. Inserted(t, new) = Append(t, new)
    BY <1>2 DEF Inserted
  <2>2. QED
    BY <2>1
<1>3. CASE k # 0
  <2>1. Inserted(t, new) \in {[t EXCEPT ![k] = new], t}
    BY <1>3 DEF Inserted
  <2> HIDE DEF k
  <2>2. [t EXCEPT ![k] = new] \in Seq(S)
    BY <1>1, <1>3
  <2>3. QED
    BY <2>1, <2>2
<1>4. QED
  BY <1>2, <1>3

(* The entries that a table of n may have: n hears those whose beacon it   *)
(* has had, and a neighbour hears n too.                                   *)
Known(n) ==
    {e \in [id : Node, stratum : {1, 2, 3, StratumInf}] :
        /\ e.stratum \in {1, StratumInf} => n \in Hearers(e.id)
        /\ e.stratum = 1 => e.id \in Hearers(n)}

(* What a beacon of s says of s.                                           *)
Self(s) == [id |-> s, stratum |-> 0]

(* What a beacon of s can say.                                             *)
Told(s) == {Self(s)} \union {e \in Known(s) : Advertised(e)}

(* The lists of a beacon of s: s itself comes first.                       *)
Lists(s) == {l \in Seq(Told(s)) : Len(l) >= 1 /\ l[1] = Self(s)}

(* One turn of the loop of node_beacon adds nothing else.                  *)
LEMMA ListingIn ==
    ASSUME NEW n, NEW list \in Lists(n), NEW e \in Known(n)
    PROVE  Listing(list, e) \in Lists(n)
<1>1. CASE Advertised(e)
  <2>1. e \in Told(n)
    BY <1>1 DEF Told
  <2>2. list \in Seq(Told(n)) /\ Len(list) >= 1 /\ list[1] = Self(n)
    BY DEF Lists
  <2>3. /\ Append(list, e) \in Seq(Told(n)) /\ Len(Append(list, e)) >= 1
        /\ Append(list, e)[1] = Self(n)
    BY <2>1, <2>2
  <2>4. Listing(list, e) \in {list, Append(list, e)}
    BY DEF Listing
  <2>5. QED
    BY <2>3, <2>4 DEF Lists
<1>2. CASE ~Advertised(e)
  BY <1>2 DEF Listing
<1>3. QED
  BY <1>1, <1>2

(* node_beacon tells only what its node knows.                             *)
LEMMA BeaconIn ==
    ASSUME NEW n, NEW t \in Seq(Known(n))
    PROVE  BeaconEntries(n, t) \in Lists(n)
<1> DEFINE start == <<[id |-> n, stratum |-> 0]>>
           turn == [k \in 1 .. Len(t) |-> [list \in Lists(n) |-> Listing(list, t[k])]]
           Is(f) == f = [k \in 0 .. Len(t) |-> IF k = 0 THEN start ELSE Listing(f[k - 1], t[k])]
<1>1. start \in Lists(n) /\ Len(t) \in Nat
  <2>1. Self(n) \in Told(n) /\ start = <<Self(n)>>
    BY DEF Told, Self
  <2> HIDE DEF start
  <2>2. start \in Seq(Told(n)) /\ Len(start) = 1 /\ start[1] = Self(n)
    BY <2>1
  <2>3. QED
    BY <2>2 DEF Lists
<1>2. turn \in Turns(Len(t), Lists(n))
  <2>1. ASSUME NEW k \in 1 .. Len(t), NEW list \in Lists(n)
        PROVE  Listing(list, t[k]) \in Lists(n)
    <3>1. t[k] \in Known(n)
      OBVIOUS
    <3>2. QED
      BY <3>1, ListingIn
  <2>2. QED
    BY <2>1 DEF Turns
<1> HIDE DEF start
<1>3. \E f : Is(f)
  <2>1. PICK f : RunOf(f, Len(t), Lists(n), start, turn)
    <3> HIDE DEF turn
    <3>1. QED
      BY <1>1, <1>2, LoopRuns
  <2>2. ASSUME NEW k \in 1 .. Len(t) PROVE turn[k][f[k - 1]] = Listing(f[k - 1], t[k])
    <3>1. f[k - 1] \in Lists(n)
      <4> HIDE DEF turn
      <4>1. k - 1 \in 0 .. Len(t)
        BY <1>1
      <4>2. QED
        BY <2>1, <4>1 DEF RunOf
    <3>2. QED
      BY <3>1
  <2>3. Is(f)
    <3> HIDE DEF turn
    <3>1. QED
      BY <2>1, <2>2 DEF RunOf
  <2> HIDE DEF Is
  <2>4. QED
    BY <2>3
<1>4. PICK g : g = (CHOOSE h : Is(h))
  OBVIOUS
<1>5. Is(g)
  BY <1>3, <1>4
<1>6. BeaconEntries(n, t) = g[Len(t)]
  BY <1>4 DEF BeaconEntries, start
<1> DEFINE S == {k \in 0 .. Len(t) : g[k] \in Lists(n)}
<1>7. 0 \in S
  BY <1>1, <1>5
<1>8. ASSUME NEW k \in 1 .. Len(t), k - 1 \in S PROVE k \in S
  <2>1. g[k - 1] \in Lists(n) /\ t[k] \in Known(n) /\ k \in 0 .. Len(t) /\ k # 0
    BY <1>1, <1>8
  <2>2. g[k] = Listing(g[k - 1], t[k])
    BY <1>5, <2>1
  <2>3. g[k] \in Lists(n)
    BY <2>1, <2>2, ListingIn
  <2>4. QED
    BY <2>1, <2>3
<1>9. 0 .. Len(t) \subseteq S
  <2> HIDE DEF S
  <2>1. QED
    BY <1>1, <1>7, <1>8, Upwards
<1>10. QED
  BY <1>1, <1>6, <1>9

(* What a hearer learns of a sender that hears it is true of it.           *)
LEMMA LearntIn ==
    ASSUME NEW n \in Node, NEW s \in Node, n \in Hearers(s), s \in Hearers(n),
           NEW e \in Told(s), NEW t \in Seq(Known(n))
    PROVE  Learnt(n, t, e) \in Seq(Known(n))
<1>1. CASE e.id = n \/ e.stratum = StratumInf
  BY <1>1 DEF Learnt
<1>2. CASE ~(e.id = n \/ e.stratum = StratumInf)
  <2> DEFINE new == [e EXCEPT !.stratum = @ + 1]
  <2>1. CASE e = Self(s)
    <3>1. new.id = s /\ new.stratum = 1 /\ new = [id |-> s, stratum |-> 1]
      BY <2>1 DEF Self
    <3>2. new \in [id : Node, stratum : {1, 2, 3, StratumInf}]
      BY <3>1
    <3> HIDE DEF new
    <3>3. new \in Known(n)
      BY <3>1, <3>2 DEF Known
    <3>4. Learnt(n, t, e) = Inserted(t, new)
      BY <1>2 DEF Learnt, new
    <3>5. QED
      BY <3>3, <3>4, InsertedIn
  <2>2. CASE e \in Known(s) /\ Advertised(e)
    <3>1. e \in [id : Node, stratum : {1, 2, 3, StratumInf}] /\ e.stratum \in {1, 2}
      BY <1>2, <2>2 DEF Known, Advertised, MaxStrat
    <3>2. /\ new \in [id : Node, stratum : {1, 2, 3, StratumInf}]
          /\ new.stratum \in {2, 3}
      BY <3>1
    <3> HIDE DEF new
    <3>3. new \in Known(n)
      BY <3>2 DEF Known, StratumInf
    <3>4. Learnt(n, t, e) = Inserted(t, new)
      BY <1>2 DEF Learnt, new
    <3>5. QED
      BY <3>3, <3>4, InsertedIn
  <2>3. QED
    BY <2>1, <2>2 DEF Told
<1>3. QED
  BY <1>1, <1>2

(* node_receive_beacon makes the table of one that hears s true again: an  *)
(* entry of its own in the beacon shows that s hears it.                   *)
LEMMA RecordedIn ==
    ASSUME NEW n \in Node, NEW s \in Node, n \in Hearers(s),
           NEW l \in Lists(s), NEW t \in Seq(Known(n))
    PROVE  Recorded(n, t, l) \in Seq(Known(n))
<1> DEFINE turn == [k \in 1 .. Len(l) |-> [u \in Seq(Known(n)) |-> Learnt(n, u, l[k])]]
           Is(f) == f = [k \in 0 .. Len(l) |-> IF k = 0 THEN t ELSE Learnt(n, f[k - 1], l[k])]
<1>1. /\ Len(l) \in Nat /\ Len(l) >= 1 /\ l[1] = Self(s) /\ DOMAIN l = 1 .. Len(l)
      /\ \A k \in 1 .. Len(l) : l[k] \in Told(s)
  BY DEF Lists
<1>2. CASE ~SeenSelf(n, l)
  <2> DEFINE new == HeardOnly(l)
  <2>1. new = [id |-> s, stratum |-> StratumInf]
    BY <1>1 DEF HeardOnly, Self
  <2>2. /\ new \in [id : Node, stratum : {1, 2, 3, StratumInf}]
        /\ new.id = s /\ new.stratum # 1
    BY <2>1 DEF StratumInf
  <2> HIDE DEF new
  <2>3. new \in Known(n)
    BY <2>2 DEF Known
  <2>4. Recorded(n, t, l) = Inserted(t, new)
    BY <1>2 DEF Recorded, new
  <2>5. QED
    BY <2>3, <2>4, InsertedIn
<1>3. CASE SeenSelf(n, l)
  <2>1. s \in Hearers(n)
    <3>1. PICK k \in 1 .. Len(l) : l[k].id = n /\ l[k].stratum \in {1, StratumInf}
      BY <1>1, <1>3 DEF SeenSelf
    <3>2. l[k] \in Known(s)
      BY <1>1, <3>1 DEF Told, Self, StratumInf
    <3>3. QED
      BY <3>1, <3>2 DEF Known
  <2>2. ASSUME NEW k \in 1 .. Len(l), NEW u \in Seq(Known(n))
        PROVE  Learnt(n, u, l[k]) \in Seq(Known(n))
    BY <1>1, <2>1, LearntIn
  <2>3. turn \in Turns(Len(l), Seq(Known(n)))
    BY <2>2 DEF Turns
  <2>4. \E f : Is(f)
    <3>1. PICK f : RunOf(f, Len(l), Seq(Known(n)), t, turn)
      <4> HIDE DEF turn
      <4>1. QED
        BY <1>1, <2>3, LoopRuns
    <3>2. ASSUME NEW k \in 1 .. Len(l) PROVE turn[k][f[k - 1]] = Learnt(n, f[k - 1], l[k])
      <4>1. f[k - 1] \in Seq(Known(n))
        <5> HIDE DEF turn
        <5>1. k - 1 \in 0 .. Len(l)
          BY <1>1
        <5>2. QED
          BY <3>1, <5>1 DEF RunOf
      <4>2. QED
        BY <4>1
    <3>3. Is(f)
      <4> HIDE DEF turn
      <4>1. QED
        BY <3>1, <3>2 DEF RunOf
    <3> HIDE DEF Is
    <3>4. QED
      BY <3>3
  <2>5. PICK g : g = (CHOOSE h : Is(h))
    OBVIOUS
  <2>6. Is(g)
    BY <2>4, <2>5
  <2>7. Recorded(n, t, l) = g[Len(l)]
    BY <1>3, <2>5 DEF Recorded
  <2> DEFINE S == {k \in 0 .. Len(l) : g[k] \in Seq(Known(n))}
  <2>8. 0 \in S
    BY <1>1, <2>6
  <2>9. ASSUME NEW k \in 1 .. Len(l), k - 1 \in S PROVE k \in S
    <3>1. g[k - 1] \in Seq(Known(n)) /\ k \in 0 .. Len(l) /\ k # 0
      BY <1>1, <2>9
    <3>2. g[k] = Learnt(n, g[k - 1], l[k])
      BY <2>6, <3>1
    <3>3. g[k] \in Seq(Known(n))
      BY <2>2, <3>1, <3>2
    <3>4. QED
      BY <3>1, <3>3
  <2>10. 0 .. Len(l) \subseteq S
    <3> HIDE DEF S
    <3>1. QED
      BY <1>1, <2>8, <2>9, Upwards
  <2>11. QED
    BY <1>1, <2>7, <2>10
<1>4. QED
  BY <1>2, <1>3

(* A pending event is for a node; a beacon is for one that hears its       *)
(* sender, and tells what that knows.                                      *)
Carried(e) ==
    /\ e.node \in Node
    /\ e.packet.content.type = "beacon" =>
          \E s \in Node : e.node \in Hearers(s) /\ e.packet.content.neigh \in Lists(s)

(* The nodes main makes are those of the topology: nobody else is heard.   *)
Mapped == topo.max_id = LastNode /\ LastNode \in Nat /\ \A n \in Node : Hearers(n) \subseteq Node

(* All tables and all beacons under way say only what their nodes know.    *)
Truthful ==
    /\ tester \in Node
    /\ DOMAIN table = Node
    /\ \A n \in Node : table[n] \in Seq(Known(n))
    /\ \A e \in BagToSet(Pending) : Carried(e)

(* The inductive invariant of the tables, with that of the file.           *)
Routes ==
    /\ FileRead
    /\ pc = "read" => tester = 0 /\ table = [n \in Node |-> <<>>]
    /\ pc # "read" => Mapped /\ Truthful

(* The number of the last node is the greatest in the file.                *)
LEMMA LastNodeIs ==
    ASSUME NEW m \in Nat, Greatest(m, LinksIn(File))
    PROVE  LastNode = m
<1> DEFINE ids == {0} \union {l[1] : l \in LinksIn(File)} \union {l[2] : l \in LinksIn(File)}
<1>1. m \in ids /\ ids \subseteq Nat /\ \A i \in ids : m >= i
  BY DEF Greatest
<1>2. LastNode = Max(ids)
  BY DEF LastNode
<1> HIDE DEF ids
<1>3. \A i \in ids : (\A j \in ids : i >= j) => i = m
  BY <1>1
<1>4. Max(ids) = m
  BY <1>1, <1>3 DEF Max
<1>5. QED
  BY <1>2, <1>4

(* So when the file has been read main makes all the nodes there are.      *)
LEMMA HearersInNode ==
    ASSUME Has(topo, EntriesIn(File), LinksIn(File))
    PROVE  Mapped
<1>1. /\ SoundTable(topo.table) /\ topo.max_id \in Nat
      /\ EntriesOf(topo.table) = Others(EntriesIn(File))
      /\ \A e \in EntriesIn(File) : <<e.src, e.dst>> \in LinksIn(File)
      /\ Greatest(topo.max_id, LinksIn(File))
  BY DEF Has
<1>2. topo.max_id = LastNode
  BY <1>1, LastNodeIs
<1>3. ASSUME NEW n \in Node, NEW m \in Hearers(n)
      PROVE  m \in Node
  <2>1. n \in Nat
    BY <1>1, <1>2 DEF Node
  <2>2. <<n, m>> \in LinksIn(File)
    <3>1. PICK e \in EntriesOf(topo.table) : e.src = n /\ e.dst = m
      BY <1>1, <2>1, HearersAre
    <3>2. QED
      BY <1>1, <3>1 DEF Others
  <2>3. m \in Nat /\ m <= topo.max_id
    BY <1>1, <2>2 DEF Greatest
  <2>4. QED
    BY <1>1, <1>2, <2>3 DEF Node
<1>4. QED
  BY <1>1, <1>2, <1>3 DEF Mapped

(* Before anything is read the tables are empty.                           *)
LEMMA InitRoutes == Init => Routes
<1> SUFFICES ASSUME Init PROVE Routes
  OBVIOUS
<1>1. pc = "read" /\ tester = 0 /\ table = [n \in Node |-> <<>>]
  BY DEF Init
<1>2. QED
  BY <1>1, FileInit DEF Routes

(* What nodes may know depends on the topology alone.                      *)
LEMMA SameTopo ==
    ASSUME topo' = topo
    PROVE  /\ \A n : Hearers(n)' = Hearers(n) /\ Known(n)' = Known(n) /\ Lists(n)' = Lists(n)
           /\ \A e : Carried(e)' <=> Carried(e)
           /\ Mapped' <=> Mapped
<1>1. \A n : Hearers(n)' = Hearers(n)
  BY DEF Hearers
<1>2. \A n : Known(n)' = Known(n)
  BY <1>1 DEF Known
<1>3. \A n : Lists(n)' = Lists(n)
  BY <1>2 DEF Lists, Told
<1>4. \A e : Carried(e)' <=> Carried(e)
  BY <1>1, <1>3 DEF Carried
<1>5. Mapped' <=> Mapped
  BY <1>1 DEF Mapped
<1>6. QED
  BY <1>1, <1>2, <1>3, <1>4, <1>5

(* What a handler leaves in the queue, as far as what it sends is true.    *)
LEMMA MovedCarried ==
    ASSUME Mapped, Truthful, NEW e, Carried(e), topo' = topo,
           NEW rest, NEW timers, NEW p, NEW events, Moved(e, rest, timers, p, events),
           \A x \in events : Carried(x)
    PROVE  \A x \in BagToSet(Pending)' : Carried(x)'
<1>1. /\ BagToSet(Pending)' = (rest \union timers) \union events
      /\ rest \subseteq BagToSet(Pending)
      /\ \A x \in timers : x.packet = NoPacket /\ x.node = e.node
  BY PendingNext DEF Moved
<1>2. \A x \in rest : Carried(x)
  BY <1>1 DEF Truthful
<1>3. \A x \in timers : Carried(x)
  BY <1>1 DEF Carried, NoPacket, Packet
<1>4. \A x \in BagToSet(Pending)' : Carried(x)
  BY <1>1, <1>2, <1>3
<1>5. QED
  BY <1>4, SameTopo

(* A data packet tells nothing about nodes.                                *)
LEMMA DataCarried ==
    ASSUME Mapped, NEW n \in Node, NEW x, x.node \in Hearers(n), IsData(x)
    PROVE  Carried(x)
BY DEF Mapped, Carried, IsData

(* A step that leaves the tables alone, and sends what is true.            *)
LEMMA SameTables ==
    ASSUME Truthful, topo' = topo, table' = table, tester' \in Node,
           \A x \in BagToSet(Pending)' : Carried(x)'
    PROVE  Truthful'
<1>1. \A n \in Node : table'[n] \in Seq(Known(n))'
  BY SameTopo DEF Truthful
<1>2. QED
  BY <1>1 DEF Truthful

(* A step that only takes events away.                                     *)
LEMMA FewerRoutes ==
    ASSUME Truthful, UNCHANGED <<topo, tester, table>>,
           BagToSet(Pending)' \subseteq BagToSet(Pending)
    PROVE  Truthful'
<1>1. \A x \in BagToSet(Pending)' : Carried(x)'
  BY SameTopo DEF Truthful
<1>2. QED
  BY <1>1, SameTables DEF Truthful

(* node_timer sends what its node knows.                                   *)
LEMMA TimerRoutes ==
    ASSUME IInv, Mapped, Truthful, NEW e \in Handled, Timer(e)
    PROVE  Truthful'
<1>1. PICK rest, timers, p, events :
          /\ Moved(e, rest, timers, p, events)
          /\ p.content = Beacon(status'[e.node], BeaconEntries(e.node, table[e.node]))
  BY TimerEffect DEF IInv
<1>2. UNCHANGED <<topo, tester, table>>
  BY Zenon DEF Timer
<1>3. Carried(e) /\ e.node \in Node
  BY LeftFacts DEF IInv, Truthful, Carried
<1>4. BeaconEntries(e.node, table[e.node]) \in Lists(e.node)
  BY <1>3, BeaconIn DEF Truthful
<1>5. ASSUME NEW x \in events PROVE Carried(x)
  <2>1. x.packet = p /\ x.node \in Hearers(e.node)
    BY <1>1 DEF Moved
  <2>2. x.packet.content.neigh \in Lists(e.node)
    BY <1>1, <1>4, <2>1 DEF Beacon
  <2>3. QED
    BY <1>3, <2>1, <2>2 DEF Carried, Mapped
<1>6. \A x \in BagToSet(Pending)' : Carried(x)'
  BY <1>1, <1>2, <1>3, <1>5, MovedCarried
<1>7. QED
  BY <1>2, <1>6, SameTables DEF Truthful

(* node_receive_beacon enters what its node may know.                      *)
LEMMA BeaconRoutes ==
    ASSUME IInv, Mapped, Truthful, NEW e \in Handled, ReceiveBeacon(e)
    PROVE  Truthful'
<1> DEFINE n == e.node
           neigh == e.packet.content.neigh
<1>1. PICK rest, timers : Moved(e, rest, timers, NoPacket, {})
  BY BeaconEffect DEF IInv
<1>2. /\ UNCHANGED <<topo, tester>> /\ e.packet.content.type = "beacon"
      /\ table' = [table EXCEPT ![n] =
                      IF Ignored(status[n], e.packet.content.status) THEN @
                      ELSE Recorded(n, @, neigh)]
  BY Zenon DEF ReceiveBeacon
<1>3. Carried(e) /\ n \in Node
  BY LeftFacts DEF IInv, Truthful, Carried
<1>4. PICK s \in Node : n \in Hearers(s) /\ neigh \in Lists(s)
  BY <1>2, <1>3 DEF Carried
<1> HIDE DEF n, neigh
<1>5. table[n] \in Seq(Known(n)) /\ Recorded(n, table[n], neigh) \in Seq(Known(n))
  BY <1>3, <1>4, RecordedIn DEF Truthful
<1>6. DOMAIN table' = Node /\ \A m \in Node : table'[m] \in Seq(Known(m))
  BY <1>2, <1>3, <1>5 DEF Truthful
<1>7. \A m \in Node : table'[m] \in Seq(Known(m))'
  BY <1>2, <1>6, SameTopo
<1>8. \A x \in BagToSet(Pending)' : Carried(x)'
  BY <1>1, <1>2, <1>3, MovedCarried
<1>9. QED
  BY <1>2, <1>6, <1>7, <1>8 DEF Truthful

(* node_receive_data tells nothing about nodes.                            *)
LEMMA DataRoutes ==
    ASSUME IInv, Mapped, Truthful, NEW e \in Handled, ReceiveData(e)
    PROVE  Truthful'
<1>1. PICK rest, p, events :
          /\ Moved(e, rest, {}, p, events)
          /\ \/ events = {}
             \/ /\ Forwards(e.node, e.packet.content)
                /\ \E hop : p.content = [e.packet.content EXCEPT !.hop = hop]
  BY DataEffect DEF IInv
<1>2. UNCHANGED <<topo, tester, table>> /\ IsData(e)
  BY Zenon DEF ReceiveData, IsData
<1>3. Carried(e) /\ e.node \in Node
  BY LeftFacts DEF IInv, Truthful, Carried
<1>4. ASSUME NEW x \in events PROVE Carried(x)
  <2>1. x.packet = p /\ x.node \in Hearers(e.node)
    BY <1>1 DEF Moved
  <2>2. PICK hop : p.content = [e.packet.content EXCEPT !.hop = hop]
    BY <1>1
  <2> DEFINE data == e.packet.content
  <2>3. data = Data(data.src, data.vtime, data.hop)
    BY <1>2, LeftFacts DEF IInv, Tested
  <2>4. IsData(x)
    BY <2>1, <2>2, <2>3 DEF Data, IsData
  <2>5. QED
    BY <1>3, <2>1, <2>4, DataCarried
<1>5. \A x \in BagToSet(Pending)' : Carried(x)'
  BY <1>1, <1>2, <1>3, <1>4, MovedCarried
<1>6. QED
  BY <1>2, <1>5, SameTables DEF Truthful

(* Nor does node_route_test.                                               *)
LEMMA TestRoutes ==
    ASSUME IInv, Mapped, Truthful, RouteTest
    PROVE  Truthful'
<1>1. PICK p, events :
          /\ BagToSet(queue') = BagToSet(queue) \union events
          /\ \A x \in events : x.packet = p /\ x.node \in Hearers(tester)
          /\ \E hop : p.content = Data(tester, tick, hop)
  BY TestEffect
<1>2. /\ pc = "test" /\ UNCHANGED <<topo, table, current>>
      /\ tester' = (IF tester = LastNode THEN 0 ELSE tester + 1)
      /\ pc' \in {"test", "dispatch"}
  BY Zenon DEF RouteTest
<1>3. BagToSet(Pending)' = BagToSet(Pending) \union events
  BY <1>1, <1>2, PendingIs, PendingNext DEF Busy
<1>4. ASSUME NEW x \in events PROVE Carried(x)
  <2>1. IsData(x) /\ x.node \in Hearers(tester)
    BY <1>1 DEF IsData, Data
  <2>2. tester \in Node
    BY DEF Truthful
  <2>3. QED
    BY <2>1, <2>2, DataCarried
<1>5. \A x \in BagToSet(Pending)' : Carried(x)'
  BY <1>2, <1>3, <1>4, SameTopo DEF Truthful
<1>6. tester' \in Node
  BY <1>2 DEF Truthful, Mapped, Node
<1>7. QED
  BY <1>2, <1>5, <1>6, SameTables

(* The start makes the nodes of the topology, with empty tables.           *)
LEMMA StartRoutes ==
    ASSUME IInv, Routes, Start
    PROVE  Mapped' /\ Truthful'
<1>1. /\ pc = "read" /\ pc' = "loop" /\ read = File /\ UNCHANGED <<topo, tester, table>>
      /\ tester = 0 /\ table = [n \in Node |-> <<>>]
  BY DEF Start, Routes
<1>2. Mapped
  BY <1>1, HearersInNode DEF Routes, FileRead, Has
<1>3. PICK delay \in [Node -> TimerDelay] :
          queue' = BagUnion({TimerEvent(n, IF status'[n] = "ROOT" THEN 0 ELSE delay[n]) :
                                n \in {m \in Node : status'[m] # "ASLEEP"}})
  BY DEF Start
<1>4. ASSUME NEW x \in BagToSet(queue') PROVE Carried(x)
  <2>1. PICK n \in Node :
            x \in BagToSet(TimerEvent(n, IF status'[n] = "ROOT" THEN 0 ELSE delay[n]))
    BY <1>3 DEF BagUnion, BagToSet
  <2> DEFINE v == IF status'[n] = "ROOT" THEN 0 ELSE delay[n]
  <2>2. v \in Nat /\ args \in Args
    BY NumbersKnown DEF IInv, Numbers
  <2> HIDE DEF v
  <2>3. x \in BagToSet(TimerEvent(n, v))
    BY <2>1 DEF v
  <2>4. x = Event(v, n, NoPacket)
    BY <2>2, <2>3, TimerHolds
  <2>5. QED
    BY <2>4 DEF Event, Carried, NoPacket, Packet
<1>5. \A x \in BagToSet(Pending)' : Carried(x)'
  BY <1>1, <1>4, PendingNext, SameTopo
<1>6. tester' \in Node /\ DOMAIN table' = Node
  BY <1>1, <1>2 DEF Mapped, Node
<1>7. \A n \in Node : table'[n] \in Seq(Known(n))'
  BY <1>1
<1>8. QED
  BY <1>1, <1>2, <1>5, <1>6, <1>7, SameTopo DEF Truthful

(* Every step keeps the tables true.                                       *)
LEMMA RoutesStep == IInv /\ Routes /\ [Next]_vars => Routes'
<1> SUFFICES ASSUME IInv, Routes, [Next]_vars PROVE Routes'
  OBVIOUS
<1>1. FileRead'
  BY FileStep DEF Routes
<1>2. CASE ReadLine
  <2>1. pc = "read" /\ pc' = "read" /\ UNCHANGED <<tester, table>>
    BY <1>2 DEF ReadLine
  <2>2. QED
    BY <1>1, <2>1 DEF Routes
<1>3. CASE Start
  <2>1. pc' # "read"
    BY <1>3 DEF Start
  <2>2. QED
    BY <1>1, <1>3, <2>1, StartRoutes DEF Routes
<1>4. CASE Stopped \/ UNCHANGED vars
  <2>1. UNCHANGED <<pc, topo, tester, table, queue, current>>
    BY <1>4 DEF Stopped, vars
  <2>2. BagToSet(Pending)' = BagToSet(Pending)
    BY <2>1 DEF Pending, BagToSet
  <2>3. QED
    BY <1>1, <2>1, <2>2, FewerRoutes, SameTopo DEF Routes
<1>5. CASE TickDue \/ Finish
  <2>1. /\ pc = "loop" /\ pc' \in {"test", "done"} /\ UNCHANGED <<topo, tester, table>>
        /\ BagToSet(queue') \subseteq BagToSet(queue)
        /\ pc' = "test" => current' \in BagToSet(queue)
    BY <1>5, RestHolds DEF TickDue, Finish, Earliest
  <2>2. BagToSet(Pending)' \subseteq BagToSet(Pending)
    BY <2>1, PendingIs, PendingNext DEF Busy
  <2>3. QED
    BY <1>1, <2>1, <2>2, FewerRoutes, SameTopo DEF Routes
<1>6. CASE RouteTest
  <2>1. pc = "test" /\ pc' # "read" /\ topo' = topo
    <3>1. pc = "test" /\ pc' \in {"test", "dispatch"} /\ topo' = topo
      BY <1>6, Zenon DEF RouteTest
    <3>2. QED
      BY <3>1
  <2>2. QED
    BY <1>1, <1>6, <2>1, TestRoutes, SameTopo DEF Routes
<1>7. ASSUME NEW e \in Handled, Timer(e) \/ ReceiveBeacon(e) \/ ReceiveData(e)
      PROVE  Routes'
  <2>1. pc' = "loop" /\ topo' = topo
    BY <1>7, Zenon DEF Timer, ReceiveBeacon, ReceiveData
  <2>2. pc # "read"
    BY DEF Handled
  <2>3. Truthful'
    BY <1>7, <2>2, TimerRoutes, BeaconRoutes, DataRoutes DEF Routes
  <2>4. QED
    BY <1>1, <2>1, <2>2, <2>3, SameTopo DEF Routes
<1>8. QED
  BY <1>2, <1>3, <1>4, <1>5, <1>6, <1>7 DEF Next

(***************************************************************************)
(* Every reachable state satisfies the inductive invariant of the tables.  *)
(***************************************************************************)
THEOREM RoutesInvariance == Spec => []Routes
BY Invariance, InitRoutes, RoutesStep, PTL DEF Spec

(* Routes only lead over entries of stratum 1.                             *)
LEMMA TruthfulBothWays == Routes => RoutesBothWays
<1> SUFFICES ASSUME Routes, NEW n \in Node, NEW hop \in Hops(n) \ {Nobody}, pc # "read"
             PROVE  hop \in Hearers(n) /\ n \in Hearers(hop)
  BY DEF RoutesBothWays
<1>1. table[n] \in Seq(Known(n))
  BY DEF Routes, Truthful
<1>2. PICK k \in DOMAIN table[n] : table[n][k].id = hop /\ table[n][k].stratum <= 1
  BY DEF Hops, Routed
<1>3. table[n][k] \in Known(n)
  BY <1>1, <1>2
<1>4. table[n][k].stratum = 1
  BY <1>2, <1>3 DEF Known, StratumInf
<1>5. QED
  BY <1>2, <1>3, <1>4 DEF Known

(***************************************************************************)
(* A hop is always a link that works both ways, also when links are one    *)
(* way, beacons have no room for all neighbours and entries are never      *)
(* forgotten: a node routes only over those whose beacons have told it     *)
(* that they hear it (node.c:90, 190).                                     *)
(***************************************************************************)
THEOREM BothWays == Spec => []RoutesBothWays
BY RoutesInvariance, TruthfulBothWays, PTL
=============================================================================
