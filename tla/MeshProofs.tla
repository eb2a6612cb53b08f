----------------------------- MODULE MeshProofs -----------------------------
(***************************************************************************)
(* Proofs about Mesh, for every network, with or without loss, and for     *)
(* every size of the tables and beacons.  The first part is about the      *)
(* operators on tables and beacons, the second about the invariant, the    *)
(* third shows that Mesh implements Neighbours, and takes over what is     *)
(* proved about it there.                                                  *)
(***************************************************************************)
EXTENDS Mesh, FiniteSetTheorems, TLAPS

-----------------------------------------------------------------------------
(***************************************************************************)
(* Numbers and loops.  A least counterexample takes the place of an        *)
(* induction.                                                              *)
(***************************************************************************)

(* Some well-founded relation has all that is less.                        *)
LEMMA LessIsWellFounded ==
    \E R : /\ IsWellFoundedOn(R, Nat)
           /\ \A x, y \in Nat : x < y => <<x, y>> \in R
<1> DEFINE R == OpToRel(<, Nat)
<1>1. IsWellFoundedOn(R, Nat)
  BY NatLessThanWellFounded
<1>2. \A x, y \in Nat : x < y => <<x, y>> \in R
  BY Zenon DEF OpToRel
<1> QED
  BY <1>1, <1>2, Zenon

(* A set of numbers has a minimal element under such a relation.           *)
LEMMA MinimalElement ==
    ASSUME NEW R, IsWellFoundedOn(R, Nat), NEW S, S \subseteq Nat, S # {}
    PROVE  \E m \in S : \A n \in S : ~ (<<n, m>> \in R)
BY WFMin, Zenon

(* Every non-empty set of natural numbers has a least element.             *)
LEMMA LeastNat ==
    ASSUME NEW S, S \subseteq Nat, S # {}
    PROVE  \E m \in S : \A n \in S : m <= n
<1>1. PICK R : /\ IsWellFoundedOn(R, Nat)
               /\ \A x, y \in Nat : x < y => <<x, y>> \in R
  BY LessIsWellFounded
<1>2. PICK m \in S : \A n \in S : ~ (<<n, m>> \in R)
  BY <1>1, MinimalElement, Zenon
<1>3. \A x, y \in Nat : x < y => <<x, y>> \in R
  BY <1>1
<1>4. \A n \in S : ~ (n < m)
  BY <1>2, <1>3, Zenon
<1> QED
  BY <1>2, <1>4, SMT

(***************************************************************************)
(* Induction up to n, for the set of numbers that have the property.       *)
(***************************************************************************)
LEMMA Upwards ==
    ASSUME NEW n \in Nat, NEW S, 0 \in S, \A k \in 1 .. n : k - 1 \in S => k \in S
    PROVE  0 .. n \subseteq S
<1> DEFINE Fails == {m \in 0 .. n : m \notin S}
<1> SUFFICES ASSUME Fails # {} PROVE FALSE
  OBVIOUS
<1>1. PICK m \in Fails : \A k \in Fails : m <= k
  <2>1. Fails \subseteq Nat
    OBVIOUS
  <2> HIDE DEF Fails
  <2>2. QED
    BY <2>1, LeastNat
<1>2. m \in 1 .. n /\ m - 1 \in 0 .. n /\ ~(m <= m - 1) /\ m \notin S
  OBVIOUS
<1>3. m - 1 \notin Fails
  BY <1>1, <1>2
<1>4. QED
  BY <1>2, <1>3

(***************************************************************************)
(* A loop makes turns 1 .. n, each of which makes one result of another;   *)
(* f holds the results after each.                                         *)
(***************************************************************************)
Turns(n, Result) == [1 .. n -> [Result -> Result]]

RunOf(f, n, Result, start, turn) ==
    /\ f \in [0 .. n -> Result]
    /\ f[0] = start
    /\ \A k \in 1 .. n : f[k] = turn[k][f[k - 1]]

(***************************************************************************)
(* Every loop has results: the recursive function that stands for it       *)
(* exists.                                                                 *)
(***************************************************************************)
LEMMA LoopRuns ==
    ASSUME NEW Result, NEW start \in Result, NEW n \in Nat, NEW turn \in Turns(n, Result)
    PROVE  \E f : RunOf(f, n, Result, start, turn)
<1> DEFINE Holds(m) == \E f : RunOf(f, m, Result, start, turn)
<1>1. Holds(0)
  <2>1. [k \in 0 .. 0 |-> start] \in [0 .. 0 -> Result]
    OBVIOUS
  <2>2. [k \in 0 .. 0 |-> start][0] = start /\ 1 .. 0 = {}
    OBVIOUS
  <2>3. QED
    BY <2>1, <2>2 DEF RunOf
<1>2. ASSUME NEW m \in 1 .. n, Holds(m - 1)
      PROVE  Holds(m)
  <2>1. PICK f : RunOf(f, m - 1, Result, start, turn)
    BY <1>2
  <2> DEFINE g == [k \in 0 .. m |-> IF k = m THEN turn[m][f[m - 1]] ELSE f[k]]
  <2>2. f \in [0 .. m - 1 -> Result] /\ turn[m] \in [Result -> Result]
    BY <2>1 DEF RunOf, Turns
  <2>3. g \in [0 .. m -> Result]
    BY <2>2
  <2>4. g[0] = start
    BY <2>1 DEF RunOf
  <2>5. ASSUME NEW k \in 1 .. m PROVE g[k] = turn[k][g[k - 1]]
    <3>1. g[k - 1] = f[k - 1]
      OBVIOUS
    <3>2. CASE k = m
      <4>1. m \in 0 .. m /\ g[m] = turn[m][f[m - 1]]
        OBVIOUS
      <4> HIDE DEF g
      <4>2. QED
        BY <3>1, <3>2, <4>1
    <3>3. CASE k # m
      <4>1. k \in 1 .. m - 1 /\ g[k] = f[k]
        BY <3>3
      <4>2. QED
        BY <2>1, <3>1, <4>1 DEF RunOf
    <3>4. QED
      BY <3>2, <3>3
  <2> HIDE DEF g
  <2>6. QED
    BY <2>3, <2>4, <2>5 DEF RunOf
<1> DEFINE S == {m \in 0 .. n : Holds(m)}
<1>3. 0 \in S
  BY <1>1
<1>4. \A m \in 1 .. n : m - 1 \in S => m \in S
  <2> HIDE DEF Holds
  <2>1. QED
    BY <1>2
<1>5. 0 .. n \subseteq S
  <2> HIDE DEF S
  <2>1. QED
    BY <1>3, <1>4, Upwards
<1>6. QED
  BY <1>5

-----------------------------------------------------------------------------
(* What the strata that are not counted are written as.                   *)
LEMMA Strata == StratumInf = 10 /\ Abstract!Inf = 10 /\ Abstract!Unknown = 0
BY DEF StratumInf, Abstract!Inf, Abstract!Unknown

(* The place of an id in a list.                                           *)
LEMMA SlotOf ==
    ASSUME NEW t, t \in Seq(Item), NEW id
    PROVE  /\ Slot(t, id) \in 0 .. Len(t)
           /\ Slot(t, id) # 0 => t[Slot(t, id)].id = id
           /\ Slot(t, id) = 0 => \A k \in 1 .. Len(t) : t[k].id # id
<1> DEFINE I == {k \in 1 .. Len(t) : t[k].id = id}
<1>1. Slot(t, id) = IF I # {} THEN Min(I) ELSE 0
  BY DEF Slot, SelectInSeq
<1>2. Len(t) \in Nat
  OBVIOUS
<1>3. ASSUME I # {} PROVE Min(I) \in I
  <2>1. I \subseteq Nat
    OBVIOUS
  <2>2. \E m \in I : \A k \in I : m <= k
    <3> HIDE DEF I
    <3>1. QED
      BY <1>3, <2>1, LeastNat
  <2> HIDE DEF I
  <2>3. QED
    BY <2>2 DEF Min
<1>4. QED
  BY <1>1, <1>2, <1>3

(* A node's place in a list that has it once is where it stands.          *)
LEMMA OnlySlot ==
    ASSUME NEW t, t \in Seq(Item), ListsOnce(t), NEW k \in 1 .. Len(t)
    PROVE  Slot(t, t[k].id) = k
<1>1. DOMAIN t = 1 .. Len(t) /\ Len(t) \in Nat
  OBVIOUS
<1>2. Slot(t, t[k].id) \in 1 .. Len(t) /\ t[Slot(t, t[k].id)].id = t[k].id
  BY <1>1, SlotOf
<1>3. QED
  BY <1>1, <1>2 DEF ListsOnce

(* What a list says of an id, 0 when it says nothing.                      *)
StratumOf(t, id) == IF Slot(t, id) = 0 THEN 0 ELSE t[Slot(t, id)].stratum

(* A table of n's: it lists a node once, and never n.                      *)
TableFor(n, t) ==
    /\ t \in Seq(Entry) /\ ListsOnce(t)
    /\ \A k \in 1 .. Len(t) : t[k].id # n

(* Table u is t after insertions: nodes keep their places.                 *)
Follows(u, t) == \A id \in Node : Slot(t, id) # 0 => Slot(u, id) = Slot(t, id)

(* What is in a table can be in a beacon.                                 *)
LEMMA EntryIsItem ==
    /\ Entry \subseteq Item
    /\ Seq(Entry) \subseteq Seq(Item)
<1>1. Entry \subseteq Item
  BY DEF Entry, Item
<1>2. QED
  BY <1>1

(* Two lists that have the same ids in the same places.                    *)
LEMMA SameSlots ==
    ASSUME NEW t, t \in Seq(Item), ListsOnce(t), NEW u, u \in Seq(Item), ListsOnce(u),
           Len(t) <= Len(u), \A k \in 1 .. Len(t) : u[k].id = t[k].id,
           NEW id, Slot(t, id) # 0
    PROVE  Slot(u, id) = Slot(t, id)
<1>1. Slot(t, id) \in 1 .. Len(t) /\ t[Slot(t, id)].id = id
  BY SlotOf
<1>2. Slot(t, id) \in 1 .. Len(u) /\ u[Slot(t, id)].id = id
  BY <1>1
<1>3. QED
  BY <1>2, OnlySlot

(* neigh_table_insert: nodes keep their places, and the stratum of the    *)
(* one inserted becomes what Neighbours makes of the two.                 *)
LEMMA InsertedFacts ==
    ASSUME NEW n \in Node, NEW t, TableFor(n, t), NEW new \in Entry, new.id # n
    PROVE  LET u == Inserted(t, new)
           IN  /\ TableFor(n, u) /\ Follows(u, t)
               /\ \A id \in Node :
                     StratumOf(u, id) = IF id = new.id
                                        THEN Abstract!Merge(StratumOf(t, id), new.stratum)
                                        ELSE StratumOf(t, id)
<1> DEFINE k == Slot(t, new.id)
           u == Inserted(t, new)
<1>1. /\ t \in Seq(Item) /\ t \in Seq(Entry) /\ ListsOnce(t) /\ Len(t) \in Nat
      /\ DOMAIN t = 1 .. Len(t)
  BY EntryIsItem DEF TableFor
<1>2. k \in 0 .. Len(t)
  BY <1>1, SlotOf
<1>3. CASE k = 0
  <2>1. u = Append(t, new) /\ \A j \in 1 .. Len(t) : t[j].id # new.id
    BY <1>1, <1>3, SlotOf DEF Inserted
  <2>2. /\ u \in Seq(Entry) /\ Len(u) = Len(t) + 1 /\ u[Len(t) + 1] = new
        /\ \A j \in 1 .. Len(t) : u[j] = t[j]
    BY <1>1, <2>1
  <2> HIDE DEF u, k
  <2>3. ListsOnce(u)
    BY <1>1, <2>1, <2>2 DEF ListsOnce
  <2>4. TableFor(n, u)
    BY <1>1, <2>2, <2>3 DEF TableFor
  <2>5. u \in Seq(Item)
    BY <2>2, EntryIsItem
  <2>6. Slot(u, new.id) = Len(t) + 1
    BY <1>1, <2>2, <2>3, <2>5, OnlySlot
  <2>7. Follows(u, t)
    BY <1>1, <2>2, <2>3, <2>5, SameSlots DEF Follows
  <2>8. ASSUME NEW id \in Node
        PROVE  StratumOf(u, id) = IF id = new.id
                                  THEN Abstract!Merge(StratumOf(t, id), new.stratum)
                                  ELSE StratumOf(t, id)
    <3>1. CASE id = new.id
      BY <1>1, <1>3, <2>2, <2>6, <3>1, Strata DEF StratumOf, Abstract!Merge, k
    <3>2. CASE id # new.id /\ Slot(t, id) = 0
      <4>1. \A j \in 1 .. Len(t) : t[j].id # id
        BY <1>1, <3>2, SlotOf
      <4>2. \A j \in 1 .. Len(u) : u[j].id # id
        BY <1>1, <2>2, <3>2, <4>1
      <4>3. Slot(u, id) = 0
        BY <2>5, <4>2, SlotOf
      <4>4. QED
        BY <3>2, <4>3 DEF StratumOf
    <3>3. CASE id # new.id /\ Slot(t, id) # 0
      <4>1. Slot(u, id) = Slot(t, id) /\ Slot(t, id) \in 1 .. Len(t)
        BY <1>1, <2>7, <3>3, SlotOf DEF Follows
      <4>2. QED
        BY <2>2, <3>3, <4>1 DEF StratumOf
    <3>4. QED
      BY <3>1, <3>2, <3>3
  <2>9. QED
    BY <2>4, <2>7, <2>8 DEF u
<1>4. CASE k # 0 /\ Replaces(new, t[k])
  <2>1. u = [t EXCEPT ![k] = new] /\ k \in 1 .. Len(t) /\ t[k].id = new.id
    BY <1>1, <1>2, <1>4, SlotOf DEF Inserted
  <2>2. /\ u \in Seq(Entry) /\ Len(u) = Len(t) /\ u[k] = new
        /\ \A j \in 1 .. Len(t) : u[j].id = t[j].id /\ (j # k => u[j] = t[j])
    BY <1>1, <2>1
  <2>3. t[k] \in Entry
    BY <1>1, <2>1
  <2> HIDE DEF u, k
  <2>4. ListsOnce(u)
    BY <1>1, <2>2 DEF ListsOnce
  <2>5. TableFor(n, u)
    BY <1>1, <2>2, <2>4 DEF TableFor
  <2>6. u \in Seq(Item)
    BY <2>2, EntryIsItem
  <2>7. Follows(u, t)
    BY <1>1, <2>2, <2>4, <2>6, SameSlots DEF Follows
  <2>8. ASSUME NEW id \in Node
        PROVE  StratumOf(u, id) = IF id = new.id
                                  THEN Abstract!Merge(StratumOf(t, id), new.stratum)
                                  ELSE StratumOf(t, id)
    <3>1. CASE id = new.id
      <4>1. Slot(u, id) = k /\ Slot(t, id) = k
        BY <1>4, <2>7, <3>1 DEF Follows, k
      <4>2. StratumOf(u, id) = new.stratum /\ StratumOf(t, id) = t[k].stratum
        BY <1>4, <2>2, <4>1 DEF StratumOf
      <4>3. Abstract!Merge(t[k].stratum, new.stratum) = new.stratum
        BY <1>4, <2>3, Strata DEF Abstract!Merge, Replaces
      <4>4. QED
        BY <3>1, <4>2, <4>3
    <3>2. CASE id # new.id /\ Slot(t, id) = 0
      <4>1. \A j \in 1 .. Len(u) : u[j].id # id
        BY <1>1, <2>2, <3>2, SlotOf
      <4>2. Slot(u, id) = 0
        BY <2>6, <4>1, SlotOf
      <4>3. QED
        BY <3>2, <4>2 DEF StratumOf
    <3>3. CASE id # new.id /\ Slot(t, id) # 0
      <4>1. Slot(u, id) = Slot(t, id) /\ Slot(t, id) \in 1 .. Len(t) /\ t[Slot(t, id)].id = id
        BY <1>1, <2>7, <3>3, SlotOf DEF Follows
      <4>2. Slot(t, id) # k
        BY <2>1, <3>3, <4>1
      <4>3. QED
        BY <2>2, <3>3, <4>1, <4>2 DEF StratumOf
    <3>4. QED
      BY <3>1, <3>2, <3>3
  <2>9. QED
    BY <2>5, <2>7, <2>8 DEF u
<1>5. CASE k # 0 /\ ~Replaces(new, t[k])
  <2>1. u = t
    BY <1>5 DEF Inserted
  <2>2. TableFor(n, u) /\ Follows(u, t)
    BY <2>1 DEF Follows
  <2>3. t[k] \in Entry
    BY <1>1, <1>2, <1>5
  <2>4. Abstract!Merge(StratumOf(t, new.id), new.stratum) = StratumOf(t, new.id)
    <3>1. StratumOf(t, new.id) = t[k].stratum
      BY <1>5 DEF StratumOf
    <3>2. Abstract!Merge(t[k].stratum, new.stratum) = t[k].stratum
      BY <1>5, <2>3, Strata DEF Abstract!Merge, Replaces, Entry
    <3>3. QED
      BY <3>1, <3>2
  <2> HIDE DEF u, k
  <2>5. QED
    BY <2>1, <2>2, <2>4 DEF u
<1>6. QED
  BY <1>3, <1>4, <1>5

(* One turn of node_beacon's loop makes a list of a list.                 *)
LEMMA ListingType ==
    ASSUME NEW list \in Seq(Item), NEW e \in Item
    PROVE  Listing(list, e) \in Seq(Item)
BY DEF Listing

(* The entries of a beacon are those that the last turn of the loop       *)
(* leaves.                                                                *)
LEMMA BeaconLoop ==
    ASSUME NEW n \in Node, NEW t \in Seq(Entry)
    PROVE  \E list \in [0 .. Len(t) -> Seq(Item)] :
              /\ list[0] = <<[id |-> n, stratum |-> 0]>>
              /\ \A k \in 1 .. Len(t) : list[k] = Listing(list[k - 1], t[k])
              /\ BeaconEntries(n, t) = list[Len(t)]
<1> DEFINE start == <<[id |-> n, stratum |-> 0]>>
           turn == [k \in 1 .. Len(t) |-> [list \in Seq(Item) |-> Listing(list, t[k])]]
           Is(f) == f = [k \in 0 .. Len(t) |-> IF k = 0 THEN start ELSE Listing(f[k - 1], t[k])]
<1>1. start \in Seq(Item) /\ Len(t) \in Nat
  BY DEF Item
<1>2. turn \in [1 .. Len(t) -> [Seq(Item) -> Seq(Item)]]
  <2>1. ASSUME NEW k \in 1 .. Len(t), NEW list \in Seq(Item) PROVE Listing(list, t[k]) \in Seq(Item)
    BY ListingType, EntryIsItem
  <2>2. QED
    BY <2>1
<1>3. \E f : Is(f)
  <2>1. PICK f : RunOf(f, Len(t), Seq(Item), start, turn)
    <3>1. turn \in Turns(Len(t), Seq(Item))
      BY <1>2 DEF Turns
    <3> HIDE DEF start, turn
    <3>2. QED
      BY <1>1, <3>1, LoopRuns
  <2>2. ASSUME NEW k \in 1 .. Len(t) PROVE turn[k][f[k - 1]] = Listing(f[k - 1], t[k])
    <3>1. f[k - 1] \in Seq(Item)
      <4> HIDE DEF start, turn
      <4>1. k - 1 \in 0 .. Len(t)
        BY <1>1
      <4>2. QED
        BY <2>1, <4>1 DEF RunOf
    <3>2. QED
      BY <3>1
  <2>3. Is(f)
    <3> HIDE DEF turn, start
    <3>1. QED
      BY <2>1, <2>2 DEF RunOf
  <2> HIDE DEF Is
  <2>4. QED
    BY <2>3
<1>4. PICK g : g = (CHOOSE h : Is(h))
  OBVIOUS
<1>5. Is(g)
  BY <1>3, <1>4
<1>6. /\ g[0] = start
      /\ \A k \in 1 .. Len(t) : g[k] = Listing(g[k - 1], t[k])
      /\ DOMAIN g = 0 .. Len(t)
  <2> HIDE DEF start
  <2>1. QED
    BY <1>1, <1>5
<1>7. BeaconEntries(n, t) = g[Len(t)]
  BY <1>4 DEF BeaconEntries
<1>8. g \in [0 .. Len(t) -> Seq(Item)]
  <2> DEFINE S == {k \in 0 .. Len(t) : g[k] \in Seq(Item)}
  <2>1. 0 \in S
    <3>1. g[0] \in Seq(Item) /\ 0 \in 0 .. Len(t)
      BY <1>1, <1>6
    <3>2. QED
      BY <3>1
  <2>2. ASSUME NEW k \in 1 .. Len(t), k - 1 \in S PROVE k \in S
    <3>1. g[k - 1] \in Seq(Item) /\ t[k] \in Item /\ k \in 0 .. Len(t)
      BY <1>1, <2>2, EntryIsItem
    <3>2. g[k] \in Seq(Item)
      <4> HIDE DEF start, S
      <4>1. QED
        BY <1>6, <3>1, ListingType
    <3>3. QED
      BY <3>1, <3>2
  <2>3. 0 .. Len(t) \subseteq S
    <3> HIDE DEF S
    <3>1. QED
      BY <1>1, <2>1, <2>2, Upwards
  <2>4. QED
    BY <1>5, <2>3
<1>9. QED
  BY <1>6, <1>7, <1>8

(* The list l of a beacon when the first m entries of n's table t have had *)
(* their turn.                                                             *)
ListFor(n, t, l, m) ==
    /\ l \in Seq(Item) /\ Len(l) \in 1 .. BeaconMax /\ l[1] = [id |-> n, stratum |-> 0]
    /\ \A k \in 2 .. Len(l) : /\ l[k] \in Entry /\ Advertised(l[k])
                              /\ Slot(t, l[k].id) \in 1 .. m /\ t[Slot(t, l[k].id)] = l[k]
    /\ \A j, k \in 2 .. Len(l) : j < k => Slot(t, l[j].id) < Slot(t, l[k].id)

(* One turn keeps the list in the order of the table.                     *)
LEMMA ListingFacts ==
    ASSUME NEW n \in Node, NEW t, TableFor(n, t), NEW m \in 1 .. Len(t), NEW l,
           ListFor(n, t, l, m - 1)
    PROVE  ListFor(n, t, Listing(l, t[m]), m)
<1>1. /\ t \in Seq(Item) /\ ListsOnce(t) /\ Len(t) \in Nat /\ t[m] \in Entry
      /\ Slot(t, t[m].id) = m
  <2>1. t \in Seq(Entry) /\ t \in Seq(Item) /\ ListsOnce(t)
    BY EntryIsItem DEF TableFor
  <2>2. QED
    BY <2>1, OnlySlot
<1>2. l \in Seq(Item) /\ Len(l) \in Nat /\ Len(l) >= 1 /\ m \in Nat /\ BeaconMax \in Nat
  BY BeaconAssumption, <1>1 DEF ListFor
<1>3. CASE Advertised(t[m]) /\ Len(l) < BeaconMax
  <2> DEFINE u == Listing(l, t[m])
  <2>1. u = Append(l, t[m])
    BY <1>3 DEF Listing
  <2>2. /\ u \in Seq(Item) /\ Len(u) = Len(l) + 1 /\ u[Len(l) + 1] = t[m]
        /\ \A k \in 1 .. Len(l) : u[k] = l[k]
    BY <1>1, <1>2, <2>1, EntryIsItem
  <2> HIDE DEF u
  <2>3. Len(u) \in 1 .. BeaconMax /\ u[1] = [id |-> n, stratum |-> 0]
    BY <1>2, <1>3, <2>2 DEF ListFor
  <2>4. ASSUME NEW k \in 2 .. Len(u)
        PROVE  /\ u[k] \in Entry /\ Advertised(u[k])
               /\ Slot(t, u[k].id) \in 1 .. m /\ t[Slot(t, u[k].id)] = u[k]
    <3>1. CASE k = Len(l) + 1
      BY <1>1, <1>3, <2>2, <3>1
    <3>2. CASE k # Len(l) + 1
      <4>1. k \in 2 .. Len(l) /\ u[k] = l[k]
        BY <1>2, <2>2, <3>2
      <4>2. /\ l[k] \in Entry /\ Advertised(l[k])
            /\ Slot(t, l[k].id) \in 1 .. m - 1 /\ t[Slot(t, l[k].id)] = l[k]
        BY <4>1 DEF ListFor
      <4>3. QED
        BY <1>2, <4>1, <4>2
    <3>3. QED
      BY <3>1, <3>2
  <2>5. ASSUME NEW j \in 2 .. Len(u), NEW k \in 2 .. Len(u), j < k
        PROVE  Slot(t, u[j].id) < Slot(t, u[k].id)
    <3>1. j \in 2 .. Len(l) /\ u[j] = l[j]
      BY <1>2, <2>2, <2>5
    <3>2. Slot(t, l[j].id) \in 1 .. m - 1
      BY <3>1 DEF ListFor
    <3>3. CASE k = Len(l) + 1
      BY <1>1, <1>2, <2>2, <3>1, <3>2, <3>3
    <3>4. CASE k # Len(l) + 1
      <4>1. k \in 2 .. Len(l) /\ u[k] = l[k]
        BY <1>2, <2>2, <3>4
      <4>2. QED
        BY <2>5, <3>1, <4>1 DEF ListFor
    <3>5. QED
      BY <3>3, <3>4
  <2>6. QED
    BY <2>2, <2>3, <2>4, <2>5 DEF ListFor, u
<1>4. CASE ~(Advertised(t[m]) /\ Len(l) < BeaconMax)
  <2>1. Listing(l, t[m]) = l
    BY <1>4 DEF Listing
  <2>2. \A k \in 1 .. m - 1 : k \in 1 .. m
    BY <1>2
  <2>3. ListFor(n, t, l, m)
    BY <2>2 DEF ListFor
  <2>4. QED
    BY <2>1, <2>3
<1>5. QED
  BY <1>3, <1>4

(* A beacon has its sender first, then entries of its table in their      *)
(* order, no more than there is room for.                                 *)
LEMMA BeaconFacts ==
    ASSUME NEW n \in Node, NEW t, TableFor(n, t)
    PROVE  ListFor(n, t, BeaconEntries(n, t), Len(t))
<1>1. t \in Seq(Entry) /\ Len(t) \in Nat
  BY DEF TableFor
<1>2. PICK list \in [0 .. Len(t) -> Seq(Item)] :
              /\ list[0] = <<[id |-> n, stratum |-> 0]>>
              /\ \A k \in 1 .. Len(t) : list[k] = Listing(list[k - 1], t[k])
              /\ BeaconEntries(n, t) = list[Len(t)]
  BY <1>1, BeaconLoop
<1> DEFINE S == {k \in 0 .. Len(t) : ListFor(n, t, list[k], k)}
<1>3. 0 \in S
  <2>1. /\ list[0] \in Seq(Item) /\ Len(list[0]) = 1 /\ list[0][1] = [id |-> n, stratum |-> 0]
    BY <1>1, <1>2
  <2>2. 1 \in 1 .. BeaconMax
    BY BeaconAssumption
  <2>3. ListFor(n, t, list[0], 0)
    BY <2>1, <2>2 DEF ListFor
  <2>4. QED
    BY <1>1, <2>3
<1>4. \A k \in 1 .. Len(t) : k - 1 \in S => k \in S
  BY <1>2, ListingFacts
<1>5. 0 .. Len(t) \subseteq S
  <2> HIDE DEF S
  <2>1. QED
    BY <1>1, <1>3, <1>4, Upwards
<1>6. QED
  BY <1>1, <1>2, <1>5

(* What a beacon that lists its hearer n has to say: its sender first, and *)
(* every node once.                                                        *)
Teaches(n, e) == e.id # n /\ e.stratum # StratumInf

BeaconFor(n, l) ==
    /\ l \in Seq(Item) /\ ListsOnce(l)
    /\ \A k \in 1 .. Len(l) : l[k].stratum \in {0, 1, 2, StratumInf}

Tables(n) == {t \in Seq(Entry) : TableFor(n, t)}

(* One turn of node_receive_beacon's loop merges what the entry teaches   *)
(* into the table, and nothing else.                                      *)
LEMMA LearntType ==
    ASSUME NEW n \in Node, NEW l, BeaconFor(n, l), NEW k \in 1 .. Len(l), NEW t \in Tables(n)
    PROVE  /\ Learnt(n, t, l[k]) \in Tables(n) /\ Follows(Learnt(n, t, l[k]), t)
           /\ ~Teaches(n, l[k]) => Learnt(n, t, l[k]) = t
           /\ Teaches(n, l[k]) =>
                 \A id \in Node : StratumOf(Learnt(n, t, l[k]), id) =
                     IF id = l[k].id THEN Abstract!Merge(StratumOf(t, id), l[k].stratum + 1)
                     ELSE StratumOf(t, id)
<1> DEFINE new == [l[k] EXCEPT !.stratum = @ + 1]
<1>1. TableFor(n, t) /\ l[k] \in Item /\ l[k].stratum \in {0, 1, 2, StratumInf}
  BY DEF Tables, BeaconFor
<1>2. CASE Teaches(n, l[k])
  <2>1. new \in Entry /\ new.id = l[k].id /\ new.id # n /\ new.stratum = l[k].stratum + 1
    BY <1>1, <1>2 DEF Item, Entry, Teaches
  <2>2. Learnt(n, t, l[k]) = Inserted(t, new)
    BY <1>2 DEF Learnt, Teaches
  <2>3. Inserted(t, new) \in Seq(Entry)
    <3> HIDE DEF new
    <3>1. TableFor(n, Inserted(t, new))
      BY <1>1, <2>1, InsertedFacts
    <3>2. QED
      BY <3>1 DEF TableFor
  <2> HIDE DEF new
  <2>4. QED
    BY <1>1, <1>2, <2>1, <2>2, <2>3, InsertedFacts DEF Tables
<1>3. CASE ~Teaches(n, l[k])
  <2>1. Learnt(n, t, l[k]) = t
    BY <1>3 DEF Learnt, Teaches
  <2>2. QED
    BY <1>3, <2>1 DEF Follows
<1>4. QED
  BY <1>2, <1>3

(* A table that has recorded a beacon is what the last turn leaves.       *)
LEMMA RecordedLoop ==
    ASSUME NEW n \in Node, NEW t \in Tables(n), NEW l, BeaconFor(n, l), SeenSelf(n, l)
    PROVE  \E after \in [0 .. Len(l) -> Tables(n)] :
              /\ after[0] = t
              /\ \A k \in 1 .. Len(l) : after[k] = Learnt(n, after[k - 1], l[k])
              /\ Recorded(n, t, l) = after[Len(l)]
<1> DEFINE turn == [k \in 1 .. Len(l) |-> [u \in Tables(n) |-> Learnt(n, u, l[k])]]
           Is(f) == f = [k \in 0 .. Len(l) |-> IF k = 0 THEN t ELSE Learnt(n, f[k - 1], l[k])]
<1>1. Len(l) \in Nat
  BY DEF BeaconFor
<1>2. turn \in Turns(Len(l), Tables(n))
  BY LearntType DEF Turns
<1>3. \E f : Is(f)
  <2>1. PICK f : RunOf(f, Len(l), Tables(n), t, turn)
    <3> HIDE DEF turn
    <3>1. QED
      BY <1>1, <1>2, LoopRuns
  <2>2. ASSUME NEW k \in 1 .. Len(l) PROVE turn[k][f[k - 1]] = Learnt(n, f[k - 1], l[k])
    <3>1. f[k - 1] \in Tables(n)
      <4> HIDE DEF turn
      <4>1. k - 1 \in 0 .. Len(l)
        BY <1>1
      <4>2. QED
        BY <2>1, <4>1 DEF RunOf
    <3>2. QED
      BY <3>1
  <2>3. Is(f)
    <3> HIDE DEF turn
    <3>1. QED
      BY <2>1, <2>2 DEF RunOf
  <2> HIDE DEF Is
  <2>4. QED
    BY <2>3
<1>4. PICK g : g = (CHOOSE h : Is(h))
  OBVIOUS
<1>5. Is(g)
  BY <1>3, <1>4
<1>6. /\ g[0] = t
      /\ \A k \in 1 .. Len(l) : g[k] = Learnt(n, g[k - 1], l[k])
      /\ DOMAIN g = 0 .. Len(l)
  BY <1>1, <1>5
<1>7. Recorded(n, t, l) = g[Len(l)]
  BY <1>4 DEF Recorded
<1> DEFINE S == {k \in 0 .. Len(l) : g[k] \in Tables(n)}
<1>8. 0 \in S
  BY <1>1, <1>6
<1>9. \A k \in 1 .. Len(l) : k - 1 \in S => k \in S
  BY <1>6, LearntType
<1>10. 0 .. Len(l) \subseteq S
  <2> HIDE DEF S
  <2>1. QED
    BY <1>1, <1>8, <1>9, Upwards
<1>11. g \in [0 .. Len(l) -> Tables(n)]
  BY <1>5, <1>10
<1>12. QED
  BY <1>6, <1>7, <1>11

(* What a beacon makes of its hearer's table: nodes keep their places, and *)
(* what it teaches is merged into what was there.                          *)
LEMMA TaughtFacts ==
    ASSUME NEW n \in Node, NEW t \in Tables(n), NEW l, BeaconFor(n, l), SeenSelf(n, l)
    PROVE  LET u == Recorded(n, t, l)
           IN  /\ u \in Tables(n) /\ Follows(u, t)
               /\ \A id \in Node :
                    /\ (\A k \in 1 .. Len(l) : Teaches(n, l[k]) => l[k].id # id) =>
                          StratumOf(u, id) = StratumOf(t, id)
                    /\ \A k \in 1 .. Len(l) : (Teaches(n, l[k]) /\ l[k].id = id) =>
                          StratumOf(u, id) = Abstract!Merge(StratumOf(t, id), l[k].stratum + 1)
<1> DEFINE Same(u, m) == \A id \in Node :
              (\A k \in 1 .. m : Teaches(n, l[k]) => l[k].id # id) =>
                  StratumOf(u, id) = StratumOf(t, id)
           Merged(u, m) == \A id \in Node, k \in 1 .. m : (Teaches(n, l[k]) /\ l[k].id = id) =>
                  StratumOf(u, id) = Abstract!Merge(StratumOf(t, id), l[k].stratum + 1)
<1>1. Len(l) \in Nat /\ DOMAIN l = 1 .. Len(l) /\ ListsOnce(l)
  BY DEF BeaconFor
<1>2. PICK after \in [0 .. Len(l) -> Tables(n)] :
              /\ after[0] = t
              /\ \A k \in 1 .. Len(l) : after[k] = Learnt(n, after[k - 1], l[k])
              /\ Recorded(n, t, l) = after[Len(l)]
  BY RecordedLoop
<1> DEFINE S == {m \in 0 .. Len(l) : Follows(after[m], t) /\ Same(after[m], m) /\ Merged(after[m], m)}
<1>3. 0 \in S
  BY <1>1, <1>2 DEF Follows
<1>4. ASSUME NEW m \in 1 .. Len(l), m - 1 \in S
      PROVE  m \in S
  <2> DEFINE u == after[m - 1]
             v == after[m]
  <2>1. /\ u \in Tables(n) /\ v = Learnt(n, u, l[m])
        /\ Follows(u, t) /\ Same(u, m - 1) /\ Merged(u, m - 1)
    BY <1>1, <1>2, <1>4
  <2> HIDE DEF u
  <2>2. Follows(v, t)
    <3>1. Follows(v, u)
      BY <2>1, LearntType
    <3>2. QED
      BY <2>1, <3>1 DEF Follows
  <2>3. CASE ~Teaches(n, l[m])
    <3>1. v = u
      BY <2>1, <2>3, LearntType
    <3>2. Same(v, m) /\ Merged(v, m)
      <4> HIDE DEF v
      <4>1. \A k \in 1 .. m : k = m \/ k \in 1 .. m - 1
        BY <1>1
      <4>2. \A k \in 1 .. m - 1 : k \in 1 .. m
        BY <1>1
      <4>3. QED
        BY <2>1, <2>3, <3>1, <4>1, <4>2
    <3>3. QED
      BY <2>2, <3>2
  <2>4. CASE Teaches(n, l[m])
    <3>1. \A id \in Node : StratumOf(v, id) =
              IF id = l[m].id THEN Abstract!Merge(StratumOf(u, id), l[m].stratum + 1)
              ELSE StratumOf(u, id)
      BY <2>1, <2>4, LearntType
    <3> HIDE DEF v
    <3>2. \A k \in 1 .. m - 1 : k \in 1 .. m /\ k \in 1 .. Len(l) /\ l[k].id # l[m].id
      BY <1>1 DEF ListsOnce
    <3>3. m \in 1 .. m /\ \A k \in 1 .. m : k = m \/ k \in 1 .. m - 1
      BY <1>1
    <3>4. Same(v, m)
      BY <2>1, <2>4, <3>1, <3>2, <3>3
    <3>5. ASSUME NEW id \in Node, NEW k \in 1 .. m, Teaches(n, l[k]), l[k].id = id
          PROVE  StratumOf(v, id) = Abstract!Merge(StratumOf(t, id), l[k].stratum + 1)
      <4>1. CASE k = m
        <5>1. StratumOf(u, id) = StratumOf(t, id)
          BY <2>1, <3>2, <3>5, <4>1
        <5>2. QED
          BY <3>1, <3>5, <4>1, <5>1
      <4>2. CASE k # m
        BY <2>1, <3>1, <3>2, <3>3, <3>5, <4>2
      <4>3. QED
        BY <4>1, <4>2
    <3>6. QED
      BY <2>2, <3>4, <3>5 DEF v
  <2>5. QED
    BY <2>3, <2>4
<1>5. 0 .. Len(l) \subseteq S
  <2> HIDE DEF S
  <2>1. QED
    BY <1>1, <1>3, <1>4, Upwards
<1>6. /\ after[Len(l)] \in Tables(n) /\ Follows(after[Len(l)], t)
      /\ Same(after[Len(l)], Len(l)) /\ Merged(after[Len(l)], Len(l))
  <2>1. Len(l) \in S /\ Len(l) \in 0 .. Len(l)
    <3>1. Len(l) \in 0 .. Len(l)
      BY <1>1
    <3> HIDE DEF S
    <3>2. QED
      BY <1>5, <3>1
  <2>2. QED
    BY <2>1
<1>7. Recorded(n, t, l) = after[Len(l)]
  BY <1>2
<1> HIDE DEF S
<1>8. QED
  BY <1>6, <1>7, Zenon

(* The invariant holds of the first state.                                *)
LEMMA InitIInv == Init => IInv
<1> SUFFICES ASSUME Init PROVE IInv
  OBVIOUS
<1>1. TypeOK
  <2>1. status \in [Node -> {"ASLEEP", "WAKING", "AWAKE", "ROOT"}] /\ rested \in [Node -> BOOLEAN]
    BY DEF Init
  <2>2. timers \in [Node -> 0 .. 3]
    BY DEF Init, TimersStarted
  <2>3. ASSUME NEW n \in Node
        PROVE  /\ \A k \in DOMAIN table[n] : table[n][k] \in Entry /\ table[n][k].id # n
               /\ Len(table[n]) <= NeighMax
    <3>1. table[n] = <<>>
      BY DEF Init
    <3>2. QED
      BY <3>1, SizeAssumption
  <2>4. air = {} /\ failed = FALSE
    BY DEF Init
  <2>5. QED
    BY <2>1, <2>2, <2>3, <2>4 DEF TypeOK
<1>2. TimerChains
  BY DEF Init, TimerChains, TimersStarted
<1>3. \A n \in Node : TableOK(n)
  BY DEF Init, TableOK, ListsOnce
<1>4. IsFiniteSet(air)
  BY FS_EmptySet DEF Init
<1>5. QED
  BY <1>1, <1>2, <1>3, <1>4 DEF Init, IInv

(* The tables and the beacons, as the invariant has them.                  *)
LEMMA TableFacts ==
    ASSUME IInv, NEW n \in Node
    PROVE  TableFor(n, table[n]) /\ table[n] \in Tables(n) /\ Len(table[n]) \in Nat
           /\ Len(table[n]) <= NeighMax
<1>1. TableOK(n) /\ (\A k \in DOMAIN table[n] : table[n][k].id # n) /\ Len(table[n]) <= NeighMax
  BY DEF IInv, TypeOK
<1>2. QED
  BY <1>1 DEF TableFor, Tables, TableOK

(* What the invariant says of a beacon on its way.                        *)
LEMMA OnAirFacts ==
    ASSUME IInv, NEW b \in air
    PROVE  /\ b.src \in Node /\ b.dst \in Node /\ b.src # b.dst
           /\ Len(b.neigh) \in Nat /\ Len(b.neigh) >= 1
           /\ b.neigh[1] = [id |-> b.src, stratum |-> 0]
           /\ BeaconFor(b.dst, b.neigh)
           /\ \A k \in 2 .. Len(b.neigh) : /\ b.neigh[k] \in Item
                                           /\ b.neigh[k].id \in Node /\ b.neigh[k].id # b.src
                                           /\ b.neigh[k].stratum \in {1, 2, StratumInf}
<1>1. BeaconOK(b) /\ <<b.src, b.dst>> \in Link
  BY DEF IInv, TypeOK
<1>2. /\ b.src \in Node /\ b.dst \in Node /\ b.src # b.dst /\ b.neigh \in Seq(Item)
      /\ b.neigh # <<>> /\ b.neigh[1] = [id |-> b.src, stratum |-> 0]
  BY <1>1, LinkAssumption DEF BeaconOK
<1>3. Len(b.neigh) \in Nat /\ Len(b.neigh) >= 1 /\ DOMAIN b.neigh = 1 .. Len(b.neigh)
  BY <1>2
<1>4. ASSUME NEW k \in 2 .. Len(b.neigh)
      PROVE  /\ b.neigh[k] \in Item
             /\ b.neigh[k].id \in Node /\ b.neigh[k].id # b.src
             /\ b.neigh[k].stratum \in {1, 2, StratumInf}
             /\ Slot(table[b.src], b.neigh[k].id) \in Nat
  <2>1. /\ b.neigh[k] \in Entry /\ Advertised(b.neigh[k])
        /\ Slot(table[b.src], b.neigh[k].id) # 0
    BY <1>1 DEF BeaconOK
  <2>2. b.neigh[k] \in Item /\ b.neigh[k].id \in Node /\ b.neigh[k].stratum \in {1, 2, StratumInf}
    BY <2>1, EntryIsItem DEF Entry, Advertised, MaxStrat
  <2>3. TableFor(b.src, table[b.src]) /\ table[b.src] \in Seq(Item) /\ Len(table[b.src]) \in Nat
    BY <1>2, TableFacts, EntryIsItem DEF TableFor
  <2>4. Slot(table[b.src], b.neigh[k].id) \in 1 .. Len(table[b.src])
        /\ table[b.src][Slot(table[b.src], b.neigh[k].id)].id = b.neigh[k].id
    BY <2>1, <2>3, SlotOf
  <2>5. b.neigh[k].id # b.src
    BY <2>3, <2>4 DEF TableFor
  <2>6. QED
    BY <2>2, <2>3, <2>4, <2>5
<1>5. ListsOnce(b.neigh)
  <2> SUFFICES ASSUME NEW j \in 1 .. Len(b.neigh), NEW k \in 1 .. Len(b.neigh), j < k
               PROVE  b.neigh[j].id # b.neigh[k].id
    BY <1>3 DEF ListsOnce
  <2>1. k \in 2 .. Len(b.neigh)
    BY <1>3
  <2>2. CASE j = 1
    BY <1>2, <1>4, <2>1, <2>2
  <2>3. CASE j # 1
    <3>1. j \in 2 .. Len(b.neigh)
      BY <1>3, <2>3
    <3>2. Slot(table[b.src], b.neigh[j].id) < Slot(table[b.src], b.neigh[k].id)
      BY <1>1, <2>1, <3>1 DEF BeaconOK
    <3>3. QED
      BY <1>4, <2>1, <3>1, <3>2
  <2>4. QED
    BY <2>2, <2>3
<1>6. BeaconFor(b.dst, b.neigh)
  <2>1. ASSUME NEW k \in 1 .. Len(b.neigh) PROVE b.neigh[k].stratum \in {0, 1, 2, StratumInf}
    <3>1. k = 1 \/ k \in 2 .. Len(b.neigh)
      BY <1>3
    <3>2. QED
      BY <1>2, <1>4, <3>1
  <2>2. QED
    BY <1>2, <1>5, <2>1 DEF BeaconFor
<1>7. QED
  BY <1>2, <1>3, <1>4, <1>6

(* What the handler makes of the table of a beacon's hearer.               *)
LEMMA RecordedFacts ==
    ASSUME IInv, NEW b \in air
    PROVE  LET new == Recorded(b.dst, table[b.dst], b.neigh)
           IN  new \in Tables(b.dst) /\ Follows(new, table[b.dst])
<1> DEFINE n == b.dst
           new == Recorded(n, table[n], b.neigh)
<1>1. /\ n \in Node /\ b.src \in Node /\ b.src # n /\ BeaconFor(n, b.neigh)
      /\ b.neigh[1].id = b.src /\ table[n] \in Tables(n) /\ TableFor(n, table[n])
  <2> HIDE DEF new
  <2>1. b.neigh[1] = [id |-> b.src, stratum |-> 0]
    BY OnAirFacts
  <2>2. n \in Node /\ b.src \in Node /\ b.src # n /\ BeaconFor(n, b.neigh)
    BY OnAirFacts
  <2> HIDE DEF n
  <2>3. QED
    BY <2>1, <2>2, TableFacts
<1>2. CASE SeenSelf(n, b.neigh)
  <2> DEFINE t == table[n]
             l == b.neigh
  <2>1. t \in Tables(n) /\ BeaconFor(n, l) /\ SeenSelf(n, l) /\ n \in Node
    BY <1>1, <1>2
  <2> HIDE DEF n, t, l
  <2>2. Recorded(n, t, l) \in Tables(n) /\ Follows(Recorded(n, t, l), t)
    BY <2>1, TaughtFacts
  <2>3. QED
    BY <2>2 DEF n, t, l
<1>3. CASE ~SeenSelf(n, b.neigh)
  <2>1. HeardOnly(b.neigh) \in Entry /\ HeardOnly(b.neigh).id # n
    BY <1>1 DEF HeardOnly, Entry
  <2>2. new = Inserted(table[n], HeardOnly(b.neigh))
    BY <1>3 DEF Recorded
  <2> HIDE DEF n, new
  <2>3. TableFor(n, new) /\ Follows(new, table[n])
    BY <1>1, <2>1, <2>2, InsertedFacts
  <2>4. QED
    BY <2>3 DEF Tables, TableFor, n, new
<1>4. QED
  BY <1>2, <1>3

(* A table has no more entries than there are other nodes.                 *)
LEMMA TableSize ==
    ASSUME NEW n \in Node, NEW t \in Tables(n)
    PROVE  Len(t) \in Nat /\ Cardinality(Node) \in Nat /\ Len(t) <= Cardinality(Node) - 1
<1>1. /\ t \in Seq(Entry) /\ ListsOnce(t) /\ Len(t) \in Nat /\ DOMAIN t = 1 .. Len(t)
      /\ \A k \in 1 .. Len(t) : t[k].id \in Node \ {n}
  <2>1. t \in Seq(Entry) /\ ListsOnce(t) /\ \A k \in 1 .. Len(t) : t[k].id # n
    BY DEF Tables, TableFor
  <2>2. \A k \in 1 .. Len(t) : t[k] \in Entry
    BY <2>1
  <2>3. QED
    BY <2>1, <2>2 DEF Entry
<1>2. /\ IsFiniteSet(Node \ {n}) /\ Cardinality(Node) \in Nat
      /\ Cardinality(Node \ {n}) = Cardinality(Node) - 1
  BY NodeAssumption, FS_RemoveElement, FS_CardinalityType
<1>3. IsFiniteSet(1 .. Len(t)) /\ Cardinality(1 .. Len(t)) = Len(t)
  BY <1>1, FS_Interval
<1>4. ~(Cardinality(Node \ {n}) < Cardinality(1 .. Len(t)))
  <2> SUFFICES ASSUME Cardinality(Node \ {n}) < Cardinality(1 .. Len(t)) PROVE FALSE
    OBVIOUS
  <2> DEFINE f == [k \in 1 .. Len(t) |-> t[k].id]
  <2>1. f \in [1 .. Len(t) -> Node \ {n}]
    BY <1>1
  <2>2. \E j, k \in 1 .. Len(t) : j # k /\ f[j] = f[k]
    <3> HIDE DEF f
    <3>1. QED
      BY <1>2, <1>3, <2>1, FS_PigeonHole
  <2>3. QED
    BY <1>1, <2>2 DEF ListsOnce
<1>5. QED
  BY <1>1, <1>2, <1>3, <1>4

(* A beacon stays in order while the sender's table grows.                 *)
LEMMA StaysInOrder ==
    ASSUME IInv, NEW b \in air, DOMAIN table' = Node, Follows(table'[b.src], table[b.src])
    PROVE  BeaconOK(b)'
<1>1. BeaconOK(b) /\ b.src \in Node
  BY OnAirFacts DEF IInv
<1>2. \A k \in 2 .. Len(b.neigh) : b.neigh[k].id \in Node /\ Slot(table[b.src], b.neigh[k].id) # 0
  BY <1>1, OnAirFacts DEF BeaconOK
<1>3. \A k \in 2 .. Len(b.neigh) :
          Slot(table'[b.src], b.neigh[k].id) = Slot(table[b.src], b.neigh[k].id)
  BY <1>2 DEF Follows
<1>4. QED
  BY <1>1, <1>2, <1>3 DEF BeaconOK

(* What the invariant says of a node's status and timers.                 *)
LEMMA StatusFacts ==
    ASSUME IInv, NEW n \in Node
    PROVE  /\ status[n] \in {"ASLEEP", "WAKING", "AWAKE", "ROOT"}
           /\ timers[n] = CASE status[n] = "ASLEEP" -> 0
                            [] status[n] = "WAKING" -> 2
                            [] status[n] = "ROOT"   -> 1
                            [] status[n] = "AWAKE"  -> IF AwakeOpt THEN 1 ELSE 3
           /\ AwakeOpt => status[n] \in {"AWAKE", "ROOT"}
           /\ status \in [Node -> {"ASLEEP", "WAKING", "AWAKE", "ROOT"}]
           /\ timers \in [Node -> 0 .. 3]
BY DEF IInv, TypeOK, TimerChains

(* node_receive_beacon keeps the invariant: the tables of nodes follow    *)
(* the old ones, so that the beacons still in the air stay in their       *)
(* order.                                                                 *)
LEMMA ReceiveStep ==
    ASSUME IInv, NEW b \in air, Receive(b)
    PROVE  IInv'
<1> DEFINE n == b.dst
           new == Recorded(n, table[n], b.neigh)
<1>1. /\ n \in Node /\ new \in Tables(n) /\ Follows(new, table[n]) /\ DOMAIN table = Node
      /\ rested' = rested /\ failed' = Overfull(new, NeighMax) /\ failed = FALSE
      /\ rested \in [Node -> BOOLEAN] /\ IsFiniteSet(air)
  BY OnAirFacts, RecordedFacts DEF Receive, IInv, TypeOK
<1>2. Len(new) \in Nat /\ Cardinality(Node) \in Nat /\ Len(new) <= Cardinality(Node) - 1
      /\ NeighMax \in Nat
  BY <1>1, TableSize, SizeAssumption
<1>3. failed' \in BOOLEAN /\ (failed' => Cardinality(Node) - 1 > NeighMax)
  <2>1. failed' \in BOOLEAN
    <3> HIDE DEF new
    <3>1. Overfull(new, NeighMax) \in BOOLEAN
      BY DEF Overfull
    <3>2. QED
      BY <1>1, <3>1
  <2>2. failed' => Overfull(new, NeighMax)
    BY <1>1, Zenon
  <2> HIDE DEF new
  <2>3. Overfull(new, NeighMax) => Cardinality(Node) - 1 > NeighMax
    BY <1>2 DEF Overfull
  <2>4. QED
    BY <2>1, <2>2, <2>3
<1>4. CASE failed'
  <2>1. UNCHANGED <<status, table, timers, air, rested>>
    BY <1>4 DEF Receive
  <2>2. TypeOK'
    BY <1>3, <2>1 DEF IInv, TypeOK
  <2>3. \A m \in Node : TableOK(m)'
    BY <2>1 DEF IInv, TableOK
  <2>4. \A c \in air' : BeaconOK(c)'
    BY <2>1 DEF IInv, BeaconOK
  <2>5. TimerChains'
    BY <2>1 DEF IInv, TimerChains
  <2>6. QED
    BY <2>1, <2>2, <2>3, <2>4, <2>5 DEF IInv
<1>5. CASE ~failed'
  <2>1. /\ status' = [status EXCEPT ![n] = IF status[n] = "ASLEEP" THEN "WAKING" ELSE @]
        /\ table' = [table EXCEPT ![n] = new]
        /\ timers' = [timers EXCEPT ![n] =
                        IF status[n] = "ASLEEP" THEN @ + TimersStarted("WAKING") + 1 ELSE @]
        /\ air' = air \ {b}
    BY <1>5 DEF Receive
  <2>2. Len(new) <= NeighMax
    <3>1. ~Overfull(new, NeighMax)
      BY <1>1, <1>5, Zenon
    <3> HIDE DEF new
    <3>2. QED
      BY <1>2, <3>1 DEF Overfull
  <2> HIDE DEF n, new
  <2>3. /\ DOMAIN table' = Node
        /\ \A m \in Node : /\ TableFor(m, table'[m]) /\ Len(table'[m]) <= NeighMax
                           /\ Follows(table'[m], table[m])
    <3>1. DOMAIN table' = Node /\ table'[n] = new /\ \A m \in Node : m # n => table'[m] = table[m]
      BY <1>1, <2>1
    <3>2. \A m \in Node : m # n => /\ TableFor(m, table'[m]) /\ Len(table'[m]) <= NeighMax
                                   /\ Follows(table'[m], table[m])
      BY <3>1, TableFacts DEF Follows
    <3>3. TableFor(n, table'[n]) /\ Len(table'[n]) <= NeighMax /\ Follows(table'[n], table[n])
      BY <1>1, <2>2, <3>1 DEF Tables
    <3>4. QED
      BY <3>1, <3>2, <3>3
  <2>4. \A m \in Node : /\ TableOK(m)' /\ Len(table'[m]) <= NeighMax
                        /\ \A k \in DOMAIN table'[m] : table'[m][k] \in Entry /\ table'[m][k].id # m
    BY <2>3 DEF TableFor, TableOK
  <2>5. /\ status' \in [Node -> {"ASLEEP", "WAKING", "AWAKE", "ROOT"}]
        /\ timers' \in [Node -> 0 .. 3] /\ TimerChains'
        /\ AwakeOpt => \A m \in Node : status'[m] \in {"AWAKE", "ROOT"}
    <3>1. \A m \in Node \ {n} : status'[m] = status[m] /\ timers'[m] = timers[m]
      BY <2>1, StatusFacts
    <3>2. CASE status[n] = "ASLEEP"
      <4>1. timers[n] = 0 /\ ~AwakeOpt
        BY <1>1, <3>2, StatusFacts
      <4>2. status'[n] = "WAKING" /\ timers'[n] = 2
        BY <1>1, <2>1, <3>2, <4>1, StatusFacts DEF TimersStarted
      <4>3. \A m \in Node : timers'[m] = CASE status'[m] = "ASLEEP" -> 0
                            [] status'[m] = "WAKING" -> 2
                            [] status'[m] = "ROOT"   -> 1
                            [] status'[m] = "AWAKE"  -> IF AwakeOpt THEN 1 ELSE 3
        BY <3>1, <4>2, StatusFacts
      <4>4. /\ status' \in [Node -> {"ASLEEP", "WAKING", "AWAKE", "ROOT"}]
            /\ timers' \in [Node -> 0 .. 3]
        <5>1. /\ status \in [Node -> {"ASLEEP", "WAKING", "AWAKE", "ROOT"}]
              /\ timers \in [Node -> 0 .. 3]
          BY DEF IInv, TypeOK
        <5>2. status' = [status EXCEPT ![n] = "WAKING"]
          BY <2>1, <3>2
        <5>3. timers' = [timers EXCEPT ![n] = 2]
          <6>1. timers[n] + TimersStarted("WAKING") + 1 = 2
            BY <4>1 DEF TimersStarted
          <6>2. QED
            BY <2>1, <3>2, <6>1
        <5>4. status' \in [Node -> {"ASLEEP", "WAKING", "AWAKE", "ROOT"}]
          BY <5>1, <5>2
        <5>5. timers' \in [Node -> 0 .. 3]
          <6>1. 2 \in 0 .. 3
            OBVIOUS
          <6> DEFINE T == 0 .. 3
          <6>2. timers \in [Node -> T] /\ 2 \in T
            BY <5>1, <6>1
          <6> HIDE DEF T
          <6>3. timers' \in [Node -> T]
            BY <5>3, <6>2
          <6>4. QED
            BY <6>3 DEF T
        <5>6. QED
          BY <5>4, <5>5
      <4>5. QED
        BY <4>1, <4>3, <4>4 DEF TimerChains
    <3>3. CASE status[n] # "ASLEEP"
      <4>1. status' = status /\ timers' = timers
        BY <1>1, <2>1, <3>3, StatusFacts
      <4>2. QED
        BY <4>1 DEF TimerChains, IInv, TypeOK
    <3>4. QED
      BY <3>2, <3>3
  <2>6. IsFiniteSet(air')
    BY <1>1, <2>1, FS_RemoveElement
  <2>7. \A c \in air' : BeaconOK(c)' /\ <<c.src, c.dst>> \in Link /\ Len(c.neigh) <= BeaconMax
    <3>1. \A c \in air : c.src \in Node /\ <<c.src, c.dst>> \in Link /\ Len(c.neigh) <= BeaconMax
      BY OnAirFacts DEF IInv, TypeOK
    <3>2. QED
      BY <2>1, <2>3, <3>1, StaysInOrder
  <2>8. TypeOK'
    BY <1>1, <1>3, <2>4, <2>5, <2>7 DEF TypeOK
  <2>9. QED
    BY <2>3, <2>4, <2>5, <2>6, <2>7, <2>8 DEF IInv
<1>6. QED
  BY <1>4, <1>5

(* The beacons a node sends are finitely many, and no more than its        *)
(* hearers.                                                                *)
Sent(n, s) == {[src |-> n, dst |-> m, status |-> s, neigh |-> BeaconEntries(n, table[n])] :
                  m \in Hearers(n)}

(* Those are finitely many.                                               *)
LEMMA SentFinite ==
    ASSUME NEW n \in Node, NEW s
    PROVE  IsFiniteSet(Sent(n, s))
<1> DEFINE f == [m \in Hearers(n) |->
                   [src |-> n, dst |-> m, status |-> s, neigh |-> BeaconEntries(n, table[n])]]
<1>1. IsFiniteSet(Hearers(n))
  <2>1. Hearers(n) \subseteq Node
    BY DEF Hearers
  <2>2. QED
    BY <2>1, NodeAssumption, FS_Subset
<1>2. f \in Surjection(Hearers(n), Sent(n, s))
  <2>1. f \in [Hearers(n) -> Sent(n, s)]
    BY DEF Sent
  <2>2. \A b \in Sent(n, s) : \E m \in Hearers(n) : f[m] = b
    BY DEF Sent
  <2> HIDE DEF f
  <2>3. QED
    BY <2>1, <2>2 DEF Surjection
<1>3. QED
  <2> HIDE DEF f
  <2>1. QED
    BY <1>1, <1>2, FS_Surjection

(* node_timer keeps the invariant: what it sends is in the order of a     *)
(* table.                                                                 *)
LEMMA TimerStep ==
    ASSUME IInv, NEW n \in Node, Timer(n)
    PROVE  IInv'
<1> DEFINE wakes == status[n] = "WAKING" /\ rested[n]
           now   == IF wakes THEN "AWAKE" ELSE status[n]
           t     == table[n]
           l     == BeaconEntries(n, t)
<1>1. /\ status' = [status EXCEPT ![n] = now]
      /\ timers' = [timers EXCEPT ![n] = IF wakes THEN @ + 1 ELSE @]
      /\ air' = air \union Sent(n, now)
      /\ table' = table /\ rested' = rested /\ failed' = failed
      /\ timers[n] > 0
  BY DEF Timer, Sent, TimersStarted
<1>2. /\ status[n] \in {"WAKING", "AWAKE", "ROOT"} /\ now \in {"WAKING", "AWAKE", "ROOT"}
      /\ AwakeOpt => status[n] \in {"AWAKE", "ROOT"}
  <2>1. status[n] # "ASLEEP"
    BY <1>1, StatusFacts
  <2>2. QED
    BY <2>1, StatusFacts
<1>3. /\ status \in [Node -> {"ASLEEP", "WAKING", "AWAKE", "ROOT"}]
      /\ timers \in [Node -> 0 .. 3]
  BY DEF IInv, TypeOK
<1>4. ListFor(n, t, l, Len(t)) /\ Len(t) \in Nat
  BY TableFacts, BeaconFacts
<1>5. ASSUME NEW b \in Sent(n, now)
      PROVE  BeaconOK(b)' /\ <<b.src, b.dst>> \in Link /\ Len(b.neigh) <= BeaconMax
  <2> HIDE DEF wakes, now, t, l
  <2>1. /\ b.src = n /\ b.dst \in Node /\ <<n, b.dst>> \in Link /\ b.status = now /\ b.neigh = l
        /\ b = [src |-> n, dst |-> b.dst, status |-> now, neigh |-> l]
    <3>1. PICK m \in Hearers(n) : b = [src |-> n, dst |-> m, status |-> now, neigh |-> l]
      BY <1>5 DEF Sent, l, t
    <3>2. m \in Node /\ <<n, m>> \in Link
      BY DEF Hearers
    <3>3. QED
      BY <3>1, <3>2
  <2>2. /\ l \in Seq(Item) /\ Len(l) \in 1 .. BeaconMax /\ l[1] = [id |-> n, stratum |-> 0]
        /\ \A k \in 2 .. Len(l) : l[k] \in Entry /\ Advertised(l[k]) /\ Slot(t, l[k].id) # 0
        /\ \A j, k \in 2 .. Len(l) : j < k => Slot(t, l[j].id) < Slot(t, l[k].id)
    <3>1. \A x \in 1 .. Len(t) : x # 0
      BY <1>4
    <3>2. ASSUME NEW k \in 2 .. Len(l)
          PROVE  l[k] \in Entry /\ Advertised(l[k]) /\ Slot(t, l[k].id) # 0
      BY <1>4, <3>1, <3>2 DEF ListFor
    <3>3. QED
      BY <1>4, <3>2 DEF ListFor
  <2>3. b \in [src : Node, dst : Node, status : {"ASLEEP", "WAKING", "AWAKE", "ROOT"},
               neigh : Seq(Item)]
    BY <1>2, <2>1, <2>2
  <2>4. l # <<>> /\ Len(l) <= BeaconMax
    BY <2>2, BeaconAssumption
  <2>5. table'[n] = t
    BY <1>1 DEF t
  <2>6. QED
    BY <2>1, <2>2, <2>3, <2>4, <2>5 DEF BeaconOK
<1>6. ASSUME NEW b \in air
      PROVE  BeaconOK(b)' /\ <<b.src, b.dst>> \in Link /\ Len(b.neigh) <= BeaconMax
  BY <1>1 DEF IInv, TypeOK, BeaconOK
<1> HIDE DEF t, l
<1>7. \A b \in air' : BeaconOK(b)' /\ <<b.src, b.dst>> \in Link /\ Len(b.neigh) <= BeaconMax
  BY <1>1, <1>5, <1>6
<1>8. IsFiniteSet(air')
  <2>1. IsFiniteSet(air) /\ IsFiniteSet(Sent(n, now))
    BY SentFinite DEF IInv
  <2>2. QED
    BY <1>1, <2>1, FS_Union
<1>9. /\ status' \in [Node -> {"ASLEEP", "WAKING", "AWAKE", "ROOT"}]
      /\ timers' \in [Node -> 0 .. 3] /\ TimerChains'
      /\ AwakeOpt => \A m \in Node : status'[m] \in {"AWAKE", "ROOT"}
  <2>1. CASE wakes
    <3>1. status'[n] = "AWAKE" /\ timers'[n] = 3 /\ ~AwakeOpt
      BY <1>1, <1>2, <1>3, <2>1, StatusFacts
    <3>2. /\ status' = [status EXCEPT ![n] = "AWAKE"]
          /\ timers' = [timers EXCEPT ![n] = 3]
      BY <1>1, <1>3, <2>1, <3>1
    <3>3. status' \in [Node -> {"ASLEEP", "WAKING", "AWAKE", "ROOT"}]
      BY <1>3, <3>2
    <3>4. timers' \in [Node -> 0 .. 3]
      <4> DEFINE T == 0 .. 3
      <4>1. timers \in [Node -> T] /\ 3 \in T
        BY <1>3
      <4> HIDE DEF T
      <4>2. timers' \in [Node -> T]
        BY <3>2, <4>1
      <4>3. QED
        BY <4>2 DEF T
    <3>5. \A m \in Node \ {n} : status'[m] = status[m] /\ timers'[m] = timers[m]
      BY <1>3, <3>2
    <3>6. TimerChains'
      BY <3>1, <3>5, StatusFacts DEF TimerChains
    <3>7. QED
      BY <3>1, <3>3, <3>4, <3>6
  <2>2. CASE ~wakes
    <3>1. status' = status /\ timers' = timers
      BY <1>1, <1>3, <2>2
    <3>2. QED
      BY <1>3, <3>1 DEF IInv, TimerChains
  <2>3. QED
    BY <2>1, <2>2
<1>10. \A m \in Node : TableOK(m)'
  BY <1>1 DEF IInv, TableOK
<1>11. TypeOK'
  BY <1>1, <1>7, <1>9 DEF IInv, TypeOK
<1>12. QED
  BY <1>1, <1>7, <1>8, <1>9, <1>10, <1>11 DEF IInv

(* The wake time is nothing to the invariant.                             *)
LEMMA RestStep ==
    ASSUME IInv, NEW n \in Node, Rest(n)
    PROVE  IInv'
<1>1. UNCHANGED <<status, table, timers, air, failed>> /\ rested' = [rested EXCEPT ![n] = TRUE]
  BY DEF Rest
<1>2. TypeOK'
  BY <1>1 DEF IInv, TypeOK
<1>3. /\ \A m \in Node : TableOK(m)'
      /\ \A c \in air' : BeaconOK(c)'
      /\ TimerChains'
  BY <1>1 DEF IInv, TableOK, BeaconOK, TimerChains
<1>4. QED
  BY <1>1, <1>2, <1>3 DEF IInv

(* A beacon that is ignored, or lost, leaves all else as it is.            *)
LEMMA OffAirStep ==
    ASSUME IInv, NEW b \in air, air' = air \ {b},
           UNCHANGED <<status, table, rested, timers, failed>>
    PROVE  IInv'
<1>1. IsFiniteSet(air')
  BY FS_RemoveElement DEF IInv
<1>2. TypeOK'
  BY DEF IInv, TypeOK
<1>3. /\ \A m \in Node : TableOK(m)'
      /\ \A c \in air' : BeaconOK(c)'
      /\ TimerChains'
  BY DEF IInv, TableOK, BeaconOK, TimerChains
<1>4. QED
  BY <1>1, <1>2, <1>3 DEF IInv

(* In every network, whatever is lost or overtaken and however small the  *)
(* tables and beacons are, the invariant holds.                           *)
THEOREM Invariance == Spec => []IInv
<1>1. ASSUME IInv, [Next]_vars
      PROVE  IInv'
  <2>1. CASE UNCHANGED vars
    <3>1. UNCHANGED <<status, table, timers, air, failed, rested>>
      BY <2>1 DEF vars
    <3>2. TypeOK'
      BY <1>1, <3>1 DEF IInv, TypeOK
    <3>3. /\ \A m \in Node : TableOK(m)'
          /\ \A c \in air' : BeaconOK(c)'
          /\ TimerChains'
      BY <1>1, <3>1 DEF IInv, TableOK, BeaconOK, TimerChains
    <3>4. QED
      BY <1>1, <3>1, <3>2, <3>3 DEF IInv
  <2>2. ASSUME NEW n \in Node, Timer(n) PROVE IInv'
    BY <1>1, <2>2, TimerStep
  <2>3. ASSUME NEW n \in Node, Rest(n) PROVE IInv'
    BY <1>1, <2>3, RestStep
  <2>4. ASSUME NEW b \in air, Receive(b) PROVE IInv'
    BY <1>1, <2>4, ReceiveStep
  <2>5. ASSUME NEW b \in air, Ignore(b) \/ Lose(b) PROVE IInv'
    <3>1. air' = air \ {b} /\ UNCHANGED <<status, table, rested, timers, failed>>
      BY <2>5 DEF Ignore, Lose
    <3>2. QED
      BY <1>1, <3>1, OffAirStep
  <2>6. QED
    BY <1>1, <2>1, <2>2, <2>3, <2>4, <2>5 DEF Next
<1>2. QED
  BY InitIInv, <1>1, PTL DEF Spec

(* The values are as declared: no table lists its own node or a node      *)
(* twice, and the assert on the table size can fail only where a node may *)
(* hear of more nodes than its table has entries.                         *)
THEOREM Types == Spec => []TypeOK
<1>1. IInv => TypeOK
  BY DEF IInv
<1>2. QED
  BY Invariance, <1>1, PTL

(* A node that slept has three timers queued once awake, one that was     *)
(* never asleep has one.                                                  *)
THEOREM Chains == Spec => []TimerChains
<1>1. IInv => TimerChains
  BY DEF IInv
<1>2. QED
  BY Invariance, <1>1, PTL

(* The part of the neighbours' protocol that a beacon stands for.          *)
Image(b) == [src |-> b.src, dst |-> b.dst, status |-> b.status, heard |-> Heard(b)]

(* The entries of a list, behind its sender, are in the order of a table.  *)
InOrder(l, t) ==
    /\ l \in Seq(Item) /\ l # <<>>
    /\ \A k \in 2 .. Len(l) : Slot(t, l[k].id) \in Nat
    /\ \A j, k \in 2 .. Len(l) : j < k => Slot(t, l[j].id) < Slot(t, l[k].id)

Behind(l) == {l[k] : k \in 2 .. Len(l)}

(* Where two ordered lists of the same entries would part, each would have *)
(* the nearer entry.                                                       *)
LEMMA WherePart ==
    ASSUME NEW t, NEW l, NEW m, InOrder(l, t), InOrder(m, t), Behind(l) = Behind(m),
           NEW k \in 2 .. Len(l),
           \A j \in 2 .. k - 1 : j <= Len(m) /\ l[j] = m[j],
           ~(k <= Len(m) /\ l[k] = m[k])
    PROVE  k <= Len(m) /\ Slot(t, m[k].id) < Slot(t, l[k].id)
<1>1. Len(l) \in Nat /\ Len(m) \in Nat
  BY DEF InOrder
<1>2. PICK j \in 2 .. Len(m) : l[k] = m[j]
  BY DEF Behind
<1>3. ~(j < k)
  <2> SUFFICES ASSUME j < k PROVE FALSE
    OBVIOUS
  <2>1. j \in 2 .. k - 1 /\ j \in 2 .. Len(l)
    BY <1>1
  <2>2. l[j] = l[k]
    BY <1>2, <2>1
  <2>3. Slot(t, l[j].id) < Slot(t, l[k].id) /\ Slot(t, l[k].id) \in Nat
    BY <2>1 DEF InOrder
  <2>4. QED
    BY <2>2, <2>3
<1>4. k < j
  BY <1>1, <1>2, <1>3
<1>5. k \in 2 .. Len(m)
  BY <1>1, <1>4
<1>6. Slot(t, m[k].id) < Slot(t, m[j].id)
  BY <1>4, <1>5 DEF InOrder
<1>7. QED
  BY <1>1, <1>2, <1>5, <1>6

(* Two ordered lists of the same entries, with the same head, are the same.*)
LEMMA SameList ==
    ASSUME NEW t, NEW l, NEW m, InOrder(l, t), InOrder(m, t), Behind(l) = Behind(m), l[1] = m[1]
    PROVE  l = m
<1>1. /\ Len(l) \in Nat /\ Len(m) \in Nat /\ Len(l) >= 1 /\ Len(m) >= 1
      /\ l \in Seq(Item) /\ m \in Seq(Item)
  BY DEF InOrder
<1> DEFINE Parts == {k \in Nat : /\ 2 <= k /\ (k <= Len(l) \/ k <= Len(m))
                                 /\ ~(k <= Len(l) /\ k <= Len(m) /\ l[k] = m[k])}
<1>2. Parts = {}
  <2> SUFFICES ASSUME Parts # {} PROVE FALSE
    OBVIOUS
  <2>1. PICK k \in Parts : \A j \in Parts : k <= j
    <3>1. Parts \subseteq Nat
      OBVIOUS
    <3> HIDE DEF Parts
    <3>2. QED
      BY <3>1, LeastNat
  <2>2. /\ k \in Nat /\ 2 <= k /\ (k <= Len(l) \/ k <= Len(m))
        /\ ~(k <= Len(l) /\ k <= Len(m) /\ l[k] = m[k])
    OBVIOUS
  <2>3. \A j \in 2 .. k - 1 : j <= Len(l) /\ j <= Len(m) /\ l[j] = m[j]
    <3>1. \A j \in 2 .. k - 1 : j \in Nat /\ 2 <= j /\ ~(k <= j) /\ (j <= Len(l) \/ j <= Len(m))
      BY <1>1, <2>2
    <3>2. \A j \in 2 .. k - 1 : j \notin Parts
      <4> HIDE DEF Parts
      <4>1. QED
        BY <2>1, <3>1
    <3>3. QED
      BY <3>1, <3>2
  <2> HIDE DEF Parts
  <2>4. CASE k <= Len(l)
    <3>1. k \in 2 .. Len(l)
      BY <1>1, <2>2, <2>4
    <3>2. k <= Len(m) /\ Slot(t, m[k].id) < Slot(t, l[k].id)
      BY <2>2, <2>3, <3>1, WherePart
    <3>3. k \in 2 .. Len(m)
      BY <1>1, <2>2, <3>2
    <3>4. Slot(t, l[k].id) < Slot(t, m[k].id)
      BY <2>2, <2>3, <3>3, WherePart
    <3>5. Slot(t, l[k].id) \in Nat /\ Slot(t, m[k].id) \in Nat
      BY <3>1, <3>3 DEF InOrder
    <3>6. QED
      BY <3>2, <3>4, <3>5
  <2>5. CASE ~(k <= Len(l))
    <3>1. k \in 2 .. Len(m)
      BY <1>1, <2>2, <2>5
    <3>2. QED
      BY <2>2, <2>3, <2>5, <3>1, WherePart
  <2>6. QED
    BY <2>4, <2>5
<1>3. Len(l) = Len(m)
  <2>1. Len(l) # Len(m) => \E k \in {Len(l), Len(m)} : k \in Parts
    BY <1>1
  <2>2. QED
    BY <1>2, <2>1
<1>4. \A k \in 1 .. Len(l) : l[k] = m[k]
  <2> SUFFICES ASSUME NEW k \in 1 .. Len(l), k # 1 PROVE l[k] = m[k]
    OBVIOUS
  <2>1. k \in Nat /\ 2 <= k /\ k <= Len(l) /\ k <= Len(m)
    BY <1>1, <1>3
  <2>2. k \notin Parts
    BY <1>2
  <2>3. QED
    BY <2>1, <2>2
<1>5. QED
  BY <1>1, <1>3, <1>4

(* No two beacons on their way stand for the same one.                     *)
LEMMA Injective ==
    ASSUME IInv, NEW b \in air, NEW c \in air, Image(b) = Image(c)
    PROVE  b = c
<1>1. /\ b.src = c.src /\ b.dst = c.dst /\ b.status = c.status /\ Heard(b) = Heard(c)
  BY DEF Image
<1>2. BeaconOK(b) /\ BeaconOK(c)
  BY DEF IInv
<1>3. ASSUME NEW d \in air PROVE InOrder(d.neigh, table[d.src])
  <2>1. BeaconOK(d) /\ d.src \in Node
    BY OnAirFacts DEF IInv
  <2>2. table[d.src] \in Seq(Item) /\ Len(table[d.src]) \in Nat
    BY <2>1, TableFacts, EntryIsItem DEF TableFor
  <2>3. \A k \in 2 .. Len(d.neigh) : Slot(table[d.src], d.neigh[k].id) \in Nat
    BY <2>2, SlotOf
  <2>4. QED
    BY <2>1, <2>3 DEF BeaconOK, InOrder
<1>4. b.neigh = c.neigh
  <2>1. Behind(b.neigh) = Behind(c.neigh)
    BY <1>1 DEF Behind, Heard
  <2>2. b.neigh[1] = c.neigh[1]
    BY <1>1, <1>2 DEF BeaconOK
  <2>3. InOrder(b.neigh, table[b.src]) /\ InOrder(c.neigh, table[b.src])
    BY <1>1, <1>3
  <2>4. QED
    BY <2>1, <2>2, <2>3, SameList
<1>5. QED
  BY <1>1, <1>2, <1>4 DEF BeaconOK

(* A beacon that goes off the air goes off it in the neighbours'          *)
(* protocol.                                                              *)
LEMMA OneGone ==
    ASSUME IInv, NEW b \in air, air' = air \ {b}
    PROVE  {Image(c) : c \in air}' = {Image(c) : c \in air} \ {Image(b)}
<1>1. \A c \in air : c # b => Image(c) # Image(b)
  BY Injective
<1>2. {Image(c) : c \in air}' = {Image(c) : c \in air'}
  BY DEF Image, Heard
<1>3. QED
  BY <1>1, <1>2

(* What a sender has in the air is no more there than here.               *)
LEMMA RoomFor ==
    ASSUME IInv, NEW n \in Node, Timer(n), NEW m \in Node
    PROVE  Cardinality({x \in {Image(c) : c \in air} : x.src = n /\ x.dst = m}) < LinkDepth
<1> DEFINE X == {x \in {Image(c) : c \in air} : x.src = n /\ x.dst = m}
           f == [c \in OnAir(n, m) |-> Image(c)]
<1>1. IsFiniteSet(OnAir(n, m))
  <2>1. OnAir(n, m) \subseteq air /\ IsFiniteSet(air)
    BY DEF OnAir, IInv
  <2>2. QED
    BY <2>1, FS_Subset
<1>2. f \in Surjection(OnAir(n, m), X)
  <2>1. f \in [OnAir(n, m) -> X]
    BY DEF OnAir, Image
  <2>2. \A x \in X : \E c \in OnAir(n, m) : f[c] = x
    BY DEF OnAir, Image
  <2> HIDE DEF f, X
  <2>3. QED
    BY <2>1, <2>2 DEF Surjection
<1>3. IsFiniteSet(X) /\ Cardinality(X) <= Cardinality(OnAir(n, m))
  <2> HIDE DEF f, X
  <2>1. QED
    BY <1>1, <1>2, FS_Surjection
<1>4. Cardinality(X) \in Nat /\ Cardinality(OnAir(n, m)) \in Nat /\ LinkDepth \in Nat
  BY <1>1, <1>3, FS_CardinalityType, SizeAssumption
<1>5. Cardinality(OnAir(n, m)) < LinkDepth
  <2>1. CASE m \in Hearers(n)
    BY <2>1 DEF Timer
  <2>2. CASE m \notin Hearers(n)
    <3>1. OnAir(n, m) = {}
      BY <2>2 DEF OnAir, Hearers, IInv, TypeOK
    <3>2. Cardinality(OnAir(n, m)) = 0
      BY <3>1, FS_EmptySet
    <3>3. QED
      BY <3>2, SizeAssumption
  <2>3. QED
    BY <2>1, <2>2
<1>6. QED
  <2> HIDE DEF X
  <2>1. Cardinality(X) < LinkDepth
    BY <1>3, <1>4, <1>5
  <2>2. QED
    BY <2>1 DEF X

AbsStratum == [n \in Node |-> [m \in Node |-> StratumIn(n, m)]]
AbsAir == {Image(b) : b \in air}

(* The first state is one of the neighbours' protocol.                    *)
LEMMA InitMaps == Init => Abstract!Init
<1> SUFFICES ASSUME Init PROVE Abstract!Init
  OBVIOUS
<1>1. \A n, m \in Node : StratumIn(n, m) = 0
  BY DEF Init, StratumIn, Slot, SelectInSeq
<1>2. QED
  BY <1>1 DEF Init, Abstract!Init, Abstract!Root, Abstract!Awake, Abstract!Asleep, Abstract!Unknown

(* Neighbours counts with its own instance of Cardinality.                 *)
LEMMA SameCardinality == ASSUME NEW S PROVE Abstract!Cardinality(S) = Cardinality(S)
BY Zenon DEF Abstract!Cardinality, Cardinality

(* node_timer is a Send of the neighbours' protocol.                      *)
LEMMA TimerMaps ==
    ASSUME IInv, NEW n \in Node, Timer(n)
    PROVE  Abstract!Next
<1> DEFINE wakes == status[n] = "WAKING" /\ rested[n]
           now   == IF wakes THEN "AWAKE" ELSE status[n]
           t     == table[n]
           l     == BeaconEntries(n, t)
           heard == Behind(l)
<1>1. /\ status' = [status EXCEPT ![n] = now]
      /\ air' = air \union Sent(n, now)
      /\ table' = table
      /\ timers[n] > 0
  BY DEF Timer, Sent, TimersStarted
<1>2. /\ status[n] \in {"WAKING", "AWAKE", "ROOT"} /\ now \in Abstract!Status
      /\ now = status[n] \/ (status[n] = "WAKING" /\ now = "AWAKE")
  <2>1. status[n] # "ASLEEP"
    BY <1>1, StatusFacts
  <2>2. QED
    BY <2>1, StatusFacts DEF Abstract!Status, Abstract!Asleep, Abstract!Waking, Abstract!Awake, Abstract!Root
<1>3. ListFor(n, t, l, Len(t)) /\ Len(t) \in Nat
  BY TableFacts, BeaconFacts
<1>4. heard \in SUBSET Abstract!Listed(n)
  <2> HIDE DEF l
  <2>1. ASSUME NEW k \in 2 .. Len(l) PROVE l[k] \in Abstract!Listed(n)
    <3>1. /\ l[k] \in Entry /\ Advertised(l[k])
          /\ Slot(t, l[k].id) # 0 /\ t[Slot(t, l[k].id)] = l[k]
      BY <1>3 DEF ListFor
    <3>2. l[k] \in Abstract!Neigh
      BY <3>1, Strata DEF Entry, Advertised, MaxStrat, Abstract!Neigh, Abstract!Told
    <3>3. l[k].id \in Node /\ StratumIn(n, l[k].id) = l[k].stratum
      BY <3>1 DEF Entry, StratumIn
    <3>4. QED
      BY <3>2, <3>3 DEF Abstract!Listed
  <2>2. QED
    BY <2>1 DEF Behind
<1> HIDE DEF l
<1>5. {Image(c) : c \in Sent(n, now)} =
        {[src |-> n, dst |-> k[2], status |-> now, heard |-> heard] : k \in {j \in Link : j[1] = n}}
  <2> HIDE DEF now, heard, t
  <2> DEFINE Img(m) == [src |-> n, dst |-> m, status |-> now, heard |-> heard]
  <2>1. \A c \in Sent(n, now) : \E m \in Hearers(n) : Image(c) = Img(m)
    <3>1. ASSUME NEW m \in Hearers(n), NEW c, c = [src |-> n, dst |-> m, status |-> now, neigh |-> l]
          PROVE  Image(c) = Img(m)
      <4>1. c.src = n /\ c.dst = m /\ c.status = now /\ c.neigh = l
        BY <3>1
      <4>2. QED
        BY <4>1 DEF Image, Heard, heard, Behind
    <3>2. QED
      BY <3>1 DEF Sent, l, t
  <2>2. \A m \in Hearers(n) : \E c \in Sent(n, now) : Image(c) = Img(m)
    <3>1. ASSUME NEW m \in Hearers(n)
          PROVE  Image([src |-> n, dst |-> m, status |-> now, neigh |-> l]) = Img(m)
      BY DEF Image, Heard, heard, Behind
    <3>2. QED
      BY <3>1 DEF Sent, l, t
  <2>3. \A m : m \in Hearers(n) <=> \E k \in {j \in Link : j[1] = n} : k[2] = m
    BY LinkAssumption DEF Hearers
  <2>4. {Image(c) : c \in Sent(n, now)} = {Img(m) : m \in Hearers(n)}
    BY <2>1, <2>2
  <2>5. {Img(m) : m \in Hearers(n)} = {Img(k[2]) : k \in {j \in Link : j[1] = n}}
    <3> HIDE DEF Img
    <3>1. QED
      BY <2>3
  <2>6. QED
    BY <2>4, <2>5
<1>6. AbsAir' = AbsAir \union {Image(c) : c \in Sent(n, now)}
  <2>1. AbsAir' = {Image(c) : c \in air'}
    BY DEF AbsAir, Image, Heard
  <2> HIDE DEF now
  <2>2. QED
    BY <1>1, <2>1 DEF AbsAir
<1>7. AbsStratum' = AbsStratum
  BY <1>1 DEF AbsStratum, StratumIn
<1>8. \A m \in Node : Abstract!HasRoom(n, m)
  <2> SUFFICES ASSUME NEW m \in Node PROVE Abstract!HasRoom(n, m)
    OBVIOUS
  <2>1. Cardinality({x \in {Image(c) : c \in air} : x.src = n /\ x.dst = m}) < LinkDepth
    BY RoomFor
  <2> DEFINE X == {x \in {[src |-> b.src, dst |-> b.dst, status |-> b.status,
                           heard |-> Heard(b)] : b \in air} : x.src = n /\ x.dst = m}
  <2>2. Cardinality(X) < LinkDepth
    BY <2>1 DEF Image
  <2>3. Abstract!Cardinality(X) < LinkDepth
    <3> HIDE DEF X
    <3>1. QED
      BY <2>2, SameCardinality
  <2>4. QED
    BY <2>3 DEF Abstract!HasRoom
<1>9. PICK s \in Abstract!Status, h \in SUBSET Abstract!Listed(n) : s = now /\ h = heard
  BY <1>2, <1>4
<1>10. Abstract!Send(n, s, h)
  <2> HIDE DEF now, heard
  <2>1. AbsAir' = AbsAir \union {[src |-> n, dst |-> k[2], status |-> s, heard |-> h] :
                                    k \in {j \in Link : j[1] = n}}
    BY <1>5, <1>6, <1>9
  <2>2. QED
    BY <1>1, <1>2, <1>7, <1>8, <1>9, <2>1
    DEF Abstract!Send, AbsAir, AbsStratum, Image, Abstract!Asleep, Abstract!Waking, Abstract!Awake
<1>11. QED
  BY <1>10, Zenon DEF Abstract!Next

(* A hearer is listed, or not, in a beacon and in what it stands for.      *)
LEMMA SameSeen ==
    ASSUME IInv, NEW b \in air
    PROVE  Abstract!SeenSelf(Image(b)) <=> SeenSelf(b.dst, b.neigh)
<1> DEFINE l == b.neigh
           x == Image(b)
<1>1. /\ x.dst = b.dst /\ x.heard = {l[k] : k \in 2 .. Len(l)}
      /\ Len(l) \in Nat /\ Len(l) >= 1 /\ DOMAIN l = 1 .. Len(l) /\ l[1].stratum = 0
  <2>1. l[1] = [id |-> b.src, stratum |-> 0] /\ Len(l) \in Nat /\ Len(l) >= 1 /\ l \in Seq(Item)
    BY OnAirFacts DEF BeaconFor
  <2>2. QED
    BY <2>1 DEF Image, Heard
<1> HIDE DEF x, l
<1>2. Abstract!SeenSelf(x) <=> \E k \in 2 .. Len(l) : l[k].id = b.dst /\ l[k].stratum \in {1, StratumInf}
  BY <1>1, Strata DEF Abstract!SeenSelf
<1>3. SeenSelf(b.dst, l) <=> \E k \in 2 .. Len(l) : l[k].id = b.dst /\ l[k].stratum \in {1, StratumInf}
  <2>1. \A k \in 1 .. Len(l) : k = 1 \/ k \in 2 .. Len(l)
    BY <1>1
  <2>2. \A k \in 2 .. Len(l) : k \in 1 .. Len(l)
    BY <1>1
  <2>3. l[1].stratum \notin {1, StratumInf}
    BY <1>1, Strata
  <2>4. QED
    BY <1>1, <2>1, <2>2, <2>3 DEF SeenSelf
<1>4. QED
  BY <1>2, <1>3 DEF x, l

(* What a beacon offers its hearer of m.                                   *)
LEMMA OffersAre ==
    ASSUME IInv, NEW b \in air, NEW m \in Node
    PROVE  LET l == b.neigh
               O == Abstract!Offers(Image(b), m)
           IN  /\ ~SeenSelf(b.dst, l) => O = IF m = b.src THEN {StratumInf} ELSE {}
               /\ SeenSelf(b.dst, l) =>
                     /\ (\A k \in 1 .. Len(l) : Teaches(b.dst, l[k]) => l[k].id # m) => O = {}
                     /\ \A k \in 1 .. Len(l) :
                           Teaches(b.dst, l[k]) /\ l[k].id = m => O = {l[k].stratum + 1}
<1> DEFINE l == b.neigh
           x == Image(b)
           O == Abstract!Offers(x, m)
<1>1. /\ x.src = b.src /\ x.dst = b.dst /\ x.heard = {l[k] : k \in 2 .. Len(l)}
      /\ Len(l) \in Nat /\ Len(l) >= 1 /\ DOMAIN l = 1 .. Len(l)
      /\ l[1].stratum = 0 /\ l[1].id = b.src /\ b.src # b.dst /\ ListsOnce(l)
      /\ \A k \in 2 .. Len(l) : l[k].id # b.src
  <2>1. /\ l[1] = [id |-> b.src, stratum |-> 0] /\ Len(l) \in Nat /\ Len(l) >= 1 /\ l \in Seq(Item)
        /\ b.src # b.dst /\ ListsOnce(l) /\ \A k \in 2 .. Len(l) : l[k].id # b.src
    BY OnAirFacts DEF BeaconFor
  <2>2. QED
    BY <2>1 DEF Image, Heard
<1>2. Abstract!SeenSelf(x) <=> SeenSelf(b.dst, l)
  BY SameSeen
<1> HIDE DEF x, l
<1>3. CASE ~SeenSelf(b.dst, l)
  <2>1. O = {10 : k \in {b.src} \intersect {m}}
    BY <1>1, <1>2, <1>3, Strata DEF Abstract!Offers
  <2>2. O = IF m = b.src THEN {StratumInf} ELSE {}
    <3> HIDE DEF O
    <3>1. QED
      BY <2>1, Strata
  <2>3. QED
    BY <1>3, <2>2 DEF x, l
<1>4. CASE SeenSelf(b.dst, l)
  <2>1. O = {1 : k \in {b.src} \intersect {m}} \union
            {e.stratum + 1 : e \in {f \in x.heard : /\ f.id = m /\ f.id # b.dst
                                                    /\ f.id # b.src /\ f.stratum # 10}}
    BY <1>1, <1>2, <1>4, Strata DEF Abstract!Offers
  <2> HIDE DEF O
  <2>2. \A k \in 1 .. Len(l) : k = 1 \/ k \in 2 .. Len(l)
    BY <1>1
  <2>3. \A k \in 2 .. Len(l) : k \in 1 .. Len(l)
    BY <1>1
  <2>4. 1 \in 1 .. Len(l) /\ Teaches(b.dst, l[1])
    BY <1>1, Strata DEF Teaches
  <2>5. ASSUME \A k \in 1 .. Len(l) : Teaches(b.dst, l[k]) => l[k].id # m
        PROVE  O = {}
    <3>1. m # b.src
      BY <1>1, <2>4, <2>5
    <3>2. \A f \in x.heard : ~(f.id = m /\ f.id # b.dst /\ f.id # b.src /\ f.stratum # 10)
      BY <1>1, <2>3, <2>5, Strata DEF Teaches
    <3>3. QED
      BY <2>1, <3>1, <3>2
  <2>6. ASSUME NEW k \in 1 .. Len(l), Teaches(b.dst, l[k]), l[k].id = m
        PROVE  O = {l[k].stratum + 1}
    <3>1. CASE k = 1
      <4>1. m = b.src /\ l[k].stratum + 1 = 1
        BY <1>1, <2>6, <3>1
      <4>2. QED
        BY <2>1, <4>1
    <3>2. CASE k # 1
      <4>1. k \in 2 .. Len(l) /\ m # b.src
        BY <1>1, <2>2, <2>6, <3>2
      <4>2. \A j \in 2 .. Len(l) : l[j].id = m => j = k
        BY <1>1, <2>3, <2>6, <4>1 DEF ListsOnce
      <4>3. {f \in x.heard : f.id = m /\ f.id # b.dst /\ f.id # b.src /\ f.stratum # 10} = {l[k]}
        BY <1>1, <2>6, <4>1, <4>2, Strata DEF Teaches
      <4>4. QED
        BY <2>1, <4>1, <4>3
    <3>3. QED
      BY <3>1, <3>2
  <2>7. QED
    BY <1>4, <2>5, <2>6 DEF x, l, O
<1>5. QED
  BY <1>3, <1>4

(* A received beacon changes its hearer's table as the neighbours'         *)
(* protocol has it.                                                        *)
LEMMA SameUpdate ==
    ASSUME IInv, NEW b \in air, NEW m \in Node
    PROVE  StratumOf(Recorded(b.dst, table[b.dst], b.neigh), m) =
              IF Abstract!Offers(Image(b), m) = {} THEN StratumOf(table[b.dst], m)
              ELSE Abstract!Merge(StratumOf(table[b.dst], m),
                                  CHOOSE s \in Abstract!Offers(Image(b), m) : TRUE)
<1> DEFINE n == b.dst
           l == b.neigh
           t == table[b.dst]
           O == Abstract!Offers(Image(b), m)
<1>1. /\ n \in Node /\ b.src \in Node /\ b.src # n /\ BeaconFor(n, l)
      /\ l[1].id = b.src /\ t \in Tables(n) /\ TableFor(n, t)
  <2>1. l[1] = [id |-> b.src, stratum |-> 0] /\ n \in Node /\ b.src \in Node /\ b.src # n /\ BeaconFor(n, l)
    BY OnAirFacts
  <2>2. t \in Tables(n) /\ TableFor(n, t)
    BY <2>1, TableFacts
  <2>3. QED
    BY <2>1, <2>2
<1>2. \A v : (CHOOSE s \in {v} : TRUE) = v
  OBVIOUS
<1>3. /\ ~SeenSelf(n, l) => O = IF m = b.src THEN {StratumInf} ELSE {}
      /\ SeenSelf(n, l) =>
            /\ (\A k \in 1 .. Len(l) : Teaches(n, l[k]) => l[k].id # m) => O = {}
            /\ \A k \in 1 .. Len(l) : Teaches(n, l[k]) /\ l[k].id = m => O = {l[k].stratum + 1}
  BY OffersAre
<1> HIDE DEF n, l, t, O
<1>4. CASE ~SeenSelf(n, l)
  <2>1. HeardOnly(l) \in Entry /\ HeardOnly(l) = [id |-> b.src, stratum |-> StratumInf]
    BY <1>1 DEF HeardOnly, Entry
  <2>2. Recorded(n, t, l) = Inserted(t, HeardOnly(l))
    BY <1>4 DEF Recorded
  <2>3. StratumOf(Recorded(n, t, l), m) =
          IF m = b.src THEN Abstract!Merge(StratumOf(t, m), StratumInf) ELSE StratumOf(t, m)
    BY <1>1, <2>1, <2>2, InsertedFacts
  <2>4. CASE m = b.src
    <3>1. O = {StratumInf}
      BY <1>3, <1>4, <2>4
    <3>2. QED
      BY <1>2, <2>3, <2>4, <3>1 DEF n, l, t, O
  <2>5. CASE m # b.src
    BY <1>3, <1>4, <2>3, <2>5 DEF n, l, t, O
  <2>6. QED
    BY <2>4, <2>5
<1>5. CASE SeenSelf(n, l)
  <2> DEFINE u == Recorded(n, t, l)
  <2>1. /\ (\A k \in 1 .. Len(l) : Teaches(n, l[k]) => l[k].id # m) =>
              StratumOf(u, m) = StratumOf(t, m)
        /\ \A k \in 1 .. Len(l) : (Teaches(n, l[k]) /\ l[k].id = m) =>
              StratumOf(u, m) = Abstract!Merge(StratumOf(t, m), l[k].stratum + 1)
    BY <1>1, <1>5, TaughtFacts
  <2> HIDE DEF u
  <2>2. CASE \A k \in 1 .. Len(l) : Teaches(n, l[k]) => l[k].id # m
    <3>1. StratumOf(u, m) = StratumOf(t, m) /\ O = {}
      BY <1>3, <1>5, <2>1, <2>2
    <3>2. QED
      BY <3>1 DEF u, n, l, t, O
  <2>3. CASE \E k \in 1 .. Len(l) : Teaches(n, l[k]) /\ l[k].id = m
    <3>1. PICK k \in 1 .. Len(l) : Teaches(n, l[k]) /\ l[k].id = m
      BY <2>3
    <3>2. StratumOf(u, m) = Abstract!Merge(StratumOf(t, m), l[k].stratum + 1)
      BY <2>1, <3>1
    <3>3. O = {l[k].stratum + 1}
      BY <1>3, <1>5, <3>1
    <3>4. QED
      BY <1>2, <3>2, <3>3 DEF u, n, l, t, O
  <2>4. QED
    BY <2>2, <2>3
<1>6. QED
  BY <1>4, <1>5

(* node_receive_beacon is a Receive of the neighbours' protocol, or       *)
(* nothing when the assert ends the program.                              *)
LEMMA ReceiveMaps ==
    ASSUME IInv, NEW b \in air, Receive(b)
    PROVE  Abstract!Next \/ UNCHANGED Abstract!vars
<1> DEFINE n == b.dst
           new == Recorded(n, table[n], b.neigh)
<1>1. /\ n \in Node /\ DOMAIN table = Node /\ b \in air
      /\ status \in [Node -> {"ASLEEP", "WAKING", "AWAKE", "ROOT"}]
  BY OnAirFacts, StatusFacts DEF IInv
<1>2. CASE failed'
  <2>1. UNCHANGED <<status, table, air>>
    BY <1>2 DEF Receive
  <2>2. AbsAir' = AbsAir /\ AbsStratum' = AbsStratum /\ status' = status
    BY <2>1 DEF AbsAir, AbsStratum, StratumIn, Image, Heard
  <2>3. QED
    BY <2>2 DEF AbsAir, AbsStratum, Image, Abstract!vars
<1>3. CASE ~failed'
  <2>1. /\ status' = [status EXCEPT ![n] = IF status[n] = "ASLEEP" THEN "WAKING" ELSE @]
        /\ table' = [table EXCEPT ![n] = new]
        /\ air' = air \ {b} /\ ~Ignored(status[n], b.status)
    BY <1>3 DEF Receive
  <2>2. PICK x \in AbsAir : x = Image(b)
    BY <1>1 DEF AbsAir
  <2>3. x.src = b.src /\ x.dst = n /\ x.status = b.status
    BY <2>2 DEF Image
  <2> HIDE DEF n, new
  <2>4. AbsAir' = AbsAir \ {x}
    BY <2>1, <2>2, OneGone DEF AbsAir
  <2>5. ~Abstract!Ignored(x)
    BY <2>1, <2>3 DEF Ignored, Abstract!Ignored, Abstract!Asleep, Abstract!Waking
  <2>6. AbsStratum' = [AbsStratum EXCEPT ![n] = Abstract!Updated(x)]
    <3>1. ASSUME NEW m \in Node PROVE Abstract!Updated(x)[m] = StratumOf(new, m)
      <4>1. AbsStratum[n][m] = StratumOf(table[n], m)
        BY <1>1 DEF AbsStratum, StratumIn, StratumOf
      <4>2. Abstract!Updated(x)[m] = IF Abstract!Offers(x, m) = {} THEN AbsStratum[n][m]
                 ELSE Abstract!Merge(AbsStratum[n][m], CHOOSE s \in Abstract!Offers(x, m) : TRUE)
        BY <2>3 DEF Abstract!Updated, AbsStratum
      <4>3. QED
        BY <2>2, <4>1, <4>2, SameUpdate DEF n, new
    <3>2. Abstract!Updated(x) = [m \in Node |-> StratumOf(new, m)]
      BY <3>1 DEF Abstract!Updated
    <3>3. ASSUME NEW k \in Node, NEW m \in Node
          PROVE  StratumIn(k, m)' = IF k = n THEN StratumOf(new, m) ELSE StratumIn(k, m)
      BY <1>1, <2>1 DEF StratumIn, StratumOf
    <3>4. QED
      BY <1>1, <3>2, <3>3 DEF AbsStratum
  <2>7. Abstract!Receive(x)
    BY <2>1, <2>3, <2>4, <2>5, <2>6
    DEF Abstract!Receive, AbsAir, AbsStratum, Image, Abstract!Asleep, Abstract!Waking
  <2>8. QED
    BY <2>2, <2>7 DEF Abstract!Next, AbsAir, Image
<1>4. QED
  BY <1>2, <1>3

(* The beacons that are ignored or lost are so in the neighbours' protocol.*)
LEMMA OffAirMaps ==
    ASSUME IInv, NEW b \in air, Ignore(b) \/ Lose(b)
    PROVE  Abstract!Next
<1>1. air' = air \ {b} /\ status' = status /\ table' = table
  BY DEF Ignore, Lose
<1>2. PICK x \in AbsAir : x = Image(b)
  BY DEF AbsAir
<1>3. AbsAir' = AbsAir \ {x} /\ AbsStratum' = AbsStratum
  BY <1>1, <1>2, OneGone DEF AbsAir, AbsStratum, StratumIn
<1>4. CASE Ignore(b)
  <2>1. Abstract!Ignored(x)
    BY <1>2, <1>4 DEF Ignore, Ignored, Image, Abstract!Ignored, Abstract!Asleep, Abstract!Waking
  <2>2. Abstract!Ignore(x)
    BY <1>1, <1>2, <1>3, <2>1 DEF Abstract!Ignore, AbsAir, AbsStratum, Image
  <2>3. QED
    BY <1>2, <2>2 DEF Abstract!Next, AbsAir, Image
<1>5. CASE Lose(b)
  <2>1. Abstract!Lose(x)
    BY <1>1, <1>2, <1>3, <1>5 DEF Lose, Abstract!Lose, AbsAir, AbsStratum, Image
  <2>2. QED
    BY <1>2, <2>1 DEF Abstract!Next, AbsAir, Image
<1>6. QED
  BY <1>4, <1>5

(* The protocol with its tables, timers and packets takes only steps of   *)
(* Neighbours, whatever its sizes are.                                    *)
THEOREM Implementation == Spec => ImplementsNeighbours
<1>1. ASSUME IInv, [Next]_vars
      PROVE  [Abstract!Next]_Abstract!vars
  <2>1. ASSUME UNCHANGED <<status, table, air>> PROVE UNCHANGED Abstract!vars
    BY <2>1 DEF StratumIn, Heard, Abstract!vars
  <2>2. CASE UNCHANGED vars
    BY <2>1, <2>2 DEF vars
  <2>3. ASSUME NEW n \in Node, Timer(n) PROVE Abstract!Next
    BY <1>1, <2>3, TimerMaps
  <2>4. ASSUME NEW n \in Node, Rest(n) PROVE UNCHANGED Abstract!vars
    BY <2>1, <2>4 DEF Rest
  <2>5. ASSUME NEW b \in air, Receive(b) PROVE Abstract!Next \/ UNCHANGED Abstract!vars
    BY <1>1, <2>5, ReceiveMaps
  <2>6. ASSUME NEW b \in air, Ignore(b) \/ Lose(b) PROVE Abstract!Next
    BY <1>1, <2>6, OffAirMaps
  <2>7. QED
    BY <1>1, <2>2, <2>3, <2>4, <2>5, <2>6 DEF Next
<1>2. QED
  BY InitMaps, Invariance, <1>1, PTL DEF Spec, ImplementsNeighbours, Abstract!Spec

P == INSTANCE NeighboursProofs WITH
    stratum <- [n \in Node |-> [m \in Node |-> StratumIn(n, m)]],
    air <- {[src |-> b.src, dst |-> b.dst, status |-> b.status,
             heard |-> Heard(b)] : b \in air}

(* The protocol that NeighboursProofs is about is the one Mesh            *)
(* implements.                                                            *)
LEMMA SameModule ==
    /\ P!Init <=> Abstract!Init
    /\ P!Next <=> Abstract!Next
    /\ P!PromisesKept <=> Abstract!PromisesKept
    /\ P!HeardUs <=> Abstract!HeardUs
    /\ P!WokenByAwake <=> Abstract!WokenByAwake
    /\ UNCHANGED P!vars <=> UNCHANGED Abstract!vars
<1>1. P!Init <=> Abstract!Init
  BY Zenon DEF P!Init, Abstract!Init, P!Root, P!Awake, P!Asleep, P!Unknown,
               Abstract!Root, Abstract!Awake, Abstract!Asleep, Abstract!Unknown
<1>2. ASSUME NEW n, NEW m PROVE P!HasRoom(n, m) <=> Abstract!HasRoom(n, m)
  BY Zenon DEF P!HasRoom, P!Cardinality, Abstract!HasRoom, Abstract!Cardinality
<1>3. ASSUME NEW n, NEW s, NEW heard PROVE P!Send(n, s, heard) <=> Abstract!Send(n, s, heard)
  BY <1>2, Zenon DEF P!Send, P!Asleep, P!Waking, P!Awake,
           Abstract!Send, Abstract!Asleep, Abstract!Waking, Abstract!Awake
<1>4. ASSUME NEW b PROVE P!Ignored(b) <=> Abstract!Ignored(b)
  BY Zenon DEF P!Ignored, Abstract!Ignored, P!Asleep, Abstract!Asleep, P!Waking, Abstract!Waking
<1>5. ASSUME NEW b PROVE P!Updated(b) = Abstract!Updated(b)
  BY Zenon DEF P!Updated, P!Offers, P!SeenSelf, P!Merge, P!Inf, P!Unknown,
               Abstract!Updated, Abstract!Offers, Abstract!SeenSelf, Abstract!Merge,
               Abstract!Inf, Abstract!Unknown
<1>6. ASSUME NEW b
      PROVE  /\ P!Receive(b) <=> Abstract!Receive(b)
             /\ P!Ignore(b) <=> Abstract!Ignore(b)
             /\ P!Lose(b) <=> Abstract!Lose(b)
  BY <1>4, <1>5 DEF P!Receive, P!Ignore, P!Lose, P!Asleep, P!Waking,
           Abstract!Receive, Abstract!Ignore, Abstract!Lose, Abstract!Asleep, Abstract!Waking
<1>7. P!Status = Abstract!Status /\ \A n : P!Listed(n) = Abstract!Listed(n)
  BY Zenon DEF P!Status, P!Asleep, P!Waking, P!Awake, P!Root, P!Listed, P!Neigh, P!Told, P!Inf,
      Abstract!Status, Abstract!Asleep, Abstract!Waking, Abstract!Awake, Abstract!Root,
      Abstract!Listed, Abstract!Neigh, Abstract!Told, Abstract!Inf
<1>8. P!Next <=> Abstract!Next
  BY <1>3, <1>6, <1>7, Zenon DEF P!Next, Abstract!Next
<1>9. P!WokenByAwake <=> Abstract!WokenByAwake
  BY DEF P!WokenByAwake, Abstract!WokenByAwake, P!Waking, Abstract!Waking, P!Awake, Abstract!Awake,
         P!Root, Abstract!Root
<1>10. QED
  BY <1>1, <1>8, <1>9 DEF P!HeardUs, Abstract!HeardUs, P!Unknown, Abstract!Unknown,
         P!PromisesKept, Abstract!PromisesKept, P!Promise, Abstract!Promise,
         P!Both, Abstract!Both, P!Inf, Abstract!Inf, P!vars, Abstract!vars

(* What is proved of it there holds of Mesh.                              *)
LEMMA ImplementsProved == Spec => P!Spec
BY Implementation, SameModule, PTL DEF ImplementsNeighbours, Abstract!Spec, P!Spec

(* Every entry of every table keeps its promise about the links.          *)
THEOREM Promises == Spec => []PromisesKept
<1>1. P!Spec => []P!PromisesKept
  BY P!BidirectionalNeighbours, LinkAssumption, RootsAssumption
<1>2. P!PromisesKept => PromisesKept
  BY SameModule DEF PromisesKept
<1>3. QED
  BY ImplementsProved, <1>1, <1>2, PTL

(* Behind a node that woke there is one it hears that is awake.            *)
THEOREM Awakening == Spec => []Abstract!WokenByAwake
<1>1. P!Spec => []P!WokenByAwake
  BY P!Awakening, LinkAssumption, RootsAssumption
<1>2. QED
  BY ImplementsProved, <1>1, SameModule, PTL

(* Who is listed as a neighbour has heard the node that lists it.          *)
THEOREM HeardBack == Spec => []Abstract!HeardUs
<1>1. P!Spec => []P!HeardUs
  BY P!HeardBack, LinkAssumption, RootsAssumption
<1>2. QED
  BY ImplementsProved, <1>1, SameModule, PTL
=============================================================================
