--------------------------- MODULE BeaconsProofs ---------------------------
(***************************************************************************)
(* Proofs that every execution of Beacons, on any set of nodes and links,  *)
(* with and without threads, has the properties that beacons.cfg checks.   *)
(*                                                                         *)
(* IInv is inductive.  It says what a table and a beacon on its way look   *)
(* like; the recursive functions that stand for the loops of               *)
(* beacon_prepare and beacon_recv keep that turn by turn (LoopRuns).        *)
(***************************************************************************)
EXTENDS Beacons, FiniteSetTheorems, TLAPS

-----------------------------------------------------------------------------
(***************************************************************************)
(* Numbers and loops.  A least counterexample takes the place of an        *)
(* induction.                                                              *)
(***************************************************************************)

(* Some well-founded relation has all that is less.                        *)
LEMMA LessIsWellFounded ==
    \E R : /\ IsWellFoundedOn(R, Nat)
           /\ \A x, y \in Nat : x < y => <<x, y>> \in R
<1> DEFINE R == OpToRel(<, Nat)
<1>1. IsWellFoundedOn(R, Nat)
  BY NatLessThanWellFounded
<1>2. \A x, y \in Nat : x < y => <<x, y>> \in R
  BY Zenon DEF OpToRel
<1> QED
  BY <1>1, <1>2, Zenon

(* A set of numbers has a minimal element under such a relation.           *)
LEMMA MinimalElement ==
    ASSUME NEW R, IsWellFoundedOn(R, Nat), NEW S, S \subseteq Nat, S # {}
    PROVE  \E m \in S : \A n \in S : ~ (<<n, m>> \in R)
BY WFMin, Zenon

(* Every non-empty set of natural numbers has a least element.             *)
LEMMA LeastNat ==
    ASSUME NEW S, S \subseteq Nat, S # {}
    PROVE  \E m \in S : \A n \in S : m <= n
<1>1. PICK R : /\ IsWellFoundedOn(R, Nat)
               /\ \A x, y \in Nat : x < y => <<x, y>> \in R
  BY LessIsWellFounded
<1>2. PICK m \in S : \A n \in S : ~ (<<n, m>> \in R)
  BY <1>1, MinimalElement, Zenon
<1>3. \A x, y \in Nat : x < y => <<x, y>> \in R
  BY <1>1
<1>4. \A n \in S : ~ (n < m)
  BY <1>2, <1>3, Zenon
<1> QED
  BY <1>2, <1>4, SMT

(***************************************************************************)
(* Induction up to n, for the set of numbers that have the property.       *)
(***************************************************************************)
LEMMA Upwards ==
    ASSUME NEW n \in Nat, NEW S, 0 \in S, \A k \in 1 .. n : k - 1 \in S => k \in S
    PROVE  0 .. n \subseteq S
<1> DEFINE Fails == {m \in 0 .. n : m \notin S}
<1> SUFFICES ASSUME Fails # {} PROVE FALSE
  OBVIOUS
<1>1. PICK m \in Fails : \A k \in Fails : m <= k
  <2>1. Fails \subseteq Nat
    OBVIOUS
  <2> HIDE DEF Fails
  <2>2. QED
    BY <2>1, LeastNat
<1>2. m \in 1 .. n /\ m - 1 \in 0 .. n /\ ~(m <= m - 1) /\ m \notin S
  OBVIOUS
<1>3. m - 1 \notin Fails
  BY <1>1, <1>2
<1>4. QED
  BY <1>2, <1>3

(***************************************************************************)
(* A loop makes turns 1 .. n, each of which makes one result of another;   *)
(* f holds the results after each.                                         *)
(***************************************************************************)
Turns(n, Result) == [1 .. n -> [Result -> Result]]

RunOf(f, n, Result, start, turn) ==
    /\ f \in [0 .. n -> Result]
    /\ f[0] = start
    /\ \A k \in 1 .. n : f[k] = turn[k][f[k - 1]]

(***************************************************************************)
(* Every loop has results: the recursive function that stands for it       *)
(* exists.                                                                 *)
(***************************************************************************)
LEMMA LoopRuns ==
    ASSUME NEW Result, NEW start \in Result, NEW n \in Nat, NEW turn \in Turns(n, Result)
    PROVE  \E f : RunOf(f, n, Result, start, turn)
<1> DEFINE Holds(m) == \E f : RunOf(f, m, Result, start, turn)
<1>1. Holds(0)
  <2>1. [k \in 0 .. 0 |-> start] \in [0 .. 0 -> Result]
    OBVIOUS
  <2>2. [k \in 0 .. 0 |-> start][0] = start /\ 1 .. 0 = {}
    OBVIOUS
  <2>3. QED
    BY <2>1, <2>2 DEF RunOf
<1>2. ASSUME NEW m \in 1 .. n, Holds(m - 1)
      PROVE  Holds(m)
  <2>1. PICK f : RunOf(f, m - 1, Result, start, turn)
    BY <1>2
  <2> DEFINE g == [k \in 0 .. m |-> IF k = m THEN turn[m][f[m - 1]] ELSE f[k]]
  <2>2. f \in [0 .. m - 1 -> Result] /\ turn[m] \in [Result -> Result]
    BY <2>1 DEF RunOf, Turns
  <2>3. g \in [0 .. m -> Result]
    BY <2>2
  <2>4. g[0] = start
    BY <2>1 DEF RunOf
  <2>5. ASSUME NEW k \in 1 .. m PROVE g[k] = turn[k][g[k - 1]]
    <3>1. g[k - 1] = f[k - 1]
      OBVIOUS
    <3>2. CASE k = m
      <4>1. m \in 0 .. m /\ g[m] = turn[m][f[m - 1]]
        OBVIOUS
      <4> HIDE DEF g
      <4>2. QED
        BY <3>1, <3>2, <4>1
    <3>3. CASE k # m
      <4>1. k \in 1 .. m - 1 /\ g[k] = f[k]
        BY <3>3
      <4>2. QED
        BY <2>1, <3>1, <4>1 DEF RunOf
    <3>4. QED
      BY <3>2, <3>3
  <2> HIDE DEF g
  <2>6. QED
    BY <2>3, <2>4, <2>5 DEF RunOf
<1> DEFINE S == {m \in 0 .. n : Holds(m)}
<1>3. 0 \in S
  BY <1>1
<1>4. \A m \in 1 .. n : m - 1 \in S => m \in S
  <2> HIDE DEF Holds
  <2>1. QED
    BY <1>2
<1>5. 0 .. n \subseteq S
  <2> HIDE DEF S
  <2>1. QED
    BY <1>3, <1>4, Upwards
<1>6. QED
  BY <1>5

-----------------------------------------------------------------------------
(* The place of a node in a table.                                         *)
LEMMA SlotOf ==
    ASSUME NEW t, t \in Seq(Entry), NEW id
    PROVE  /\ Slot(t, id) \in 0 .. Len(t)
           /\ Slot(t, id) # 0 => t[Slot(t, id)].id = id
           /\ Slot(t, id) = 0 => \A k \in 1 .. Len(t) : t[k].id # id
<1> DEFINE I == {k \in 1 .. Len(t) : t[k].id = id}
<1>1. Slot(t, id) = IF I # {} THEN Min(I) ELSE 0
  BY DEF Slot, SelectInSeq
<1>2. Len(t) \in Nat
  OBVIOUS
<1>3. ASSUME I # {} PROVE Min(I) \in I
  <2>1. I \subseteq Nat
    OBVIOUS
  <2>2. \E m \in I : \A k \in I : m <= k
    <3> HIDE DEF I
    <3>1. QED
      BY <1>3, <2>1, LeastNat
  <2> HIDE DEF I
  <2>3. QED
    BY <2>2 DEF Min
<1>4. QED
  BY <1>1, <1>2, <1>3

(* A list that has room puts an entry of the table into its next place.    *)
LEMMA ListingType ==
    ASSUME NEW t, t \in Seq(Entry), NEW k \in 1 .. Len(t), NEW l, l \in Seq(Item), Len(l) < k
    PROVE  /\ Listing(t, l, t[k]) \in Seq(Item)
           /\ Len(Listing(t, l, t[k])) <= k
<1>1. Len(l) + 1 \in 1 .. Len(t) /\ Len(l) \in Nat
  OBVIOUS
<1>2. t[k] \in Entry /\ t[Len(l) + 1] \in Entry
  BY <1>1
<1>3. [id |-> t[k].id, stratum |-> t[Len(l) + 1].stratum] \in Item
  BY <1>2 DEF Entry, Item
<1>4. QED
  BY <1>1, <1>3 DEF Listing

(* beacon_prepare's result is what the last turn of its loop leaves.       *)
LEMMA PreparedLoop ==
    ASSUME NEW t, t \in Seq(Entry)
    PROVE  \E list \in [0 .. Len(t) -> Seq(Item)] :
              /\ list[0] = <<>>
              /\ \A k \in 1 .. Len(t) : /\ Len(list[k - 1]) < k
                                        /\ list[k] = Listing(t, list[k - 1], t[k])
              /\ Prepared(t) = list[Len(t)]
<1> DEFINE start == <<>>
           turn == [k \in 1 .. Len(t) |->
                      [l \in Seq(Item) |-> IF Len(l) < k THEN Listing(t, l, t[k]) ELSE l]]
           Is(f) == f = [k \in 0 .. Len(t) |-> IF k = 0 THEN start ELSE Listing(t, f[k - 1], t[k])]
<1>1. start \in Seq(Item) /\ Len(t) \in Nat /\ Len(start) = 0
  OBVIOUS
<1>2. turn \in Turns(Len(t), Seq(Item))
  BY ListingType DEF Turns
<1> HIDE DEF start
<1>3. \E f : Is(f)
  <2>1. PICK f : RunOf(f, Len(t), Seq(Item), start, turn)
    <3> HIDE DEF turn
    <3>1. QED
      BY <1>1, <1>2, LoopRuns
  <2>2. /\ f \in [0 .. Len(t) -> Seq(Item)] /\ f[0] = start
        /\ \A k \in 1 .. Len(t) : f[k] = turn[k][f[k - 1]]
    BY <2>1 DEF RunOf
  <2>3. ASSUME NEW k \in 1 .. Len(t), Len(f[k - 1]) < k
        PROVE  f[k] = Listing(t, f[k - 1], t[k]) /\ Len(f[k]) <= k
    <3>1. f[k - 1] \in Seq(Item)
      <4>1. k - 1 \in 0 .. Len(t)
        BY <1>1
      <4> HIDE DEF turn, Is
      <4>2. QED
        BY <2>2, <4>1
    <3>2. f[k] = Listing(t, f[k - 1], t[k])
      BY <2>2, <2>3, <3>1
    <3>3. QED
      BY <2>3, <3>1, <3>2, ListingType
  <2> DEFINE S == {k \in 0 .. Len(t) : Len(f[k]) <= k}
  <2>4. 0 .. Len(t) \subseteq S
    <3>1. 0 \in S
      BY <1>1, <2>2
    <3>2. ASSUME NEW k \in 1 .. Len(t), k - 1 \in S PROVE k \in S
      <4>1. f[k - 1] \in Seq(Item) /\ Len(f[k - 1]) <= k - 1 /\ k \in 0 .. Len(t)
        BY <1>1, <2>2, <3>2
      <4>2. Len(f[k - 1]) \in Nat /\ Len(f[k - 1]) < k
        BY <4>1
      <4>3. QED
        BY <2>3, <4>1, <4>2
    <3> HIDE DEF S
    <3>3. QED
      BY <1>1, <3>1, <3>2, Upwards
  <2>5. ASSUME NEW k \in 1 .. Len(t) PROVE f[k] = Listing(t, f[k - 1], t[k])
    <3>1. k - 1 \in 0 .. Len(t) /\ k - 1 \in S
      BY <1>1, <2>4
    <3>2. Len(f[k - 1]) \in Nat /\ Len(f[k - 1]) <= k - 1
      BY <2>2, <3>1
    <3>3. QED
      BY <2>3, <3>2
  <2>6. Is(f)
    <3> HIDE DEF turn
    <3>1. QED
      BY <2>2, <2>5
  <2> HIDE DEF Is
  <2>7. QED
    BY <2>6
<1>4. PICK g : g = (CHOOSE h : Is(h))
  OBVIOUS
<1>5. Is(g)
  BY <1>3, <1>4
<1>6. /\ g[0] = start
      /\ \A k \in 1 .. Len(t) : g[k] = Listing(t, g[k - 1], t[k])
      /\ DOMAIN g = 0 .. Len(t)
  BY <1>1, <1>5
<1>7. Prepared(t) = g[Len(t)]
  BY <1>4 DEF Prepared, start
<1> DEFINE S == {k \in 0 .. Len(t) : g[k] \in Seq(Item) /\ Len(g[k]) <= k}
<1>8. 0 .. Len(t) \subseteq S
  <2>1. 0 \in S
    <3>1. g[0] \in Seq(Item) /\ Len(g[0]) <= 0 /\ 0 \in 0 .. Len(t)
      BY <1>1, <1>6
    <3>2. QED
      BY <3>1
  <2>2. ASSUME NEW k \in 1 .. Len(t), k - 1 \in S PROVE k \in S
    <3>1. g[k - 1] \in Seq(Item) /\ Len(g[k - 1]) <= k - 1 /\ k \in 0 .. Len(t)
      BY <1>1, <2>2
    <3>2. Len(g[k - 1]) \in Nat /\ Len(g[k - 1]) < k
      BY <3>1
    <3>3. QED
      BY <1>6, <3>1, <3>2, ListingType
  <2> HIDE DEF S
  <2>3. QED
    BY <1>1, <2>1, <2>2, Upwards
<1>9. g \in [0 .. Len(t) -> Seq(Item)]
  BY <1>5, <1>8
<1>10. ASSUME NEW k \in 1 .. Len(t) PROVE Len(g[k - 1]) < k
  <2>1. k - 1 \in 0 .. Len(t) /\ k - 1 \in S
    BY <1>1, <1>8
  <2>2. Len(g[k - 1]) \in Nat /\ Len(g[k - 1]) <= k - 1
    BY <2>1
  <2>3. QED
    BY <2>2
<1>11. QED
  BY <1>6, <1>7, <1>9, <1>10 DEF start

(* beacon_prepare: the sender comes first, and no other node is at stratum *)
(* 0, though the strata are those of other entries.                        *)
LEMMA PreparedFacts ==
    ASSUME NEW n \in Node, NEW t, TableOf(n, t)
    PROVE  BeaconOf(n, Prepared(t))
<1>1. /\ t \in Seq(Entry) /\ Len(t) \in Nat /\ Len(t) >= 1 /\ DOMAIN t = 1 .. Len(t)
      /\ t[1].id = n /\ t[1].stratum = 0 /\ t[1].state
      /\ \A k \in 2 .. Len(t) : t[k].stratum # 0 /\ t[k].id # n
  BY DEF TableOf
<1>2. PICK list \in [0 .. Len(t) -> Seq(Item)] :
              /\ list[0] = <<>>
              /\ \A k \in 1 .. Len(t) : /\ Len(list[k - 1]) < k
                                        /\ list[k] = Listing(t, list[k - 1], t[k])
              /\ Prepared(t) = list[Len(t)]
  BY <1>1, PreparedLoop
<1> DEFINE S == {k \in 0 .. Len(t) : k >= 1 => BeaconOf(n, list[k])}
<1>3. 0 \in S
  BY <1>1
<1>4. ASSUME NEW k \in 1 .. Len(t), k - 1 \in S PROVE k \in S
  <2> DEFINE l == list[k - 1]
             u == list[k]
             e == [id |-> t[k].id, stratum |-> t[Len(l) + 1].stratum]
  <2>1. /\ l \in Seq(Item) /\ Len(l) \in Nat /\ Len(l) < k /\ u \in Seq(Item)
        /\ u = Listing(t, l, t[k]) /\ k - 1 \in 0 .. Len(t) /\ (k - 1 >= 1 => BeaconOf(n, l))
    BY <1>1, <1>2, <1>4
  <2>2. t[k] \in Entry /\ Len(l) + 1 \in 1 .. Len(t) /\ t[Len(l) + 1] \in Entry
    BY <1>1, <2>1
  <2>3. e \in Item
    BY <2>2 DEF Entry, Item
  <2>4. CASE k = 1
    <3>1. l = <<>> /\ Chosen(t[k])
      BY <1>1, <1>2, <2>4 DEF Chosen, MaxStrat
    <3>2. u = <<[id |-> n, stratum |-> 0]>>
      BY <1>1, <2>1, <2>4, <3>1 DEF Listing
    <3>3. BeaconOf(n, u)
      BY <2>1, <3>2 DEF BeaconOf
    <3>4. QED
      BY <1>1, <3>3
  <2>5. CASE k # 1 /\ Chosen(t[k])
    <3>1. u = Append(l, e)
      BY <2>1, <2>5 DEF Listing
    <3>2. BeaconOf(n, l)
      BY <2>1, <2>5
    <3>3. Len(l) >= 1 /\ k \in 2 .. Len(t) /\ Len(l) + 1 \in 2 .. Len(t)
      BY <2>1, <2>2, <2>5, <3>2 DEF BeaconOf
    <3>4. e.id # n /\ e.stratum # 0
      BY <1>1, <3>3
    <3> HIDE DEF l, e, u
    <3>5. /\ Len(u) = Len(l) + 1 /\ u[Len(l) + 1] = e
          /\ \A j \in 1 .. Len(l) : u[j] = l[j]
      BY <2>1, <2>3, <3>1
    <3>6. ASSUME NEW j \in 2 .. Len(u) PROVE u[j].id # n /\ u[j].stratum # 0
      <4>1. j = Len(l) + 1 \/ j \in 2 .. Len(l)
        BY <2>1, <3>5
      <4>2. QED
        BY <2>1, <3>2, <3>4, <3>5, <4>1 DEF BeaconOf
    <3>7. u # <<>> /\ u[1] = [id |-> n, stratum |-> 0]
      BY <2>1, <3>2, <3>3, <3>5 DEF BeaconOf
    <3>8. BeaconOf(n, u)
      BY <2>1, <3>6, <3>7 DEF BeaconOf
    <3>9. QED
      BY <1>1, <3>8 DEF u
  <2>6. CASE k # 1 /\ ~Chosen(t[k])
    <3>1. u = l
      BY <2>1, <2>6 DEF Listing
    <3>2. QED
      BY <1>1, <2>1, <2>6, <3>1
  <2>7. QED
    BY <2>4, <2>5, <2>6
<1>5. 0 .. Len(t) \subseteq S
  <2> HIDE DEF S
  <2>1. QED
    BY <1>1, <1>3, <1>4, Upwards
<1>6. QED
  BY <1>1, <1>2, <1>5

(* An entry that is recorded takes the old place of its node, or a new one *)
(* at the end.                                                             *)
LEMMA RecordedType ==
    ASSUME NEW n \in Node, NEW t, t \in Seq(Entry), NEW e, e \in Item
    PROVE  LET j == Slot(t, e.id)
               s == IF e.stratum < StratInf THEN e.stratum + 1 ELSE StratInf
               new == [id |-> e.id, stratum |-> s, state |-> TRUE, age |-> 0]
               u == Recorded(n, t, e)
           IN  /\ u \in Seq(Entry) /\ new \in Entry
               /\ \/ u = t
                  \/ e.id # n /\ j = 0 /\ u = Append(t, new)
                  \/ e.id # n /\ j \in 1 .. Len(t) /\ t[j].id = e.id /\ u = [t EXCEPT ![j] = new]
<1> DEFINE j == Slot(t, e.id)
           s == IF e.stratum < StratInf THEN e.stratum + 1 ELSE StratInf
           new == [id |-> e.id, stratum |-> s, state |-> TRUE, age |-> 0]
           u == Recorded(n, t, e)
<1>1. new \in Entry
  <2>1. s \in 0 .. StratInf /\ e.id \in Node
    <3> DEFINE x == e.stratum
    <3>1. x \in 0 .. 255 /\ e.id \in Node
      BY DEF Item, StratInf
    <3>2. CASE x < 255
      <4>1. s = x + 1
        BY <3>2 DEF StratInf
      <4> HIDE DEF s, x, new, u, j
      <4>2. QED
        BY <3>1, <3>2, <4>1 DEF StratInf
    <3>3. CASE ~(x < 255)
      <4>1. s = 255
        BY <3>3 DEF StratInf
      <4> HIDE DEF s
      <4>2. QED
        BY <3>1, <4>1 DEF StratInf
    <3>4. QED
      BY <3>2, <3>3
  <2>2. 0 \in 0 .. Timeout + 1
    BY BoundAssumption
  <2> HIDE DEF s
  <2>3. QED
    BY <2>1, <2>2 DEF Entry
<1>2. \/ u = t
      \/ e.id # n /\ j = 0 /\ u = Append(t, new)
      \/ e.id # n /\ j # 0 /\ u = [t EXCEPT ![j] = new]
  BY Zenon DEF Recorded
<1>3. j \in 0 .. Len(t) /\ (j # 0 => t[j].id = e.id)
  BY SlotOf
<1> HIDE DEF j, new, u
<1>4. u \in Seq(Entry)
  BY <1>1, <1>2, <1>3
<1>5. QED
  BY <1>1, <1>2, <1>3, <1>4 DEF j, new, u

(* An entry of u that takes m for a neighbour is one of t's.               *)
Fresh(u, t, m) == \A k \in DOMAIN u : Near(u, k, m) => k \in DOMAIN t /\ u[k] = t[k]

(* One turn of beacon_recv's loop keeps a table as it should be, and no    *)
(* rumour in it makes a neighbour.                                         *)
LEMMA RecordedFacts ==
    ASSUME NEW n \in Node, NEW t, TableOf(n, t), NEW e, e \in Item,
           e.stratum = 0 => <<e.id, n>> \in Link
    PROVE  LET u == Recorded(n, t, e)
           IN  /\ TableOf(n, u)
               /\ \A m \in Node : (e.stratum = 0 => e.id # m) => Fresh(u, t, m)
<1> DEFINE j == Slot(t, e.id)
           s == IF e.stratum < StratInf THEN e.stratum + 1 ELSE StratInf
           new == [id |-> e.id, stratum |-> s, state |-> TRUE, age |-> 0]
           u == Recorded(n, t, e)
<1>1. /\ t \in Seq(Entry) /\ Len(t) \in Nat /\ Len(t) >= 1 /\ DOMAIN t = 1 .. Len(t)
      /\ t[1].id = n /\ t[1].stratum = 0 /\ t[1].state
      /\ \A k \in 2 .. Len(t) : t[k].stratum # 0
      /\ \A i, k \in 1 .. Len(t) : t[i].id = t[k].id => i = k
      /\ \A k \in 1 .. Len(t) : t[k].stratum = 1 => <<t[k].id, n>> \in Link
  BY DEF TableOf
<1>2. /\ new.id = e.id /\ new.stratum # 0
      /\ (new.stratum = 1 => e.stratum = 0)
  BY DEF Item, StratInf
<1>3. /\ u \in Seq(Entry) /\ new \in Entry
      /\ \/ u = t
         \/ e.id # n /\ j = 0 /\ u = Append(t, new)
         \/ e.id # n /\ j \in 1 .. Len(t) /\ t[j].id = e.id /\ u = [t EXCEPT ![j] = new]
  BY <1>1, RecordedType
<1>4. j = 0 => \A k \in 1 .. Len(t) : t[k].id # e.id
  BY <1>1, SlotOf
<1> HIDE DEF j, new, u
<1>5. CASE u = t
  BY <1>5 DEF Fresh, u
<1>6. CASE u # t
  <2>1. PICK p \in 2 .. Len(u) :
          /\ Len(u) \in Nat /\ Len(t) <= Len(u) /\ u[p] = new
          /\ \A k \in 1 .. Len(u) : k # p => k \in 1 .. Len(t) /\ u[k] = t[k] /\ t[k].id # e.id
          /\ u[1] = t[1]
    <3>1. CASE j = 0 /\ u = Append(t, new)
      <4>1. /\ Len(u) = Len(t) + 1 /\ u[Len(t) + 1] = new
            /\ \A k \in 1 .. Len(t) : u[k] = t[k]
        <5>1. t \in Seq(Entry) /\ new \in Entry /\ u = Append(t, new)
          BY <1>1, <1>3, <3>1
        <5>2. QED
          BY <5>1
      <4>2. \A k \in 1 .. Len(u) : k # Len(t) + 1 => k \in 1 .. Len(t)
        BY <1>1, <4>1
      <4>3. Len(t) + 1 \in 2 .. Len(u) /\ 1 \in 1 .. Len(t)
        BY <1>1, <4>1
      <4>4. QED
        BY <1>1, <1>4, <3>1, <4>1, <4>2, <4>3
    <3>2. CASE e.id # n /\ j \in 1 .. Len(t) /\ t[j].id = e.id /\ u = [t EXCEPT ![j] = new]
      <4>1. Len(u) = Len(t) /\ u[j] = new /\ \A k \in 1 .. Len(t) : k # j => u[k] = t[k]
        BY <1>1, <3>2
      <4>2. j # 1 /\ j \in 2 .. Len(u) /\ 1 \in 1 .. Len(t)
        BY <1>1, <3>2, <4>1
      <4>3. QED
        BY <1>1, <3>2, <4>1, <4>2
    <3>3. QED
      BY <1>3, <1>6, <3>1, <3>2
  <2>2. DOMAIN u = 1 .. Len(u) /\ p \in 1 .. Len(u) /\ u # <<>> /\ 1 \in 1 .. Len(u)
    BY <1>3, <2>1
  <2>3. \A k \in 2 .. Len(u) : u[k].stratum # 0
    <3> SUFFICES ASSUME NEW k \in 2 .. Len(u), k # p PROVE u[k].stratum # 0
      BY <1>2, <2>1
    <3>1. k \in 1 .. Len(u)
      BY <2>1
    <3>2. k \in 2 .. Len(t) /\ u[k] = t[k]
      BY <1>1, <2>1, <3>1
    <3>3. QED
      BY <1>1, <3>2
  <2>4. \A i, k \in 1 .. Len(u) : u[i].id = u[k].id => i = k
    <3> SUFFICES ASSUME NEW i \in 1 .. Len(u), NEW k \in 1 .. Len(u), u[i].id = u[k].id PROVE i = k
      OBVIOUS
    <3>1. CASE i = p \/ k = p
      BY <1>2, <2>1, <3>1
    <3>2. CASE i # p /\ k # p
      BY <1>1, <2>1, <3>2
    <3>3. QED
      BY <3>1, <3>2
  <2>5. \A k \in 1 .. Len(u) : u[k].stratum = 1 => <<u[k].id, n>> \in Link
    <3> SUFFICES ASSUME NEW k \in 1 .. Len(u), u[k].stratum = 1 PROVE <<u[k].id, n>> \in Link
      OBVIOUS
    <3>1. CASE k = p
      BY <1>2, <2>1, <3>1
    <3>2. CASE k # p
      BY <1>1, <2>1, <3>2
    <3>3. QED
      BY <3>1, <3>2
  <2>6. TableOf(n, u)
    <3>1. u \in Seq(Entry) /\ u # <<>>
      BY <1>3, <2>2
    <3>2. u[1].id = n /\ u[1].stratum = 0 /\ u[1].state
      BY <1>1, <2>1
    <3> DEFINE D == DOMAIN u
    <3>3. D = 1 .. Len(u)
      BY <2>2
    <3> HIDE DEF D
    <3>4. /\ \A i, k \in D : u[i].id = u[k].id => i = k
          /\ \A k \in D : u[k].stratum = 1 => <<u[k].id, n>> \in Link
      BY <2>4, <2>5, <3>3
    <3>5. QED
      BY <2>3, <3>1, <3>2, <3>4 DEF TableOf, D
  <2>7. ASSUME NEW m \in Node, e.stratum = 0 => e.id # m
        PROVE  Fresh(u, t, m)
    <3> SUFFICES ASSUME NEW k \in 1 .. Len(u), Near(u, k, m)
                 PROVE  k \in 1 .. Len(t) /\ u[k] = t[k]
      BY <1>1, <2>2 DEF Fresh
    <3>1. CASE k = p
      BY <1>2, <2>1, <2>7, <3>1 DEF Near
    <3>2. CASE k # p
      BY <2>1, <3>2
    <3>3. QED
      BY <3>1, <3>2
  <2>8. QED
    BY <2>6, <2>7 DEF u
<1>7. QED
  BY <1>5, <1>6

(* What is heeded of a beacon of s tells at most s at stratum 0.           *)
LEMMA HeededFacts ==
    ASSUME NEW s \in Node, NEW n \in Node, NEW beacon, BeaconOf(s, beacon)
    PROVE  /\ Heeded(n, beacon) \in Seq(Item)
           /\ \A k \in 1 .. Len(Heeded(n, beacon)) :
                 Heeded(n, beacon)[k].stratum = 0 => Heeded(n, beacon)[k].id = s
<1>1. /\ beacon \in Seq(Item) /\ beacon # <<>> /\ Len(beacon) \in Nat /\ Len(beacon) >= 1
      /\ beacon[1].id = s /\ beacon[1] \in Item
      /\ \A k \in 2 .. Len(beacon) : beacon[k].stratum # 0
  BY DEF BeaconOf
<1>2. CASE SeenSelf(n, beacon)
  <2>1. Heeded(n, beacon) = beacon
    BY <1>2 DEF Heeded
  <2>2. QED
    BY <1>1, <2>1
<1>3. CASE ~SeenSelf(n, beacon)
  <2> DEFINE e == [beacon[1] EXCEPT !.stratum = StratInf]
  <2>1. Heeded(n, beacon) = <<e>>
    BY <1>3 DEF Heeded
  <2>2. e \in Item /\ e.stratum # 0
    BY <1>1 DEF Item, StratInf
  <2> HIDE DEF e
  <2>3. Len(<<e>>) = 1 /\ <<e>>[1] = e /\ <<e>> \in Seq(Item)
    BY <2>2
  <2>4. QED
    BY <2>1, <2>2, <2>3
<1>4. QED
  BY <1>2, <1>3

(* beacon_recv's result is what the last turn of its loop leaves.          *)
LEMMA ReceivedLoop ==
    ASSUME NEW n \in Node, NEW t, t \in Seq(Entry), NEW beacon, Heeded(n, beacon) \in Seq(Item)
    PROVE  LET heeded == Heeded(n, beacon)
           IN  \E after \in [0 .. Len(heeded) -> Seq(Entry)] :
                 /\ after[0] = t
                 /\ \A k \in 1 .. Len(heeded) : after[k] = Recorded(n, after[k - 1], heeded[k])
                 /\ Received(n, t, beacon) = after[Len(heeded)]
<1> DEFINE heeded == Heeded(n, beacon)
           turn == [k \in 1 .. Len(heeded) |-> [u \in Seq(Entry) |-> Recorded(n, u, heeded[k])]]
           Is(f) == f = [k \in 0 .. Len(heeded) |->
                           IF k = 0 THEN t ELSE Recorded(n, f[k - 1], heeded[k])]
<1>1. Len(heeded) \in Nat
  OBVIOUS
<1>2. ASSUME NEW k \in 1 .. Len(heeded), NEW u \in Seq(Entry)
      PROVE  Recorded(n, u, heeded[k]) \in Seq(Entry)
  <2>1. heeded[k] \in Item
    OBVIOUS
  <2> HIDE DEF heeded
  <2>2. QED
    BY <2>1, RecordedType
<1>3. turn \in Turns(Len(heeded), Seq(Entry))
  BY <1>2 DEF Turns
<1>4. \E f : Is(f)
  <2>1. PICK f : RunOf(f, Len(heeded), Seq(Entry), t, turn)
    <3> HIDE DEF turn, heeded
    <3>1. QED
      BY <1>1, <1>3, LoopRuns
  <2>2. /\ f \in [0 .. Len(heeded) -> Seq(Entry)] /\ f[0] = t
        /\ \A k \in 1 .. Len(heeded) : f[k] = turn[k][f[k - 1]]
    BY <2>1 DEF RunOf
  <2>3. ASSUME NEW k \in 1 .. Len(heeded) PROVE f[k] = Recorded(n, f[k - 1], heeded[k])
    <3>1. f[k - 1] \in Seq(Entry)
      <4>1. k - 1 \in 0 .. Len(heeded)
        BY <1>1
      <4> HIDE DEF turn, Is, heeded
      <4>2. QED
        BY <2>2, <4>1
    <3>2. QED
      BY <2>2, <3>1
  <2>4. Is(f)
    <3> HIDE DEF turn, heeded
    <3>1. QED
      BY <2>2, <2>3
  <2> HIDE DEF Is
  <2>5. QED
    BY <2>4
<1>5. PICK g : g = (CHOOSE h : Is(h))
  OBVIOUS
<1>6. Is(g)
  BY <1>4, <1>5
<1>7. /\ g[0] = t
      /\ \A k \in 1 .. Len(heeded) : g[k] = Recorded(n, g[k - 1], heeded[k])
      /\ DOMAIN g = 0 .. Len(heeded)
  <2> HIDE DEF heeded
  <2>1. QED
    BY <1>1, <1>6
<1>8. Received(n, t, beacon) = g[Len(heeded)]
  BY <1>5 DEF Received
<1> DEFINE S == {k \in 0 .. Len(heeded) : g[k] \in Seq(Entry)}
<1>9. 0 .. Len(heeded) \subseteq S
  <2> HIDE DEF heeded, turn, Is
  <2>1. 0 \in S
    BY <1>1, <1>7
  <2>2. ASSUME NEW k \in 1 .. Len(heeded), k - 1 \in S PROVE k \in S
    <3>1. g[k - 1] \in Seq(Entry) /\ k \in 0 .. Len(heeded)
      BY <1>1, <2>2
    <3>2. QED
      BY <1>2, <1>7, <3>1
  <2> HIDE DEF S
  <2>3. QED
    BY <1>1, <2>1, <2>2, Upwards
<1>10. g \in [0 .. Len(heeded) -> Seq(Entry)]
  BY <1>6, <1>9
<1>11. QED
  BY <1>7, <1>8, <1>10

(* beacon_recv keeps a table as it should be, and makes nobody but the     *)
(* sender a neighbour.                                                     *)
LEMMA ReceivedFacts ==
    ASSUME NEW s \in Node, NEW n \in Node, <<s, n>> \in Link,
           NEW beacon, BeaconOf(s, beacon), NEW t, TableOf(n, t)
    PROVE  /\ TableOf(n, Received(n, t, beacon))
           /\ \A m \in Node : m # s => Fresh(Received(n, t, beacon), t, m)
<1> DEFINE heeded == Heeded(n, beacon)
<1>1. /\ heeded \in Seq(Item)
      /\ \A k \in 1 .. Len(heeded) : heeded[k].stratum = 0 => heeded[k].id = s
  BY HeededFacts
<1>2. t \in Seq(Entry)
  BY DEF TableOf
<1>3. PICK after \in [0 .. Len(heeded) -> Seq(Entry)] :
         /\ after[0] = t
         /\ \A k \in 1 .. Len(heeded) : after[k] = Recorded(n, after[k - 1], heeded[k])
         /\ Received(n, t, beacon) = after[Len(heeded)]
  BY <1>1, <1>2, ReceivedLoop
<1> HIDE DEF heeded
<1> DEFINE Good(u) == TableOf(n, u) /\ \A m \in Node : m # s => Fresh(u, t, m)
           S == {k \in 0 .. Len(heeded) : Good(after[k])}
<1>4. 0 \in S
  <2>1. Good(t)
    BY DEF Fresh
  <2> HIDE DEF Good
  <2>2. Len(heeded) \in Nat
    BY <1>1
  <2>3. QED
    BY <1>3, <2>1, <2>2
<1>5. ASSUME NEW k \in 1 .. Len(heeded), k - 1 \in S PROVE k \in S
  <2> DEFINE u == after[k - 1]
             v == after[k]
             e == heeded[k]
  <2>1. TableOf(n, u) /\ \A m \in Node : m # s => Fresh(u, t, m)
    BY <1>5
  <2>2. e \in Item /\ (e.stratum = 0 => e.id = s) /\ v = Recorded(n, u, e)
    BY <1>1, <1>3
  <2>3. k \in 0 .. Len(heeded)
    BY <1>1
  <2> HIDE DEF u, v, e
  <2>4. /\ TableOf(n, v)
        /\ \A m \in Node : (e.stratum = 0 => e.id # m) => Fresh(v, u, m)
    BY <2>1, <2>2, RecordedFacts
  <2>5. ASSUME NEW m \in Node, m # s PROVE Fresh(v, t, m)
    <3>1. Fresh(v, u, m) /\ Fresh(u, t, m)
      BY <2>1, <2>2, <2>4, <2>5
    <3>2. ASSUME NEW i \in DOMAIN v, Near(v, i, m)
          PROVE  i \in DOMAIN t /\ v[i] = t[i]
      <4>1. i \in DOMAIN u /\ v[i] = u[i]
        BY <3>1, <3>2 DEF Fresh
      <4>2. Near(u, i, m)
        BY <3>2, <4>1 DEF Near
      <4>3. QED
        BY <3>1, <4>1, <4>2 DEF Fresh
    <3>3. QED
      BY <3>2 DEF Fresh
  <2>6. QED
    BY <2>3, <2>4, <2>5 DEF v
<1>6. 0 .. Len(heeded) \subseteq S
  <2>1. Len(heeded) \in Nat
    BY <1>1
  <2> HIDE DEF S
  <2>2. QED
    BY <1>4, <1>5, <2>1, Upwards
<1>7. Len(heeded) \in 0 .. Len(heeded)
  BY <1>1
<1>8. Good(after[Len(heeded)])
  BY <1>6, <1>7
<1>9. QED
  BY <1>3, <1>8

(* A table that lists its nodes once has no more entries than there are    *)
(* nodes.                                                                  *)
LEMMA TableSize ==
    ASSUME NEW n \in Node, NEW t, TableOf(n, t)
    PROVE  Len(t) <= Cardinality(Node)
<1>1. /\ t \in Seq(Entry) /\ Len(t) \in Nat /\ DOMAIN t = 1 .. Len(t)
      /\ \A j, k \in 1 .. Len(t) : t[j].id = t[k].id => j = k
  BY DEF TableOf
<1> DEFINE S == 1 .. Len(t)
           f == [k \in S |-> t[k].id]
<1>2. IsFiniteSet(S) /\ Cardinality(S) = Len(t)
  BY <1>1, FS_Interval
<1>3. IsFiniteSet(Node) /\ Cardinality(Node) \in Nat
  BY NodeAssumption, FS_CardinalityType
<1>4. SUFFICES ASSUME Len(t) > Cardinality(Node) PROVE FALSE
  BY <1>1, <1>3
<1>5. f \in [S -> Node]
  <2>1. ASSUME NEW k \in 1 .. Len(t) PROVE t[k].id \in Node
    <3>1. t[k] \in Entry
      BY <1>1
    <3>2. QED
      BY <3>1 DEF Entry
  <2>2. QED
    BY <2>1
<1>6. \E x, y \in S : x # y /\ f[x] = f[y]
  <2> HIDE DEF S, f
  <2>1. QED
    BY <1>2, <1>3, <1>4, <1>5, FS_PigeonHole
<1>7. QED
  BY <1>1, <1>6

(* An age is a number.                                                     *)
LEMMA AgeOf ==
    ASSUME NEW e \in Entry
    PROVE  e.age \in Nat /\ Timeout \in Nat
<1> DEFINE a == e.age
<1>1. a \in 0 .. Timeout + 1
  BY DEF Entry
<1>2. Timeout \in Nat
  BY BoundAssumption
<1> HIDE DEF a
<1>3. a \in Nat
  BY <1>1, <1>2
<1>4. QED
  BY <1>2, <1>3 DEF a

(* What beacon_recalc and the clock do to a table.                         *)
LEMMA SameNodes ==
    ASSUME NEW n \in Node, NEW t, TableOf(n, t), NEW u, u \in Seq(Entry), Len(u) = Len(t),
           \A k \in 1 .. Len(t) : u[k].id = t[k].id /\ u[k].stratum = t[k].stratum,
           u[1].state
    PROVE  TableOf(n, u)
<1>1. /\ t \in Seq(Entry) /\ Len(t) \in Nat /\ Len(t) >= 1 /\ DOMAIN t = 1 .. Len(t)
      /\ t[1].id = n /\ t[1].stratum = 0
      /\ \A k \in 2 .. Len(t) : t[k].stratum # 0
      /\ \A j, k \in 1 .. Len(t) : t[j].id = t[k].id => j = k
      /\ \A k \in 1 .. Len(t) : t[k].stratum = 1 => <<t[k].id, n>> \in Link
  <2>1. t \in Seq(Entry) /\ t # <<>>
    BY DEF TableOf
  <2>2. Len(t) \in Nat /\ Len(t) >= 1 /\ DOMAIN t = 1 .. Len(t)
    BY <2>1
  <2>3. QED
    BY <2>1, <2>2, Zenon DEF TableOf
<1>2. DOMAIN u = 1 .. Len(t) /\ u # <<>> /\ 1 \in 1 .. Len(t)
  BY <1>1
<1>3. \A k \in 2 .. Len(u) : u[k].stratum # 0
  BY <1>1
<1>4. \A j, k \in DOMAIN u : u[j].id = u[k].id => j = k
  BY <1>1, <1>2
<1>5. \A k \in DOMAIN u : u[k].stratum = 1 => <<u[k].id, n>> \in Link
  BY <1>1, <1>2
<1>6. u[1].id = n /\ u[1].stratum = 0
  BY <1>1, <1>2
<1>7. QED
  BY <1>2, <1>3, <1>4, <1>5, <1>6 DEF TableOf

(* An entry of u that takes m for a neighbour did so in t, and was no      *)
(* older.                                                                  *)
Faded(t, u, m) ==
    \A k \in DOMAIN u : Near(u, k, m) => /\ k \in DOMAIN t /\ Near(t, k, m)
                                        /\ t[k].age <= u[k].age

(* Entries that a beacon left alone are no younger than before.            *)
LEMMA FreshFades ==
    ASSUME NEW t, t \in Seq(Entry), NEW u, NEW m, Fresh(u, t, m)
    PROVE  Faded(t, u, m)
<1>1. ASSUME NEW k \in DOMAIN u, Near(u, k, m)
      PROVE  k \in DOMAIN t /\ Near(t, k, m) /\ t[k].age <= u[k].age
  <2>1. k \in DOMAIN t /\ u[k] = t[k]
    BY <1>1 DEF Fresh
  <2>2. t[k] \in Entry
    BY <2>1
  <2>3. t[k].age \in Nat
    BY <2>2, AgeOf
  <2>4. QED
    BY <1>1, <2>1, <2>3 DEF Near
<1>2. QED
  BY <1>1 DEF Faded

(* beacon_recalc keeps a table as it should be, its own entry on, and      *)
(* makes no entry younger.                                                 *)
LEMMA CulledFacts ==
    ASSUME NEW n \in Node, NEW t, TableOf(n, t)
    PROVE  /\ TableOf(n, Culled(t)) /\ Len(Culled(t)) = Len(t)
           /\ \A m \in Node : Faded(t, Culled(t), m)
<1> DEFINE u == Culled(t)
<1>1. /\ t \in Seq(Entry) /\ Len(t) \in Nat /\ Len(t) >= 1 /\ DOMAIN t = 1 .. Len(t)
      /\ t[1].state
  BY DEF TableOf
<1>2. DOMAIN u = 1 .. Len(t)
      /\ \A k \in 1 .. Len(t) :
            u[k] = [t[k] EXCEPT !.state = @ /\ (k = 1 \/ t[k].age <= Timeout)]
  BY <1>1 DEF Culled
<1>3. ASSUME NEW k \in 1 .. Len(t)
      PROVE  /\ u[k] \in Entry /\ u[k].id = t[k].id /\ u[k].stratum = t[k].stratum
             /\ u[k].age = t[k].age /\ u[k].age \in Nat /\ (u[k].state => t[k].state)
  <2>1. t[k] \in Entry
    BY <1>1
  <2>2. PICK b \in BOOLEAN : u[k] = [t[k] EXCEPT !.state = @ /\ b]
    BY <1>2
  <2> HIDE DEF u
  <2>3. u[k].id = t[k].id /\ u[k].stratum = t[k].stratum /\ u[k].age = t[k].age
    BY <2>1, <2>2 DEF Entry
  <2>4. u[k].state = (t[k].state /\ b) /\ u[k].state \in BOOLEAN
    BY <2>1, <2>2 DEF Entry
  <2>5. u[k].age \in Nat
    BY <2>1, <2>3, AgeOf
  <2>6. u[k] \in Entry
    BY <2>1, <2>2 DEF Entry
  <2>7. QED
    BY <2>3, <2>4, <2>5, <2>6
<1>4. u \in Seq(Entry) /\ Len(u) = Len(t)
  <2> DEFINE d == Len(t)
  <2>1. u = [k \in 1 .. d |-> u[k]] /\ d \in Nat
    BY <1>1, <1>2 DEF Culled
  <2>2. \A k \in 1 .. d : u[k] \in Entry
    BY <1>3
  <2> HIDE DEF u, d
  <2>3. u \in [1 .. d -> Entry]
    BY <2>1, <2>2
  <2>4. u \in Seq(Entry) /\ Len(u) = d
    BY <2>1, <2>3
  <2>5. QED
    BY <2>4 DEF d
<1>5. u[1].state
  <2>1. u[1] = [t[1] EXCEPT !.state = @ /\ (1 = 1 \/ t[1].age <= Timeout)] /\ t[1] \in Entry
    BY <1>1, <1>2
  <2> HIDE DEF u
  <2>2. QED
    BY <1>1, <2>1 DEF Entry
<1>6. TableOf(n, u)
  <2> HIDE DEF u
  <2>1. QED
    BY <1>3, <1>4, <1>5, SameNodes
<1>7. \A m \in Node : Faded(t, u, m)
  <2> HIDE DEF u
  <2>1. QED
    BY <1>1, <1>2, <1>3 DEF Faded, Near
<1>8. QED
  BY <1>4, <1>6, <1>7

(* The clock keeps a table as it should be and makes no entry that is on   *)
(* younger.                                                                *)
LEMMA AgedFacts ==
    ASSUME NEW n \in Node, NEW t, TableOf(n, t)
    PROVE  LET u == [k \in DOMAIN t |-> Aged(t[k])]
           IN  /\ TableOf(n, u) /\ Len(u) = Len(t)
               /\ \A m \in Node : Faded(t, u, m)
<1> DEFINE u == [k \in DOMAIN t |-> Aged(t[k])]
<1>1. /\ t \in Seq(Entry) /\ Len(t) \in Nat /\ Len(t) >= 1 /\ DOMAIN t = 1 .. Len(t)
      /\ t[1].state
  BY DEF TableOf
<1>2. DOMAIN u = 1 .. Len(t) /\ \A k \in 1 .. Len(t) : u[k] = Aged(t[k])
  BY <1>1
<1>3. ASSUME NEW k \in 1 .. Len(t)
      PROVE  /\ u[k] \in Entry /\ u[k].id = t[k].id /\ u[k].stratum = t[k].stratum
             /\ u[k].state = t[k].state /\ (t[k].state => t[k].age <= u[k].age)
  <2>1. t[k] \in Entry
    BY <1>1
  <2> DEFINE a == IF ~t[k].state THEN 0 ELSE IF t[k].age <= Timeout THEN t[k].age + 1 ELSE t[k].age
  <2>2. u[k] = [t[k] EXCEPT !.age = a]
    BY <1>2 DEF Aged
  <2>3. t[k].age \in 0 .. Timeout + 1 /\ Timeout \in Nat
    BY <2>1, BoundAssumption DEF Entry
  <2>4. a \in 0 .. Timeout + 1 /\ (t[k].state => t[k].age <= a)
    <3> DEFINE g == t[k].age
    <3>1. g \in 0 .. Timeout + 1
      BY <2>3
    <3>2. a = (IF ~t[k].state THEN 0 ELSE IF g <= Timeout THEN g + 1 ELSE g)
      OBVIOUS
    <3> HIDE DEF g, a, u
    <3>3. (t[k].state => g <= a) /\ a \in 0 .. Timeout + 1
      BY <2>3, <3>1, <3>2
    <3>4. QED
      BY <3>3 DEF g
  <2> HIDE DEF a, u
  <2>5. QED
    BY <2>1, <2>2, <2>4 DEF Entry
<1>4. u \in Seq(Entry) /\ Len(u) = Len(t)
  <2> DEFINE d == Len(t)
  <2>1. u = [k \in 1 .. d |-> u[k]] /\ d \in Nat
    BY <1>1, <1>2
  <2>2. \A k \in 1 .. d : u[k] \in Entry
    BY <1>3
  <2> HIDE DEF u, d
  <2>3. u \in [1 .. d -> Entry]
    BY <2>1, <2>2
  <2>4. u \in Seq(Entry) /\ Len(u) = d
    BY <2>1, <2>3
  <2>5. QED
    BY <2>4 DEF d
<1> HIDE DEF u
<1>5. u[1].state
  BY <1>1, <1>3
<1>6. TableOf(n, u)
  BY <1>3, <1>4, <1>5, SameNodes
<1>7. \A m \in Node : Faded(t, u, m)
  BY <1>1, <1>2, <1>3 DEF Faded, Near
<1>8. QED
  BY <1>4, <1>6, <1>7 DEF u

(* How the entries for m change in a step.                                 *)
Fades(m) == \A n \in Node : Faded(table[n], table'[n], m)

(* The invariant's part about one program that runs.                       *)
LEMMA Running ==
    ASSUME IInv, NEW n \in Node, status[n] = "runs"
    PROVE  /\ TableOf(n, table[n]) /\ Len(table[n]) <= MaxNeigh
           /\ buffer[n] = <<>> \/ BeaconOf(n, buffer[n])
BY DEF IInv

(* A program that does not run has neither a table nor a beacon to send.   *)
LEMMA Stopped ==
    ASSUME IInv, NEW n \in Node, status[n] # "runs"
    PROVE  table[n] = <<>> /\ buffer[n] = <<>>
BY DEF IInv

(* A table is a sequence of entries, of no program's if it is empty.       *)
LEMMA TableType ==
    ASSUME IInv, NEW n \in Node
    PROVE  table[n] \in Seq(Entry)
<1>1. CASE status[n] = "runs"
  <2>1. TableOf(n, table[n])
    BY <1>1, Running
  <2>2. QED
    BY <2>1 DEF TableOf
<1>2. CASE status[n] # "runs"
  <2>1. table[n] = <<>>
    BY <1>2, Stopped
  <2>2. QED
    BY <2>1
<1>3. QED
  BY <1>1, <1>2

(* The programs that hear a beacon of n go on with tables as they should   *)
(* be, or end by the assert.                                               *)
LEMMA HeardFacts ==
    ASSUME IInv, NEW n \in Node, status[n] = "runs", NEW beacon, BeaconOf(n, beacon),
           NEW mine, TableOf(n, mine), Len(mine) <= MaxNeigh,
           \A m \in Node : Faded(table[n], mine, m), Heard(n, beacon, mine)
    PROVE  IInv' /\ \A m \in Node : status[m] # "runs" => Fades(m)
<1> DEFINE new == [m \in Hearers(n) |-> Received(m, table[m], beacon)]
<1>1. PICK heard \in SUBSET Hearers(n) :
         LET fails == {m \in heard : Len(new[m]) > MaxNeigh}
         IN  /\ status' = [m \in Node |-> IF m \in fails THEN "failed" ELSE status[m]]
             /\ table' = [m \in Node |->
                             IF m = n THEN mine
                             ELSE IF m \in fails THEN <<>>
                             ELSE IF m \in heard THEN new[m]
                             ELSE table[m]]
             /\ buffer' = [m \in Node |->
                             IF m \in fails \union {n} THEN <<>> ELSE buffer[m]]
  BY DEF Heard
<1> DEFINE fails == {m \in heard : Len(new[m]) > MaxNeigh}
<1>2. ASSUME NEW m \in heard
      PROVE  /\ m \in Node /\ m # n /\ status[m] = "runs"
             /\ TableOf(m, new[m]) /\ new[m] \in Seq(Entry) /\ Len(new[m]) \in Nat
             /\ Len(new[m]) <= Cardinality(Node)
             /\ \A r \in Node : r # n => Fresh(new[m], table[m], r)
  <2>1. m \in Node /\ <<n, m>> \in Link /\ status[m] = "runs" /\ m # n
    BY LinkAssumption DEF Hearers
  <2>2. new[m] = Received(m, table[m], beacon)
    OBVIOUS
  <2>3. TableOf(m, table[m])
    BY <2>1, Running
  <2> HIDE DEF new
  <2>4. /\ TableOf(m, new[m])
        /\ \A r \in Node : r # n => Fresh(new[m], table[m], r)
    BY <2>1, <2>2, <2>3, ReceivedFacts
  <2>5. new[m] \in Seq(Entry)
    BY <2>4 DEF TableOf
  <2>6. Len(new[m]) \in Nat
    BY <2>5
  <2>7. QED
    BY <2>1, <2>4, <2>5, <2>6, TableSize
<1> HIDE DEF new
<1>3. /\ \A m \in Node : status'[m] = IF m \in fails THEN "failed" ELSE status[m]
      /\ \A m \in Node : table'[m] = IF m = n THEN mine
                                     ELSE IF m \in fails THEN <<>>
                                     ELSE IF m \in heard THEN new[m]
                                     ELSE table[m]
      /\ \A m \in Node : buffer'[m] = IF m \in fails \union {n} THEN <<>> ELSE buffer[m]
      /\ DOMAIN table' = Node /\ DOMAIN buffer' = Node
  BY <1>1
<1>4. fails \subseteq heard /\ \A m \in heard : m \notin fails => Len(new[m]) <= MaxNeigh
  BY <1>2, BoundAssumption
<1>5. Cardinality(Node) <= MaxNeigh => fails = {}
  <2>1. Cardinality(Node) \in Nat
    BY NodeAssumption, FS_CardinalityType
  <2>2. SUFFICES ASSUME Cardinality(Node) <= MaxNeigh, NEW m \in fails PROVE FALSE
    OBVIOUS
  <2>3. m \in heard /\ Len(new[m]) > MaxNeigh
    OBVIOUS
  <2>4. Len(new[m]) \in Nat /\ Len(new[m]) <= Cardinality(Node) /\ MaxNeigh \in Nat
    BY <1>2, <2>3, BoundAssumption
  <2> DEFINE c == Cardinality(Node)
             l == Len(new[m])
  <2>5. c \in Nat /\ l \in Nat /\ l <= c /\ c <= MaxNeigh /\ l > MaxNeigh /\ MaxNeigh \in Nat
    BY <2>1, <2>2, <2>3, <2>4
  <2> HIDE DEF c, l, fails
  <2>6. QED
    BY <2>5
<1> HIDE DEF fails
<1>6. status' \in [Node -> {"runs", "ended", "failed"}]
  BY <1>1 DEF IInv, fails
<1>7. ASSUME NEW m \in Node
      PROVE  IF status'[m] = "runs"
             THEN /\ TableOf(m, table'[m]) /\ Len(table'[m]) <= MaxNeigh
                  /\ buffer'[m] = <<>> \/ BeaconOf(m, buffer'[m])
             ELSE table'[m] = <<>> /\ buffer'[m] = <<>>
  <2>1. CASE m = n
    <3>1. m \notin fails
      BY <1>2, <1>4, <2>1
    <3>2. status'[m] = "runs" /\ table'[m] = mine /\ buffer'[m] = <<>>
      BY <1>3, <2>1, <3>1
    <3>3. QED
      BY <2>1, <3>2
  <2>2. CASE m \in fails
    <3>1. m # n
      BY <1>2, <1>4, <2>2
    <3>2. status'[m] = "failed" /\ table'[m] = <<>> /\ buffer'[m] = <<>>
      BY <1>3, <2>2, <3>1
    <3>3. QED
      BY <3>2
  <2>3. CASE m # n /\ m \notin fails /\ m \in heard
    <3>1. status'[m] = "runs" /\ table'[m] = new[m] /\ buffer'[m] = buffer[m]
      BY <1>2, <1>3, <2>3
    <3>2. TableOf(m, new[m]) /\ Len(new[m]) <= MaxNeigh
      BY <1>2, <1>4, <2>3
    <3>3. buffer[m] = <<>> \/ BeaconOf(m, buffer[m])
      BY <1>2, <2>3, Running
    <3>4. QED
      BY <3>1, <3>2, <3>3
  <2>4. CASE m # n /\ m \notin fails /\ m \notin heard
    <3>1. status'[m] = status[m] /\ table'[m] = table[m] /\ buffer'[m] = buffer[m]
      BY <1>3, <2>4
    <3>2. QED
      BY <3>1, Running, Stopped
  <2>5. QED
    BY <2>1, <2>2, <2>3, <2>4
<1>8. Cardinality(Node) <= MaxNeigh => \A m \in Node : status'[m] # "failed"
  BY <1>3, <1>5 DEF IInv
<1>9. IInv'
  BY <1>3, <1>6, <1>7, <1>8 DEF IInv
<1>10. ASSUME NEW m \in Node, status[m] # "runs", NEW r \in Node
       PROVE  Faded(table[r], table'[r], m)
  <2>1. table[r] \in Seq(Entry) /\ m # n
    BY <1>10, TableType
  <2>2. CASE r = n
    BY <1>3, <2>2
  <2>3. CASE r # n /\ table'[r] = <<>>
    BY <2>3 DEF Faded
  <2>4. CASE r # n /\ r \in heard /\ table'[r] = new[r]
    <3>1. Fresh(new[r], table[r], m)
      BY <1>2, <2>1, <2>4
    <3>2. QED
      BY <2>1, <2>4, <3>1, FreshFades
  <2>5. CASE r # n /\ table'[r] = table[r]
    <3>1. Fresh(table[r], table[r], m)
      BY DEF Fresh
    <3>2. QED
      BY <2>1, <2>5, <3>1, FreshFades
  <2>6. QED
    BY <1>3, <2>2, <2>3, <2>4, <2>5
<1>11. QED
  BY <1>9, <1>10 DEF Fades

(* beacon_init makes a table with the own entry.                           *)
LEMMA InitHolds == Init => IInv
<1> SUFFICES ASSUME Init PROVE IInv
  OBVIOUS
<1>1. /\ status \in [Node -> {"runs", "ended", "failed"}]
      /\ DOMAIN table = Node /\ DOMAIN buffer = Node
      /\ \A n \in Node : status[n] = "runs" /\ buffer[n] = <<>>
  BY DEF Init
<1>2. ASSUME NEW n \in Node PROVE TableOf(n, table[n]) /\ Len(table[n]) <= MaxNeigh
  <2> DEFINE e == [id |-> n, stratum |-> 0, state |-> TRUE, age |-> Timeout + 1]
             t == <<e>>
  <2>1. table[n] = t
    BY DEF Init
  <2>2. e \in Entry
    <3>1. 0 \in 0 .. StratInf /\ TRUE \in BOOLEAN /\ Timeout + 1 \in 0 .. Timeout + 1
      BY BoundAssumption DEF StratInf
    <3>2. QED
      BY <3>1 DEF Entry
  <2>3. e.id = n /\ e.stratum = 0 /\ e.state
    OBVIOUS
  <2> HIDE DEF e
  <2>4. t \in Seq(Entry) /\ Len(t) = 1 /\ t[1] = e /\ DOMAIN t = {1} /\ t # <<>>
    BY <2>2
  <2>5. 1 <= MaxNeigh /\ 2 .. 1 = {}
    BY BoundAssumption
  <2> HIDE DEF t
  <2>6. \A k \in 2 .. Len(t) : FALSE
    BY <2>4, <2>5
  <2>7. TableOf(n, t)
    BY <2>3, <2>4, <2>6 DEF TableOf
  <2>8. QED
    BY <2>1, <2>4, <2>5, <2>7
<1>3. QED
  BY <1>1, <1>2 DEF IInv

(* The own entry is sent first, whatever was switched off.                 *)
LEMMA SentFacts ==
    ASSUME IInv, NEW n \in Node, status[n] = "runs"
    PROVE  /\ TableOf(n, Culled(table[n])) /\ Len(Culled(table[n])) <= MaxNeigh
           /\ \A m \in Node : Faded(table[n], Culled(table[n]), m)
           /\ BeaconOf(n, Prepared(Culled(table[n])))
<1>1. TableOf(n, table[n]) /\ Len(table[n]) <= MaxNeigh
  BY Running
<1>2. /\ TableOf(n, Culled(table[n])) /\ Len(Culled(table[n])) = Len(table[n])
      /\ \A m \in Node : Faded(table[n], Culled(table[n]), m)
  BY <1>1, CulledFacts
<1>3. QED
  BY <1>1, <1>2, PreparedFacts

(* Entries that stay as they are fade.                                     *)
LEMMA SameFades ==
    ASSUME IInv, NEW n \in Node, NEW m, table'[n] = table[n]
    PROVE  Faded(table[n], table'[n], m)
<1>1. table[n] \in Seq(Entry)
  BY TableType
<1>2. Fresh(table'[n], table[n], m)
  BY DEF Fresh
<1>3. QED
  BY <1>1, <1>2, FreshFades

(* virtloc.c's sending keeps the invariant; entries for programs that do   *)
(* not run fade.                                                           *)
LEMMA SendStep ==
    ASSUME IInv, NEW n \in Node, Send(n)
    PROVE  IInv' /\ \A m \in Node : status[m] # "runs" => Fades(m)
<1> DEFINE culled == Culled(table[n])
           beacon == Prepared(culled)
<1>1. status[n] = "runs" /\ Heard(n, beacon, culled)
  BY DEF Send
<1>2. /\ TableOf(n, culled) /\ Len(culled) <= MaxNeigh /\ BeaconOf(n, beacon)
      /\ \A m \in Node : Faded(table[n], culled, m)
  BY <1>1, SentFacts
<1> HIDE DEF culled, beacon
<1>3. QED
  BY <1>1, <1>2, HeardFacts

(* So does the sending of a beacon that tvirtloc.c's writer has prepared,  *)
(* perhaps of an older table than its node has now,                        *)
LEMMA SendPreparedStep ==
    ASSUME IInv, NEW n \in Node, SendPrepared(n)
    PROVE  IInv' /\ \A m \in Node : status[m] # "runs" => Fades(m)
<1>1. buffer[n] # <<>> /\ Heard(n, buffer[n], table[n])
  BY DEF SendPrepared
<1>2. status[n] = "runs"
  BY <1>1, Stopped
<1>3. TableOf(n, table[n]) /\ Len(table[n]) <= MaxNeigh /\ BeaconOf(n, buffer[n])
  BY <1>1, <1>2, Running
<1>4. \A m \in Node : Faded(table[n], table[n], m)
  <2>1. table[n] \in Seq(Entry)
    BY TableType
  <2>2. \A m \in Node : Fresh(table[n], table[n], m)
    BY DEF Fresh
  <2>3. QED
    BY <2>1, <2>2, FreshFades
<1>5. QED
  BY <1>1, <1>2, <1>3, <1>4, HeardFacts

(* and the preparing.                                                      *)
LEMMA PrepareStep ==
    ASSUME IInv, NEW n \in Node, Prepare(n)
    PROVE  IInv' /\ \A m \in Node : Fades(m)
<1> DEFINE culled == Culled(table[n])
           beacon == Prepared(culled)
<1>1. /\ status[n] = "runs" /\ UNCHANGED status
      /\ table' = [table EXCEPT ![n] = culled] /\ buffer' = [buffer EXCEPT ![n] = beacon]
  BY DEF Prepare
<1>2. /\ TableOf(n, culled) /\ Len(culled) <= MaxNeigh /\ BeaconOf(n, beacon)
      /\ \A m \in Node : Faded(table[n], culled, m)
  BY <1>1, SentFacts
<1> HIDE DEF culled, beacon
<1>3. /\ DOMAIN table' = Node /\ DOMAIN buffer' = Node
      /\ table'[n] = culled /\ buffer'[n] = beacon
      /\ \A r \in Node : r # n => table'[r] = table[r] /\ buffer'[r] = buffer[r]
  BY <1>1 DEF IInv
<1>4. ASSUME NEW r \in Node
      PROVE  IF status'[r] = "runs"
             THEN /\ TableOf(r, table'[r]) /\ Len(table'[r]) <= MaxNeigh
                  /\ buffer'[r] = <<>> \/ BeaconOf(r, buffer'[r])
             ELSE table'[r] = <<>> /\ buffer'[r] = <<>>
  <2>1. CASE r = n
    BY <1>1, <1>2, <1>3, <2>1
  <2>2. CASE r # n
    <3>1. status'[r] = status[r] /\ table'[r] = table[r] /\ buffer'[r] = buffer[r]
      BY <1>1, <1>3, <2>2
    <3>2. QED
      BY <3>1, Running, Stopped
  <2>3. QED
    BY <2>1, <2>2
<1>5. IInv'
  BY <1>1, <1>3, <1>4 DEF IInv
<1>6. ASSUME NEW m \in Node, NEW r \in Node PROVE Faded(table[r], table'[r], m)
  BY <1>2, <1>3, SameFades
<1>7. QED
  BY <1>5, <1>6 DEF Fades

(* A program that ends leaves nothing behind.                              *)
LEMMA StopStep ==
    ASSUME IInv, NEW n \in Node, Stop(n)
    PROVE  IInv' /\ \A m \in Node : Fades(m)
<1>1. /\ status' = [status EXCEPT ![n] = "ended"]
      /\ table' = [table EXCEPT ![n] = <<>>] /\ buffer' = [buffer EXCEPT ![n] = <<>>]
  BY DEF Stop
<1>2. /\ DOMAIN table' = Node /\ DOMAIN buffer' = Node
      /\ status' \in [Node -> {"runs", "ended", "failed"}]
      /\ status'[n] = "ended" /\ table'[n] = <<>> /\ buffer'[n] = <<>>
      /\ \A r \in Node : r # n => /\ status'[r] = status[r] /\ table'[r] = table[r]
                                  /\ buffer'[r] = buffer[r]
  BY <1>1 DEF IInv
<1>3. ASSUME NEW r \in Node
      PROVE  IF status'[r] = "runs"
             THEN /\ TableOf(r, table'[r]) /\ Len(table'[r]) <= MaxNeigh
                  /\ buffer'[r] = <<>> \/ BeaconOf(r, buffer'[r])
             ELSE table'[r] = <<>> /\ buffer'[r] = <<>>
  <2>1. CASE r = n
    BY <1>2, <2>1
  <2>2. CASE r # n
    BY <1>2, <2>2, Running, Stopped
  <2>3. QED
    BY <2>1, <2>2
<1>4. Cardinality(Node) <= MaxNeigh => \A r \in Node : status'[r] # "failed"
  BY <1>2 DEF IInv
<1>5. IInv'
  BY <1>2, <1>3, <1>4 DEF IInv
<1>6. ASSUME NEW m \in Node, NEW r \in Node PROVE Faded(table[r], table'[r], m)
  <2>1. CASE r = n
    BY <1>2, <2>1 DEF Faded
  <2>2. CASE r # n
    BY <1>2, <2>2, SameFades
  <2>3. QED
    BY <2>1, <2>2
<1>7. QED
  BY <1>5, <1>6 DEF Fades

(* The clock's step.                                                       *)
LEMMA TickStep ==
    ASSUME IInv, Tick
    PROVE  IInv' /\ \A m \in Node : Fades(m)
<1>1. /\ table' = [n \in Node |-> [k \in DOMAIN table[n] |-> Aged(table[n][k])]]
      /\ status' = status /\ buffer' = buffer
  BY DEF Tick
<1>2. ASSUME NEW r \in Node
      PROVE  /\ IF status'[r] = "runs"
                THEN /\ TableOf(r, table'[r]) /\ Len(table'[r]) <= MaxNeigh
                     /\ buffer'[r] = <<>> \/ BeaconOf(r, buffer'[r])
                ELSE table'[r] = <<>> /\ buffer'[r] = <<>>
             /\ \A m \in Node : Faded(table[r], table'[r], m)
  <2> DEFINE t == table[r]
             u == [k \in DOMAIN t |-> Aged(t[k])]
  <2>1. table'[r] = u
    BY <1>1
  <2>2. CASE status[r] = "runs"
    <3>1. TableOf(r, t) /\ Len(t) <= MaxNeigh /\ (buffer[r] = <<>> \/ BeaconOf(r, buffer[r]))
      BY <2>2, Running
    <3>2. TableOf(r, u) /\ Len(u) = Len(t) /\ \A m \in Node : Faded(t, u, m)
      <4> HIDE DEF t
      <4>1. QED
        BY <3>1, AgedFacts
    <3> HIDE DEF u
    <3>3. QED
      BY <1>1, <2>1, <2>2, <3>1, <3>2
  <2>3. CASE status[r] # "runs"
    <3>1. t = <<>> /\ buffer[r] = <<>>
      BY <2>3, Stopped
    <3>2. u = <<>>
      BY <3>1
    <3>3. \A m \in Node : Faded(t, u, m)
      BY <3>2 DEF Faded
    <3> HIDE DEF u
    <3>4. QED
      BY <1>1, <2>1, <2>3, <3>1, <3>2, <3>3
  <2>4. QED
    BY <2>2, <2>3
<1>3. DOMAIN table' = Node
  BY <1>1
<1>4. IInv'
  BY <1>1, <1>2, <1>3 DEF IInv
<1>5. QED
  BY <1>2, <1>4 DEF Fades

(* Every step keeps the invariant, and the entries for programs that do    *)
(* not run fade.                                                           *)
LEMMA StepHolds ==
    ASSUME IInv, [Next]_vars
    PROVE  IInv' /\ \A m \in Node : status[m] # "runs" => Fades(m)
<1>1. CASE UNCHANGED vars
  <2>1. status' = status /\ table' = table /\ buffer' = buffer
    BY <1>1 DEF vars
  <2>2. IInv'
    BY <2>1 DEF IInv
  <2>3. ASSUME NEW m \in Node, NEW r \in Node PROVE Faded(table[r], table'[r], m)
    BY <2>1, SameFades
  <2>4. QED
    BY <2>2, <2>3 DEF Fades
<1>2. ASSUME NEW n \in Node, Send(n) \/ Prepare(n) \/ SendPrepared(n) \/ Stop(n)
      PROVE  IInv' /\ \A m \in Node : status[m] # "runs" => Fades(m)
  BY <1>2, SendStep, PrepareStep, SendPreparedStep, StopStep
<1>3. CASE Tick
  BY <1>3, TickStep
<1>4. QED
  BY <1>1, <1>2, <1>3 DEF Next

(* IInv is an invariant: every table starts with its own node and has      *)
(* every other once, and every beacon on its way starts with its sender,   *)
(* the only one at stratum 0.                                              *)
THEOREM Invariance == Spec => []IInv
<1>1. IInv /\ [Next]_vars => IInv'
  BY StepHolds
<1>2. QED
  BY InitHolds, <1>1, PTL DEF Spec

(* The values of the variables; no program fails by beacon_recv's assert   *)
(* when there is room for every node (beacon.c:75-84).                     *)
THEOREM Types == Spec => []TypeOK
<1>1. IInv => TypeOK
  <2> SUFFICES ASSUME IInv PROVE TypeOK
    OBVIOUS
  <2>1. ASSUME NEW n \in Node
        PROVE  (\A k \in DOMAIN table[n] : table[n][k] \in Entry) /\ Len(table[n]) <= MaxNeigh
    <3>1. table[n] \in Seq(Entry)
      BY TableType
    <3>2. \A k \in DOMAIN table[n] : table[n][k] \in Entry
      BY <3>1
    <3>3. CASE status[n] = "runs"
      BY <3>2, <3>3, Running
    <3>4. CASE status[n] # "runs"
      <4>1. table[n] = <<>> /\ MaxNeigh \in Nat
        BY <3>4, Stopped, BoundAssumption
      <4>2. Len(table[n]) <= MaxNeigh
        BY <4>1
      <4>3. QED
        BY <3>2, <4>2
    <3>5. QED
      BY <3>3, <3>4
  <2>2. QED
    BY <2>1 DEF IInv, TypeOK
<1>2. QED
  BY Invariance, <1>1, PTL

(* Every beacon begins with its sender at stratum 0, and tells no other    *)
(* node at stratum 0: beacon_recv's assert (beacon.c:42) holds for every   *)
(* beacon.                                                                 *)
THEOREM OwnEntryFirst == Spec => []SenderFirst
<1>1. IInv => SenderFirst
  <2> SUFFICES ASSUME IInv, NEW n \in Node, status[n] = "runs"
               PROVE  LET beacon == Prepared(Culled(table[n]))
                      IN  /\ beacon # <<>>
                          /\ beacon[1] = [id |-> n, stratum |-> 0]
                          /\ \A k \in 2 .. Len(beacon) : beacon[k].stratum # 0
    BY DEF SenderFirst
  <2>1. BeaconOf(n, Prepared(Culled(table[n])))
    BY SentFacts
  <2>2. QED
    BY <2>1 DEF BeaconOf
<1>2. QED
  BY Invariance, <1>1, PTL

(* Only a node that was heard itself is at stratum 1, though beacons tell  *)
(* wrong strata (beacon.c:104).                                            *)
THEOREM RumoursMakeNoNeighbour == Spec => []StratumOneIsHeard
<1>1. IInv => StratumOneIsHeard
  <2> SUFFICES ASSUME IInv, NEW n \in Node, NEW k \in DOMAIN table[n], table[n][k].stratum = 1
               PROVE  <<table[n][k].id, n>> \in Link
    BY DEF StratumOneIsHeard
  <2>1. status[n] = "runs"
    BY Stopped
  <2>2. TableOf(n, table[n])
    BY <2>1, Running
  <2>3. QED
    BY <2>2 DEF TableOf
<1>2. QED
  BY Invariance, <1>1, PTL

(* No entry takes a program that has ended for a neighbour anew, and those *)
(* that do grow no younger, whatever rumours of it go round.               *)
THEOREM Fading == Spec => EndedFades
<1> DEFINE A == \A m \in {m \in Node : status[m] = "ended"}, n \in Node :
                  \A k \in DOMAIN table'[n] : Near(table'[n], k, m) =>
                      /\ k \in DOMAIN table[n] /\ Near(table[n], k, m)
                      /\ table[n][k].age <= table'[n][k].age
<1>1. IInv /\ [Next]_vars => A
  <2> SUFFICES ASSUME IInv, [Next]_vars, NEW m \in Node, status[m] = "ended", NEW n \in Node
               PROVE  \A k \in DOMAIN table'[n] : Near(table'[n], k, m) =>
                          /\ k \in DOMAIN table[n] /\ Near(table[n], k, m)
                          /\ table[n][k].age <= table'[n][k].age
    OBVIOUS
  <2>1. Fades(m)
    BY StepHolds
  <2>2. QED
    BY <2>1 DEF Fades, Faded
<1>2. QED
  BY Invariance, <1>1, PTL DEF Spec, EndedFades
=============================================================================
