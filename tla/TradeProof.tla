----------------------------- MODULE TradeProof ------------------------------
(***************************************************************************)
(* For every set of players and items: what a session offers is in its     *)
(* inventory, an item is in one inventory and carries a number of its own, *)
(* and a settlement swaps the two offers in one step, whole (Exchange).    *)
(* The first sections are about one inventory and what the settlement does *)
(* to it; OfferOwned is not inductive, and TradeInv adds what it needs: no *)
(* inventory is over-full, where spawnItems would drop items, nobody       *)
(* trades with himself, and an offer does not outlive its session.         *)
(***************************************************************************)
EXTENDS Trade, FiniteSetTheorems, FunctionTheorems, WellFoundedInduction,
        SequenceTheorems, TLAPS

Items(b) == {e.item : e \in b}

\* An inventory that can be numbered further, without two items of one number.
Bounded(b) == \E n \in Nat : \A e \in b : e.num <= n

Tidy(b) ==
    /\ b \subseteq Entry /\ IsFiniteSet(b) /\ Bounded(b)
    /\ \A d, e \in b : d.num = e.num \/ d.item = e.item => d = e

\* An offer of what is in the inventory, each item once.
Owns(b, o) ==
    /\ o \in Seq(Entry) /\ Offered(o) \subseteq b
    /\ \A j, k \in DOMAIN o : o[j].num = o[k].num => j = k

Apart(f) == \A p, q \in Player : p # q => Items(f[p]) \cap Items(f[q]) = {}

-----------------------------------------------------------------------------
(* One inventory.                                                           *)

LEMMA EntryFields == \A e \in Entry : e.num \in Nat /\ e.item \in Item
BY DEF Entry

LEMMA EntryMade == \A n \in Nat, i \in Item :
    /\ [num |-> n, item |-> i] \in Entry
    /\ [num |-> n, item |-> i].num = n /\ [num |-> n, item |-> i].item = i
BY DEF Entry

LEMMA LeastNatural ==
    ASSUME NEW T \in SUBSET Nat, T # {}
    PROVE  \E x \in T : \A y \in T : x <= y
<1>1. \A m, n \in Nat : m < n => <<m, n>> \in OpToRel(<, Nat)
  BY DEF OpToRel
<1>2. PICK R : IsWellFoundedOn(R, Nat) /\ \A m, n \in Nat : m < n => <<m, n>> \in R
  BY <1>1, NatLessThanWellFounded
<1>3. T \subseteq Nat /\ T # {} /\ IsWellFoundedOn(R, Nat)
  BY <1>2
<1>4. PICK x \in T : \A y \in T : ~ (<<y, x>> \in R)
  BY ONLY <1>3, WFMin
<1>5. ASSUME NEW y \in T PROVE x <= y
  <2>1. x \in Nat /\ y \in Nat /\ ~ (<<y, x>> \in R)
    BY <1>4
  <2>2. ~ (y < x)
    BY <1>2, <2>1
  <2>3. QED
    BY <2>1, <2>2
<1>6. QED
  BY <1>4, <1>5

\* The largest number: there is one.
LEMMA LatestIsLargest ==
    ASSUME NEW b, Tidy(b)
    PROVE  Latest(b) \in Nat /\ \A e \in b : e.num <= Latest(b)
<1> DEFINE Above == {n \in Nat : \A e \in b : e.num <= n}
<1>1. Above \in SUBSET Nat /\ Above # {}
  BY DEF Tidy, Bounded
<1>2. PICK n \in Above : \A m \in Above : n <= m
  BY <1>1, LeastNatural
<1>3. n \in Nat /\ \A e \in b : e.num <= n
  BY <1>2
<1>4. ASSUME n \notin {0} \cup {e.num : e \in b} PROVE FALSE
  <2>1. n - 1 \in Nat
    BY <1>3, <1>4
  <2>2. \A e \in b : e.num <= n - 1
    BY <1>3, <1>4, EntryFields DEF Tidy
  <2>3. QED
    BY <1>2, <1>3, <2>1, <2>2
<1> HIDE DEF Above
<1>5. \E k \in {0} \cup {e.num : e \in b} : \A e \in b : e.num <= k
  BY <1>3, <1>4
<1>6. Latest(b) \in {0} \cup {e.num : e \in b} /\ \A e \in b : e.num <= Latest(b)
  BY <1>5 DEF Latest
<1>7. QED
  BY <1>6, EntryFields DEF Tidy

\* A set made of b one by one is no larger.
LEMMA NoLarger ==
    ASSUME NEW b, IsFiniteSet(b), NEW f, NEW t, t = {f[e] : e \in b}
    PROVE  IsFiniteSet(t) /\ Cardinality(t) <= Cardinality(b)
<1> DEFINE g == [e \in b |-> f[e]]
<1>1. g \in Surjection(b, t)
  BY DEF Surjection
<1>2. QED
  BY <1>1, FS_Surjection

\* A login numbers an inventory anew, and changes nothing else of it.
LEMMA RenumberedTidy ==
    ASSUME NEW b, Tidy(b)
    PROVE  /\ Tidy(Renumbered(b)) /\ Items(Renumbered(b)) = Items(b)
           /\ Cardinality(Renumbered(b)) <= Cardinality(b)
<1> DEFINE Upto(n) == {d \in b : d.num <= n}
           N(n) == Cardinality(Upto(n))
           f == [e \in b |-> [num |-> N(e.num), item |-> e.item]]
           r == {f[e] : e \in b}
<1>0. /\ IsFiniteSet(b) /\ \A e \in b : e \in Entry /\ e.num \in Nat /\ e.item \in Item
      /\ \A d, e \in b : d.num = e.num \/ d.item = e.item => d = e
  BY EntryFields DEF Tidy
<1>1. Renumbered(b) = r
  BY DEF Renumbered
<1>2. Cardinality(b) \in Nat /\ \A e \in b : N(e.num) \in Nat /\ N(e.num) <= Cardinality(b)
                                            /\ IsFiniteSet(Upto(e.num))
  <2>1. \A e \in b : Upto(e.num) \in SUBSET b
    OBVIOUS
  <2>2. QED
    BY <1>0, <2>1, FS_Subset, FS_CardinalityType
<1>3. ASSUME NEW d \in b, NEW e \in b, d.num < e.num PROVE N(d.num) # N(e.num)
  <2>1. Upto(d.num) \in SUBSET Upto(e.num)
    BY <1>0, <1>3
  <2>2. e \in Upto(e.num) /\ e \notin Upto(d.num)
    BY <1>0, <1>3
  <2> HIDE DEF Upto
  <2>3. QED
    BY <1>2, <2>1, <2>2, FS_Subset
<1>4. \A e \in b : f[e] \in Entry /\ f[e].num = N(e.num) /\ f[e].item = e.item
  BY <1>0, <1>2 DEF Entry
<1> HIDE DEF N, f
<1>5. \A d, e \in b : f[d].num = f[e].num \/ f[d].item = f[e].item => f[d] = f[e]
  <2> SUFFICES ASSUME NEW d \in b, NEW e \in b, f[d].num = f[e].num \/ f[d].item = f[e].item
               PROVE  d = e
    OBVIOUS
  <2>1. CASE f[d].item = f[e].item
    BY <1>0, <1>4, <2>1
  <2>2. CASE f[d].num = f[e].num
    <3>1. N(d.num) = N(e.num)
      BY <1>4, <2>2
    <3>2. ~(d.num < e.num) /\ ~(e.num < d.num)
      BY <1>3, <3>1
    <3>3. d.num = e.num
      BY <1>0, <3>2
    <3>4. QED
      BY <1>0, <3>3
  <2>3. QED
    BY <2>1, <2>2
<1>6. IsFiniteSet(r) /\ Cardinality(r) <= Cardinality(b)
  BY <1>0, NoLarger
<1>7. Bounded(r)
  BY <1>2, <1>4 DEF Bounded
<1>8. Items(r) = Items(b)
  BY <1>4 DEF Items
<1>9. Tidy(r)
  BY <1>4, <1>5, <1>6, <1>7 DEF Tidy
<1>10. QED
  BY <1>1, <1>6, <1>8, <1>9

\* A part of an inventory.
LEMMA PartTidy ==
    ASSUME NEW b, Tidy(b), NEW c \in SUBSET b
    PROVE  /\ Tidy(c) /\ Items(c) \subseteq Items(b) /\ Cardinality(c) <= Cardinality(b)
           /\ Cardinality(c) \in Nat /\ Cardinality(b) \in Nat
<1>1. IsFiniteSet(b) /\ c \subseteq b
  BY DEF Tidy
<1>2. IsFiniteSet(c) /\ Cardinality(c) <= Cardinality(b)
  BY <1>1, FS_Subset
<1>3. QED
  BY <1>1, <1>2, FS_CardinalityType DEF Tidy, Bounded, Items

-----------------------------------------------------------------------------
(* Offers.                                                                  *)

\* No two places of an offer have the same item.
LEMMA OfferApart ==
    ASSUME NEW b, Tidy(b), NEW o, Owns(b, o)
    PROVE  /\ \A k \in DOMAIN o : o[k] \in b /\ o[k] \in Entry
           /\ \A j, k \in DOMAIN o : o[j].item = o[k].item => j = k
           /\ Offered(o) \subseteq b
BY DEF Tidy, Owns, Offered

LEMMA Emptied == ASSUME NEW b PROVE Owns(b, <<>>)
BY DEF Owns, Offered

\* addTradedItem
LEMMA OfferingOwns ==
    ASSUME NEW b, Tidy(b), NEW o, Owns(b, o), NEW e \in b
    PROVE  Owns(b, Offering(o, e))
<1>1. o \in Seq(Entry) /\ e \in Entry /\ Offered(o) \subseteq b
      /\ \A j, k \in DOMAIN o : o[j].num = o[k].num => j = k
  BY DEF Owns, Tidy
<1>2. CASE \E k \in DOMAIN o : o[k].num = e.num
  BY <1>2 DEF Offering
<1>3. CASE \A k \in DOMAIN o : o[k].num # e.num
  <2>1. /\ Append(o, e) \in Seq(Entry) /\ DOMAIN Append(o, e) = 1 .. Len(o) + 1
        /\ \A k \in 1 .. Len(o) : Append(o, e)[k] = o[k]
        /\ Append(o, e)[Len(o) + 1] = e /\ DOMAIN o = 1 .. Len(o) /\ Len(o) \in Nat
    BY <1>1, AppendProperties, LenProperties
  <2> DEFINE w == Append(o, e)
  <2> HIDE DEF w
  <2>2. \A k \in DOMAIN w : (k \in DOMAIN o /\ w[k] = o[k]) \/ (k = Len(o) + 1 /\ w[k] = e)
    BY <2>1 DEF w
  <2>3. \A k \in DOMAIN w : w[k] \in b
    BY <1>1, <2>2 DEF Offered
  <2>4. \A j, k \in DOMAIN w : w[j].num = w[k].num => j = k
    BY <1>1, <1>3, <2>2
  <2>5. Owns(b, w)
    BY <2>1, <2>3, <2>4 DEF Owns, Offered, w
  <2>6. QED
    BY <1>3, <2>5 DEF Offering, w
<1>4. QED
  BY <1>2, <1>3

\* removeTradedItem
LEMMA WithdrawnOwns ==
    ASSUME NEW b, NEW o, Owns(b, o), NEW k \in DOMAIN o
    PROVE  Owns(b, Withdrawn(o, k))
<1> DEFINE w == Withdrawn(o, k)
           n == Len(o)
           from(i) == IF i < k THEN i ELSE i + 1
<1>1. /\ o \in Seq(Entry) /\ n \in Nat /\ DOMAIN o = 1 .. n /\ k \in 1 .. n
      /\ \A i, j \in DOMAIN o : o[i].num = o[j].num => i = j
  BY LenProperties DEF Owns
<1>2. /\ w \in Seq(Entry) /\ DOMAIN w = 1 .. n - 1
      /\ \A i \in 1 .. n - 1 : w[i] = o[from(i)]
  <2> DEFINE x == SubSeq(o, 1, k - 1)
             y == SubSeq(o, k + 1, n)
  <2>1. /\ x \in Seq(Entry) /\ Len(x) = k - 1 /\ \A i \in 1 .. k - 1 : x[i] = o[i]
    BY <1>1, SubSeqProperties
  <2>2. /\ y \in Seq(Entry) /\ Len(y) = n - k /\ \A i \in 1 .. n - k : y[i] = o[k + i]
    BY <1>1, SubSeqProperties
  <2>3. w = x \o y
    BY DEF Withdrawn
  <2> HIDE DEF w, x, y
  <2>4. /\ w \in Seq(Entry) /\ Len(w) = Len(x) + Len(y)
        /\ \A i \in 1 .. Len(x) + Len(y) : w[i] = IF i <= Len(x) THEN x[i] ELSE y[i - Len(x)]
    BY <2>1, <2>2, <2>3, ConcatProperties
  <2>5. Len(w) = n - 1
    BY <1>1, <2>1, <2>2, <2>4
  <2>6. ASSUME NEW i \in 1 .. n - 1 PROVE w[i] = o[from(i)]
    <3>1. i \in 1 .. Len(x) + Len(y) /\ i \in Int
      BY <1>1, <2>1, <2>2
    <3>2. CASE i < k
      BY <1>1, <2>1, <2>4, <3>1, <3>2
    <3>3. CASE ~(i < k)
      <4>1. i - Len(x) \in 1 .. n - k /\ k + (i - Len(x)) = i + 1 /\ ~(i <= Len(x))
        BY <1>1, <2>1, <3>1, <3>3
      <4>2. w[i] = y[i - Len(x)]
        BY <2>4, <3>1, <4>1
      <4>3. y[i - Len(x)] = o[i + 1]
        BY <2>2, <4>1
      <4>4. QED
        BY <3>3, <4>2, <4>3
    <3>4. QED
      BY <3>2, <3>3
  <2>7. QED
    BY <1>1, <2>4, <2>5, <2>6, LenProperties
<1>3. \A i, j \in 1 .. n - 1 : from(i) \in DOMAIN o /\ (from(i) = from(j) => i = j)
  BY <1>1
<1> HIDE DEF w, from
<1>4. \A i \in DOMAIN w : w[i] \in b
  BY <1>2, <1>3 DEF Owns, Offered
<1>5. \A i, j \in DOMAIN w : w[i].num = w[j].num => i = j
  BY <1>1, <1>2, <1>3
<1>6. QED
  BY <1>2, <1>4, <1>5 DEF Owns, Offered, w

\* The items offered are the player's, so each of them is found and taken out.
LEMMA DeletedWhole ==
    ASSUME NEW b, Tidy(b), NEW o, Owns(b, o)
    PROVE  /\ Deleted(b, o) = b \ Offered(o) /\ Deleted(b, o) \in SUBSET b
           /\ Items(Deleted(b, o)) = Items(b) \ Items(Offered(o))
<1>1. /\ o \in Seq(Entry) /\ DOMAIN o = 1 .. Len(o) /\ Len(o) \in Nat
      /\ \A k \in DOMAIN o : o[k] \in b
      /\ \A d, e \in b : d.num = e.num \/ d.item = e.item => d = e
  BY LenProperties DEF Owns, Offered, Tidy
<1>2. \A k \in DOMAIN o : \A j \in 1 .. k : j \in DOMAIN o
  BY <1>1
<1>3. \A e \in b : e \in Offered(o)
        <=> \E k \in DOMAIN o : o[k].num = e.num /\ \A j \in 1 .. k : \E d \in b : d.num = o[j].num
  BY <1>1, <1>2 DEF Offered
<1>4. Deleted(b, o) = b \ Offered(o)
  BY <1>3 DEF Deleted
<1>5. QED
  BY <1>1, <1>4 DEF Items, Offered

-----------------------------------------------------------------------------
(* What an inventory takes in.                                              *)

\* Without an over-full inventory, there is space for what there is space for.
LEMMA SpaceIsMonotone ==
    ASSUME NEW p \in Player, NEW b, Tidy(b), Cardinality(b) <= Space[p],
           NEW c \in SUBSET b, NEW n \in Nat, HasSpace(p, b, n)
    PROVE  Cardinality(c) + n <= Space[p] /\ \A k \in 1 .. n : HasSpace(p, c, k)
<1>1. Space[p] \in Nat /\ Cardinality(b) \in Nat /\ Cardinality(c) \in Nat
      /\ Cardinality(c) <= Cardinality(b)
  BY PartTidy, TradeAssumption
<1>2. QED
  BY <1>1 DEF HasSpace

\* spawnItems: what came from elsewhere fits, gets numbers that are free, and
\* nothing else changes.
LEMMA SpawnedTidy ==
    ASSUME NEW p \in Player, NEW b, Tidy(b), NEW o \in Seq(Entry),
           \A j, k \in DOMAIN o : o[j].item = o[k].item => j = k,
           Items(b) \cap Items(Offered(o)) = {},
           Cardinality(b) + Len(o) <= Space[p], \A k \in 1 .. Len(o) : HasSpace(p, b, k)
    PROVE  /\ Tidy(Spawned(p, b, o)) /\ Items(Spawned(p, b, o)) = Items(b) \cup Items(Offered(o))
           /\ Cardinality(Spawned(p, b, o)) <= Space[p]
<1> DEFINE top == Latest(b)
           n == Len(o)
           new == [k \in 1 .. n |-> [num |-> top + k, item |-> o[k].item]]
           t == {new[k] : k \in 1 .. n}
<1>1. /\ n \in Nat /\ DOMAIN o = 1 .. n /\ \A k \in 1 .. n : o[k] \in Entry /\ o[k].item \in Item
      /\ top \in Nat /\ \A e \in b : e.num <= top
  BY LatestIsLargest, LenProperties, EntryFields
<1>2. Spawned(p, b, o) = b \cup t
  <2>1. {j \in DOMAIN o : HasSpace(p, b, j)} = 1 .. n
    BY <1>1
  <2>2. QED
    BY <2>1 DEF Spawned
<1> HIDE DEF top
<1>3. \A k \in 1 .. n : new[k] \in Entry /\ new[k].num = top + k /\ new[k].item = o[k].item
  BY <1>1 DEF Entry
<1> HIDE DEF new
<1>4. IsFiniteSet(t) /\ Cardinality(t) <= n /\ Cardinality(t) \in Nat
  <2>1. IsFiniteSet(1 .. n) /\ Cardinality(1 .. n) = n
    BY <1>1, FS_Interval
  <2>2. QED
    BY <2>1, NoLarger, FS_CardinalityType
<1>5. IsFiniteSet(b) /\ b \subseteq Entry /\ Cardinality(b) \in Nat
      /\ \A d, e \in b : d.num = e.num \/ d.item = e.item => d = e
  BY FS_CardinalityType DEF Tidy
<1>6. IsFiniteSet(b \cup t) /\ Cardinality(b \cup t) <= Cardinality(b) + n
  <2>1. /\ IsFiniteSet(b \cup t) /\ IsFiniteSet(b \cap t)
        /\ Cardinality(b \cup t) = Cardinality(b) + Cardinality(t) - Cardinality(b \cap t)
    BY <1>4, <1>5, FS_Union, FS_Intersection
  <2>2. Cardinality(b \cap t) \in Nat
    BY <2>1, FS_CardinalityType
  <2>3. QED
    BY <1>1, <1>4, <1>5, <2>1, <2>2
<1>7. \A k \in 1 .. n : new[k].item \notin Items(b)
  <2>1. \A k \in 1 .. n : o[k] \in Offered(o)
    BY <1>1 DEF Offered
  <2>2. \A k \in 1 .. n : o[k].item \in Items(Offered(o))
    BY <2>1 DEF Items
  <2>3. QED
    BY <1>3, <2>2
<1>8. ASSUME NEW d \in b \cup t, NEW e \in b \cup t, d.num = e.num \/ d.item = e.item
      PROVE  d = e
  <2>1. ASSUME NEW k \in 1 .. n, NEW x \in b PROVE x.num # new[k].num /\ x.item # new[k].item
    <3>1. x.num \in Nat /\ x.num <= top /\ new[k].num = top + k
      BY <1>1, <1>3, <1>5, EntryFields
    <3>2. x.item # new[k].item
      BY <1>7 DEF Items
    <3>3. QED
      BY <1>1, <3>1, <3>2
  <2>2. ASSUME NEW j \in 1 .. n, NEW k \in 1 .. n,
               new[j].num = new[k].num \/ new[j].item = new[k].item
        PROVE  j = k
    BY <1>1, <1>3, <2>2
  <2>3. CASE d \in b /\ e \in b
    BY <1>5, <1>8, <2>3
  <2>4. CASE d \in t /\ e \in t
    BY <1>8, <2>2, <2>4
  <2>5. QED
    BY <1>8, <2>1, <2>3, <2>4
<1>9. Bounded(b \cup t)
  <2>1. \A e \in b \cup t : e.num <= top + n
    BY <1>1, <1>3, <1>5, EntryFields
  <2>2. QED
    BY <1>1, <2>1 DEF Bounded
<1>10. Tidy(b \cup t)
  BY <1>3, <1>5, <1>6, <1>8, <1>9 DEF Tidy
<1>11. Items(b \cup t) = Items(b) \cup Items(Offered(o))
  <2>1. Items(t) = Items(Offered(o))
    BY <1>1, <1>3 DEF Items, Offered
  <2>2. Items(b \cup t) = Items(b) \cup Items(t)
    BY DEF Items
  <2>3. QED
    BY <2>1, <2>2
<1>12. Cardinality(b \cup t) <= Space[p]
  <2>1. Space[p] \in Nat /\ Cardinality(b \cup t) \in Nat
    BY <1>6, FS_CardinalityType, TradeAssumption
  <2>2. QED
    BY <1>1, <1>5, <1>6, <2>1
<1>13. QED
  BY <1>2, <1>10, <1>11, <1>12

\* One side of a settlement: what is offered goes, and what the other offers
\* comes.
LEMMA SideSettled ==
    ASSUME NEW p \in Player, NEW b, Tidy(b), NEW o, Owns(b, o), Cardinality(b) <= Space[p],
           NEW c, Tidy(c), NEW u, Owns(c, u), Items(b) \cap Items(c) = {},
           HasSpace(p, b, Len(u))
    PROVE  /\ Tidy(Spawned(p, Deleted(b, o), u))
           /\ Items(Spawned(p, Deleted(b, o), u)) =
                (Items(b) \ Items(Offered(o))) \cup Items(Offered(u))
           /\ Cardinality(Spawned(p, Deleted(b, o), u)) <= Space[p]
<1> DEFINE d == Deleted(b, o)
<1>1. d \in SUBSET b /\ Items(d) = Items(b) \ Items(Offered(o))
  BY DeletedWhole
<1>2. /\ u \in Seq(Entry) /\ Len(u) \in Nat /\ Items(Offered(u)) \subseteq Items(c)
      /\ \A j, k \in DOMAIN u : u[j].item = u[k].item => j = k
  BY OfferApart, LenProperties DEF Owns, Items
<1> HIDE DEF d
<1>3. Tidy(d) /\ Items(d) \cap Items(Offered(u)) = {}
  BY <1>1, <1>2, PartTidy
<1>4. Cardinality(d) + Len(u) <= Space[p] /\ \A k \in 1 .. Len(u) : HasSpace(p, d, k)
  BY <1>1, <1>2, SpaceIsMonotone
<1>5. QED
  BY <1>1, <1>2, <1>3, <1>4, SpawnedTidy DEF d

-----------------------------------------------------------------------------
(* The invariant.                                                           *)

\* A player's half of a trade and the inventory it is about.
Sound(p) ==
    /\ Tidy(bag[p]) /\ Owns(bag[p], offer[p])
    /\ Cardinality(bag[p]) <= Space[p]
    /\ partner[p] # p
    /\ p \notin online => offer[p] = <<>>

TradeInv == TypeOK /\ Apart(bag) /\ \A p \in Player : Sound(p)

LEMMA Invariant == TradeInv => OfferOwned
<1> SUFFICES ASSUME TradeInv PROVE OfferOwned
  OBVIOUS
<1>1. \A p \in Player : Sound(p)
  BY DEF TradeInv
<1>2. \A p \in Player :
        /\ Offered(offer[p]) \subseteq bag[p]
        /\ \A j, k \in DOMAIN offer[p] : offer[p][j].num = offer[p][k].num => j = k
  BY <1>1 DEF Sound, Owns
<1>3. ASSUME NEW p \in Player, NEW q \in Player, NEW d \in bag[p], NEW e \in bag[q],
             (p = q /\ d.num = e.num) \/ d.item = e.item
      PROVE  p = q /\ d = e
  <2>1. CASE p = q
    BY <1>1, <1>3, <2>1 DEF Sound, Tidy
  <2>2. CASE p # q
    <3>1. d.item \in Items(bag[p]) /\ e.item \in Items(bag[q])
      BY DEF Items
    <3>2. Items(bag[p]) \cap Items(bag[q]) = {}
      BY <2>2 DEF TradeInv, Apart
    <3>3. QED
      BY <1>3, <2>2, <3>1, <3>2
  <2>3. QED
    BY <2>1, <2>2
<1>4. QED
  BY <1>2, <1>3 DEF OfferOwned, OneOfEach

\* What the invariant says of every player.
LEMMA Known ==
    ASSUME TradeInv, NEW p \in Player
    PROVE  /\ Tidy(bag[p]) /\ Owns(bag[p], offer[p]) /\ Cardinality(bag[p]) <= Space[p]
           /\ bag[p] \subseteq Entry /\ offer[p] \in Seq(Entry) /\ mp[p] \in 0 .. MaxMp
           /\ partner[p] # p /\ (p \notin online => offer[p] = <<>>)
           /\ partner[p] \in Player \cup {NoPlayer}
BY DEF TradeInv, Sound, Tidy, Owns, TypeOK

LEMMA Types ==
    ASSUME TradeInv
    PROVE  /\ online \subseteq Player /\ place \in [Player -> {"lobby", "trade", "away"}]
           /\ asked \subseteq Player \X Player
           /\ partner \in [Player -> Player \cup {NoPlayer}] /\ offer \in [Player -> Seq(Entry)]
           /\ locked \in [Player -> BOOLEAN] /\ bag \in [Player -> SUBSET Entry]
           /\ mp \in [Player -> 0 .. MaxMp]
BY DEF TradeInv, TypeOK

\* The inventories stay as they are.
LEMMA SameBags ==
    ASSUME TradeInv, TypeOK', UNCHANGED bag,
           \A p \in Player : /\ Owns(bag[p], offer'[p]) /\ partner'[p] # p
                             /\ p \notin online' => offer'[p] = <<>>
    PROVE  TradeInv'
BY Known DEF TradeInv, Sound

-----------------------------------------------------------------------------
(* Who has an item.                                                         *)

With(f, i) == {p \in Player : \E e \in f[p] : e.item = i}

Anyone(S) == CHOOSE p \in S : TRUE

OwnerIn(f) == [i \in Item |-> IF With(f, i) = {} THEN NoPlayer ELSE Anyone(With(f, i))]

LEMMA OwnerOfBags == owner = OwnerIn(bag) /\ owner' = OwnerIn(bag')
BY DEF owner, Holders, OwnerIn, With, Anyone

LEMMA WithItems == \A f, i : With(f, i) = {p \in Player : i \in Items(f[p])}
BY DEF With, Items

LEMMA OwnerIs ==
    ASSUME NEW f, Apart(f)
    PROVE  /\ OwnerIn(f) \in [Item -> Player \cup {NoPlayer}]
           /\ \A i \in Item : \A p \in Player : OwnerIn(f)[i] = p <=> i \in Items(f[p])
<1>1. ASSUME NEW i \in Item
      PROVE  /\ OwnerIn(f)[i] \in Player \cup {NoPlayer}
             /\ \A p \in Player : OwnerIn(f)[i] = p <=> i \in Items(f[p])
  <2>1. CASE With(f, i) = {}
    BY <2>1, WithItems, TradeAssumption DEF OwnerIn
  <2>2. CASE With(f, i) # {}
    <3>1. OwnerIn(f)[i] \in With(f, i)
      BY <2>2 DEF OwnerIn, Anyone
    <3>2. \A p, q \in With(f, i) : p = q
      BY WithItems DEF Apart
    <3>3. QED
      BY <3>1, <3>2, WithItems
  <2>3. QED
    BY <2>1, <2>2
<1>2. QED
  BY <1>1 DEF OwnerIn

\* Nothing changes hands.
LEMMA SameOwner ==
    ASSUME NEW f, NEW g, \A p \in Player : Items(g[p]) = Items(f[p])
    PROVE  OwnerIn(g) = OwnerIn(f)
<1>1. \A i : With(g, i) = With(f, i)
  BY WithItems
<1>2. QED
  BY <1>1 DEF OwnerIn

\* An item leaves the game.
LEMMA OwnerLost ==
    ASSUME NEW f, NEW g, Apart(f), Apart(g), NEW p \in Player, NEW x \in Item,
           x \in Items(f[p]), Items(g[p]) = Items(f[p]) \ {x},
           \A q \in Player \ {p} : Items(g[q]) = Items(f[q])
    PROVE  OwnerIn(g) = [OwnerIn(f) EXCEPT ![x] = NoPlayer]
<1> DEFINE h == [OwnerIn(f) EXCEPT ![x] = NoPlayer]
<1>1. /\ OwnerIn(f) \in [Item -> Player \cup {NoPlayer}]
      /\ OwnerIn(g) \in [Item -> Player \cup {NoPlayer}]
      /\ \A i \in Item : \A q \in Player : OwnerIn(f)[i] = q <=> i \in Items(f[q])
      /\ \A i \in Item : \A q \in Player : OwnerIn(g)[i] = q <=> i \in Items(g[q])
  BY OwnerIs
<1>2. \A q \in Player : x \notin Items(g[q])
  BY DEF Apart
<1>3. ASSUME NEW i \in Item PROVE OwnerIn(g)[i] = h[i]
  <2>1. CASE i = x
    BY <1>1, <1>2, <2>1
  <2>2. CASE i # x
    <3>1. \A q \in Player : i \in Items(g[q]) <=> i \in Items(f[q])
      BY <2>2
    <3>2. OwnerIn(g)[i] = OwnerIn(f)[i]
      BY <1>1, <3>1
    <3>3. QED
      BY <1>1, <2>2, <3>2
  <2>3. QED
    BY <2>1, <2>2
<1>4. h \in [Item -> Player \cup {NoPlayer}]
  BY <1>1
<1> HIDE DEF h
<1>5. OwnerIn(g) = h
  BY <1>1, <1>3, <1>4
<1>6. QED
  BY <1>5 DEF h

Swapped(h, p, q, gives, takes) ==
    [i \in Item |-> IF i \in gives THEN q ELSE IF i \in takes THEN p ELSE h[i]]

\* Two players swap items.
LEMMA OwnerSwapped ==
    ASSUME NEW f, NEW g, Apart(f), Apart(g), NEW p \in Player, NEW q \in Player \ {p},
           NEW gives, NEW takes, gives \subseteq Items(f[p]), takes \subseteq Items(f[q]),
           Items(g[p]) = (Items(f[p]) \ gives) \cup takes,
           Items(g[q]) = (Items(f[q]) \ takes) \cup gives,
           \A r \in Player \ {p, q} : Items(g[r]) = Items(f[r])
    PROVE  OwnerIn(g) = Swapped(OwnerIn(f), p, q, gives, takes)
<1> DEFINE h == [i \in Item |-> IF i \in gives THEN q
                                ELSE IF i \in takes THEN p ELSE OwnerIn(f)[i]]
<1>1. /\ OwnerIn(f) \in [Item -> Player \cup {NoPlayer}]
      /\ OwnerIn(g) \in [Item -> Player \cup {NoPlayer}]
      /\ \A i \in Item : \A r \in Player : OwnerIn(f)[i] = r <=> i \in Items(f[r])
      /\ \A i \in Item : \A r \in Player : OwnerIn(g)[i] = r <=> i \in Items(g[r])
  BY OwnerIs
<1>2. Items(f[p]) \cap Items(f[q]) = {}
  BY DEF Apart
<1>3. ASSUME NEW i \in Item PROVE OwnerIn(g)[i] = h[i]
  <2>1. CASE i \in gives
    BY <1>1, <2>1
  <2>2. CASE i \notin gives /\ i \in takes
    BY <1>1, <2>2
  <2>3. CASE i \notin gives /\ i \notin takes
    <3>1. \A r \in Player : i \in Items(g[r]) <=> i \in Items(f[r])
      BY <2>3
    <3>2. OwnerIn(g)[i] = OwnerIn(f)[i]
      BY <1>1, <3>1
    <3>3. QED
      BY <2>3, <3>2
  <2>4. QED
    BY <2>1, <2>2, <2>3
<1>4. DOMAIN OwnerIn(g) = Item /\ DOMAIN h = Item
  BY <1>1
<1> HIDE DEF h
<1>5. OwnerIn(g) = [i \in Item |-> h[i]]
  BY <1>1, <1>3
<1>6. QED
  BY <1>5 DEF h, Swapped

-----------------------------------------------------------------------------
(* The steps.                                                               *)

\* What a step does: it keeps the invariant, and is a step of Exchange.
Advances == TradeInv' /\ [AbstractTrade!Next]_owner

\* No inventory changes, and so nothing does for Exchange.
LEMMA BagsStay ==
    ASSUME TradeInv, TypeOK', UNCHANGED bag,
           \A p \in Player : /\ Owns(bag[p], offer'[p]) /\ partner'[p] # p
                             /\ p \notin online' => offer'[p] = <<>>
    PROVE  Advances
<1>1. owner' = owner
  BY OwnerOfBags
<1>2. QED
  BY <1>1, SameBags DEF Advances

\* What is offered stays as well.
LEMMA OffersStay ==
    ASSUME TradeInv, TypeOK', UNCHANGED <<bag, offer>>,
           \A p \in Player : partner'[p] # p /\ (p \notin online' => p \notin online)
    PROVE  Advances
BY Known, BagsStay

LEMMA LoginAdvances == ASSUME TradeInv, NEW p \in Player, Login(p) PROVE Advances
<1>1. /\ p \notin online /\ online' = online \cup {p} /\ UNCHANGED <<place, asked, half, mp>>
      /\ bag' = [bag EXCEPT ![p] = Renumbered(bag[p])]
  BY DEF Login
<1>2. /\ bag'[p] = Renumbered(bag[p]) /\ \A q \in Player \ {p} : bag'[q] = bag[q]
      /\ bag' \in [Player -> SUBSET Entry]
  <2>1. Renumbered(bag[p]) \subseteq Entry
    BY Known, RenumberedTidy DEF Tidy
  <2>2. QED
    BY <1>1, <2>1, Types
<1>3. /\ Tidy(bag'[p]) /\ Items(bag'[p]) = Items(bag[p])
      /\ Cardinality(bag'[p]) <= Cardinality(bag[p])
  BY <1>2, Known, RenumberedTidy
<1>4. Owns(bag'[p], offer'[p]) /\ offer'[p] = <<>>
  BY <1>1, Known, Emptied DEF half
<1>5. Cardinality(bag'[p]) <= Space[p]
  BY <1>3, Known, FS_CardinalityType, TradeAssumption DEF Tidy
<1>6. \A q \in Player : Sound(q)'
  <2>1. Sound(p)'
    BY <1>1, <1>3, <1>4, <1>5, Known DEF Sound, half
  <2>2. \A q \in Player \ {p} : Sound(q)'
    BY <1>1, <1>2, Known DEF Sound, half
  <2>3. QED
    BY <2>1, <2>2
<1>7. \A q \in Player : Items(bag'[q]) = Items(bag[q])
  BY <1>2, <1>3
<1>8. TradeInv'
  BY <1>1, <1>2, <1>6, <1>7, Types DEF TradeInv, TypeOK, Apart, half
<1>9. owner' = owner
  BY <1>7, OwnerOfBags, SameOwner
<1>10. QED
  BY <1>8, <1>9 DEF Advances

LEMMA DisconnectAdvances == ASSUME TradeInv, NEW p \in Player, Disconnect(p) PROVE Advances
<1>1. TypeOK'
  BY Types DEF Disconnect, TypeOK
<1>2. \A q \in Player : /\ Owns(bag[q], offer'[q]) /\ partner'[q] # q
                        /\ q \notin online' => offer'[q] = <<>>
  BY Types, Known, Emptied, TradeAssumption DEF Disconnect
<1>3. QED
  BY <1>1, <1>2, BagsStay DEF Disconnect

LEMMA MoveAdvances == ASSUME TradeInv, NEW p \in Player, Move(p) \/ Spend(p) PROVE Advances
<1>1. UNCHANGED <<online, asked, half, bag>>
  BY DEF Move, Spend
<1>2. CASE Move(p)
  BY <1>1, <1>2, Types, Known, OffersStay DEF Move, TypeOK, half
<1>3. CASE Spend(p)
  <2>1. mp' \in [Player -> 0 .. MaxMp]
    BY <1>3, Types, TradeAssumption DEF Spend
  <2>2. QED
    BY <1>1, <1>3, <2>1, Types, Known, OffersStay DEF Spend, TypeOK, half
<1>4. QED
  BY <1>2, <1>3

LEMMA DiscardAdvances ==
    ASSUME TradeInv, NEW p \in Player, NEW e \in bag[p], Discard(p, e) PROVE Advances
<1>1. /\ p \in online /\ e \notin Offered(offer[p]) /\ UNCHANGED <<online, place, asked, half, mp>>
      /\ bag' = [bag EXCEPT ![p] = bag[p] \ {e}]
  BY DEF Discard
<1>2. /\ bag'[p] = bag[p] \ {e} /\ \A q \in Player \ {p} : bag'[q] = bag[q]
      /\ bag' \in [Player -> SUBSET Entry]
  BY <1>1, Types
<1>3. Tidy(bag'[p]) /\ Cardinality(bag'[p]) <= Space[p] /\ e.item \in Item
  <2>1. bag'[p] \in SUBSET bag[p]
    BY <1>2
  <2>2. Tidy(bag'[p]) /\ Cardinality(bag'[p]) <= Cardinality(bag[p])
        /\ Cardinality(bag'[p]) \in Nat /\ Cardinality(bag[p]) \in Nat
    BY <2>1, Known, PartTidy
  <2>3. QED
    BY <2>2, Known, EntryFields, TradeAssumption
<1>4. Items(bag'[p]) = Items(bag[p]) \ {e.item} /\ e.item \in Items(bag[p])
  BY <1>2, Known DEF Items, Tidy
<1>5. \A q \in Player \ {p} : Items(bag'[q]) = Items(bag[q])
  BY <1>2
<1>6. Owns(bag'[p], offer[p])
  BY <1>1, <1>2, Known DEF Owns
<1>7. \A q \in Player : Sound(q)'
  <2>1. Sound(p)'
    BY <1>1, <1>3, <1>6, Known DEF Sound, half
  <2>2. \A q \in Player \ {p} : Sound(q)'
    BY <1>1, <1>2, Known DEF Sound, half
  <2>3. QED
    BY <2>1, <2>2
<1>8. Apart(bag')
  BY <1>4, <1>5 DEF Apart, TradeInv
<1>9. TradeInv'
  BY <1>1, <1>2, <1>7, <1>8, Types DEF TradeInv, TypeOK, half
<1>10. owner' = [owner EXCEPT ![e.item] = NoPlayer]
  BY <1>3, <1>4, <1>5, <1>8, OwnerOfBags, OwnerLost DEF TradeInv
<1>11. QED
  BY <1>3, <1>9, <1>10 DEF Advances, AbstractTrade!Next, AbstractTrade!Discard

\* Requests, their refusal and their acceptance leave the offers alone.
LEMMA AskingAdvances ==
    ASSUME TradeInv, NEW p \in Player, NEW q \in Player,
           Ask(p, q) \/ Decline(p, q) \/ Accept(p, q)
    PROVE  Advances
<1>1. <<p, q>> \in Friends => p # q
  BY TradeAssumption
<1>2. /\ UNCHANGED <<online, offer, locked, bag, mp>>
      /\ asked' \subseteq Player \X Player
      /\ place' \in [Player -> {"lobby", "trade", "away"}]
      /\ partner' \in [Player -> Player \cup {NoPlayer}]
      /\ \A r \in Player : partner'[r] # r
  <2>1. CASE Ask(p, q)
    BY <2>1, Types, Known DEF Ask, half
  <2>2. CASE Decline(p, q)
    BY <1>1, <2>2, Types, Known DEF Decline
  <2>3. CASE Accept(p, q)
    <3>1. CASE <<p, q>> \in Friends /\ InLobby(q)
      <4>1. /\ place' = [place EXCEPT ![p] = "trade", ![q] = "trade"]
            /\ partner' = [partner EXCEPT ![p] = q, ![q] = p]
            /\ UNCHANGED <<online, offer, locked, bag, mp>>
            /\ asked' = asked \ {<<q, p>>} /\ p # q
        BY <1>1, <2>3, <3>1 DEF Accept
      <4>2. \A r \in Player : partner'[r] # r
        BY <4>1, Types, Known
      <4>3. QED
        BY <4>1, <4>2, Types
    <3>2. CASE ~(<<p, q>> \in Friends /\ InLobby(q))
      <4>1. UNCHANGED <<place, partner>>
        BY <2>3, <3>2 DEF Accept
      <4>2. QED
        BY <2>3, <4>1, Types, Known DEF Accept
    <3>3. QED
      BY <3>1, <3>2
  <2>4. QED
    BY <2>1, <2>2, <2>3
<1>3. TypeOK'
  BY <1>2, Types DEF TypeOK
<1>4. QED
  BY <1>2, <1>3, OffersStay

\* resetTradeInfo
LEMMA ResetTypes ==
    ASSUME TradeInv, NEW S \in SUBSET Player, Reset(S)
    PROVE  /\ place' \in [Player -> {"lobby", "trade", "away"}]
           /\ partner' \in [Player -> Player \cup {NoPlayer}]
           /\ offer' \in [Player -> Seq(Entry)] /\ locked' \in [Player -> BOOLEAN]
           /\ \A p \in Player : partner'[p] # p
           /\ \A p \in Player : offer'[p] = <<>> \/ (p \notin S /\ offer'[p] = offer[p])
           /\ \A p \in S : offer'[p] = <<>>
<1>1. <<>> \in Seq(Entry)
  OBVIOUS
<1>2. \A p \in Player : offer[p] \in Seq(Entry)
  BY Types
<1>3. offer' \in [Player -> Seq(Entry)]
  BY <1>1, <1>2 DEF Reset
<1>4. QED
  BY <1>3, Types, Known, TradeAssumption DEF Reset

LEMMA GivingUpAdvances ==
    ASSUME TradeInv, NEW p \in Player, PartnerGone(p) \/ Cancel(p)
    PROVE  Advances
<1>1. /\ UNCHANGED <<online, asked, bag, mp>>
      /\ \E S \in SUBSET Player : Reset(S)
  BY Types DEF PartnerGone, Cancel, Reached
<1>2. PICK S \in SUBSET Player : Reset(S)
  BY <1>1
<1>3. TypeOK'
  BY <1>1, <1>2, ResetTypes, Types DEF TypeOK
<1>4. \A q \in Player : /\ Owns(bag[q], offer'[q]) /\ partner'[q] # q
                        /\ q \notin online' => offer'[q] = <<>>
  BY <1>1, <1>2, ResetTypes, Known, Emptied
<1>5. QED
  BY <1>1, <1>3, <1>4, BagsStay

\* Offers grow and shrink, and stay offers of what is there.
LEMMA OfferingAdvances ==
    ASSUME TradeInv, NEW p \in Player,
           \/ \E e \in bag[p] : AddItem(p, e)
           \/ \E k \in DOMAIN offer[p] : RemoveItem(p, k)
    PROVE  Advances
<1>1. PICK o : /\ offer' = [offer EXCEPT ![p] = o] /\ Owns(bag[p], o) /\ p \in online
               /\ UNCHANGED <<online, place, asked, partner, locked, bag, mp>>
  <2>1. ASSUME NEW e \in bag[p], AddItem(p, e)
        PROVE  /\ offer' = [offer EXCEPT ![p] = Offering(offer[p], e)]
               /\ Owns(bag[p], Offering(offer[p], e)) /\ p \in online
               /\ UNCHANGED <<online, place, asked, partner, locked, bag, mp>>
    BY <2>1, Known, OfferingOwns DEF AddItem, Reached
  <2>2. ASSUME NEW k \in DOMAIN offer[p], RemoveItem(p, k)
        PROVE  /\ offer' = [offer EXCEPT ![p] = Withdrawn(offer[p], k)]
               /\ Owns(bag[p], Withdrawn(offer[p], k)) /\ p \in online
               /\ UNCHANGED <<online, place, asked, partner, locked, bag, mp>>
    BY <2>2, Known, WithdrawnOwns DEF RemoveItem, Reached
  <2>3. QED
    BY <2>1, <2>2
<1>2. o \in Seq(Entry)
  BY <1>1 DEF Owns
<1>3. offer' \in [Player -> Seq(Entry)] /\ offer'[p] = o
      /\ \A q \in Player \ {p} : offer'[q] = offer[q]
  BY <1>1, <1>2, Types
<1>4. TypeOK'
  BY <1>1, <1>3, Types DEF TypeOK
<1>5. \A q \in Player : /\ Owns(bag[q], offer'[q]) /\ partner'[q] # q
                        /\ q \notin online' => offer'[q] = <<>>
  BY <1>1, <1>3, Known
<1>6. QED
  BY <1>1, <1>4, <1>5, BagsStay

LEMMA ConfirmAdvances ==
    ASSUME TradeInv, NEW p \in Player, Confirm(p) \/ Refuse(p)
    PROVE  Advances
<1>1. UNCHANGED <<online, asked, partner, offer, bag, mp>>
  BY DEF Confirm, Refuse, half
<1>2. place' \in [Player -> {"lobby", "trade", "away"}] /\ locked' \in [Player -> BOOLEAN]
  BY Types DEF Confirm, Refuse, half
<1>3. TypeOK'
  BY <1>1, <1>2, Types DEF TypeOK
<1>4. QED
  BY <1>1, <1>3, Known, OffersStay

LEMMA ChargedType == ASSUME NEW m \in 0 .. MaxMp, NEW n \in Nat PROVE Charged(m, n) \in 0 .. MaxMp
<1>1. Fee \in Nat /\ MaxMp \in Nat
  BY TradeAssumption
<1>2. Fee * n \in Nat
  BY <1>1
<1> DEFINE c == Fee * n
<1>3. \A x \in Nat : m - x >= 0 => m - x \in 0 .. MaxMp
  BY <1>1
<1>4. QED
  BY <1>2, <1>3 DEF Charged

\* handleTradeFinalization, both locked: whatever either of them offers changes
\* hands at once, and all of it.
LEMMA SettleAdvances == ASSUME TradeInv, NEW p \in Player, Settle(p) PROVE Advances
<1>0. PICK q \in Player : q = partner[p]
  BY Known, Types DEF Settle, Settling, Reached
<1> DEFINE b == bag[p]
           c == bag[q]
           o == offer[p]
           u == offer[q]
           b2 == Spawned(p, Deleted(b, o), u)
           c2 == Spawned(q, Deleted(c, u), o)
<1>1. /\ q \in Player /\ q # p /\ p \in online /\ q \in online
      /\ HasSpace(q, c, Len(o)) /\ HasSpace(p, b, Len(u))
      /\ mp' = [mp EXCEPT ![p] = Charged(mp[p], Len(o)), ![q] = Charged(mp[q], Len(u))]
      /\ bag' = [bag EXCEPT ![p] = b2, ![q] = c2]
      /\ Reset({p, q}) /\ UNCHANGED <<online, asked>>
  <2>1. q \in Player /\ q # p /\ p \in online /\ q \in online
    BY <1>0, Known, Types DEF Settle, Settling, Reached
  <2>2. /\ mp' = [mp EXCEPT ![p] = Charged(@, Len(o)), ![q] = Charged(@, Len(u))]
        /\ bag' = [bag EXCEPT ![p] = Spawned(p, Deleted(@, o), u),
                              ![q] = Spawned(q, Deleted(@, u), o)]
    BY <1>0 DEF Settle
  <2>3. QED
    BY <1>0, <2>1, <2>2, Types DEF Settle
<1>2. /\ Tidy(b) /\ Owns(b, o) /\ Cardinality(b) <= Space[p]
      /\ Tidy(c) /\ Owns(c, u) /\ Cardinality(c) <= Space[q]
      /\ Items(b) \cap Items(c) = {}
  BY <1>1, Known DEF TradeInv, Apart
<1>3. /\ Tidy(b2) /\ Items(b2) = (Items(b) \ Items(Offered(o))) \cup Items(Offered(u))
      /\ Cardinality(b2) <= Space[p]
  BY <1>1, <1>2, SideSettled
<1>4. /\ Tidy(c2) /\ Items(c2) = (Items(c) \ Items(Offered(u))) \cup Items(Offered(o))
      /\ Cardinality(c2) <= Space[q]
  BY <1>1, <1>2, SideSettled
<1>5. /\ Items(Offered(o)) \subseteq Items(b) /\ Items(Offered(u)) \subseteq Items(c)
  BY <1>2 DEF Owns, Items
<1>6. Len(o) \in Nat /\ Len(u) \in Nat
  BY <1>2, LenProperties DEF Owns
<1>7. mp' \in [Player -> 0 .. MaxMp]
  BY <1>1, <1>6, Types, ChargedType
<1> HIDE DEF b2, c2
<1>8. /\ bag'[p] = b2 /\ bag'[q] = c2 /\ \A r \in Player \ {p, q} : bag'[r] = bag[r]
      /\ bag' \in [Player -> SUBSET Entry]
  <2>1. b2 \subseteq Entry /\ c2 \subseteq Entry
    BY <1>3, <1>4 DEF Tidy
  <2>2. QED
    BY <1>1, <2>1, Types
<1>9. /\ \A r \in Player : partner'[r] # r
      /\ offer'[p] = <<>> /\ offer'[q] = <<>>
      /\ \A r \in Player \ {p, q} : offer'[r] = <<>> \/ offer'[r] = offer[r]
  BY <1>1, ResetTypes
<1>10. \A r \in Player : Sound(r)'
  <2>1. Sound(p)' /\ Sound(q)'
    BY <1>1, <1>3, <1>4, <1>8, <1>9, Emptied DEF Sound
  <2>2. ASSUME NEW r \in Player \ {p, q} PROVE Sound(r)'
    BY <1>1, <1>8, <1>9, Known, Emptied DEF Sound
  <2>3. QED
    BY <2>1, <2>2
<1>11. Apart(bag')
  <2>1. \A r \in Player \ {p, q} : Items(bag'[r]) = Items(bag[r])
    BY <1>8
  <2>2. Items(bag'[p]) \cap Items(bag'[q]) = {}
    BY <1>2, <1>3, <1>4, <1>5, <1>8
  <2>3. Items(bag'[p]) \subseteq Items(b) \cup Items(c) /\ Items(bag'[q]) \subseteq Items(b) \cup Items(c)
    BY <1>3, <1>4, <1>5, <1>8
  <2> HIDE DEF b, c
  <2>4. \A r \in Player \ {p, q} : Items(bag'[r]) \cap (Items(b) \cup Items(c)) = {}
    BY <1>1, <2>1 DEF TradeInv, Apart, b, c
  <2>5. \A r, s \in Player \ {p, q} : r # s => Items(bag'[r]) \cap Items(bag'[s]) = {}
    BY <2>1 DEF TradeInv, Apart
  <2>6. QED
    BY <2>2, <2>3, <2>4, <2>5 DEF Apart
<1>12. TypeOK'
  <2>1. {p, q} \in SUBSET Player
    BY <1>1
  <2>2. /\ place' \in [Player -> {"lobby", "trade", "away"}]
        /\ partner' \in [Player -> Player \cup {NoPlayer}]
        /\ offer' \in [Player -> Seq(Entry)] /\ locked' \in [Player -> BOOLEAN]
    BY <1>1, <2>1, ResetTypes
  <2>3. QED
    BY <1>1, <1>7, <1>8, <2>2, Types DEF TypeOK
<1>13. TradeInv'
  BY <1>10, <1>11, <1>12 DEF TradeInv
<1> DEFINE gives == Items(Offered(o))
           takes == Items(Offered(u))
<1>14. OwnerIn(bag') = Swapped(OwnerIn(bag), p, q, gives, takes)
  <2> HIDE DEF gives, takes
  <2>1. /\ Items(bag'[p]) = (Items(bag[p]) \ gives) \cup takes
        /\ Items(bag'[q]) = (Items(bag[q]) \ takes) \cup gives
        /\ gives \subseteq Items(bag[p]) /\ takes \subseteq Items(bag[q])
    BY <1>3, <1>4, <1>5, <1>8 DEF gives, takes
  <2>2. \A r \in Player \ {p, q} : Items(bag'[r]) = Items(bag[r])
    BY <1>8
  <2>3. q \in Player \ {p} /\ Apart(bag)
    BY <1>1 DEF TradeInv
  <2>4. QED
    BY <1>11, <2>1, <2>2, <2>3, OwnerSwapped
<1>15. gives \subseteq {i \in Item : owner[i] = p} /\ takes \subseteq {i \in Item : owner[i] = q}
  <2>1. \A r \in Player : \A i \in Items(bag[r]) : i \in Item /\ OwnerIn(bag)[i] = r
    BY Known, EntryFields, OwnerIs DEF TradeInv, Items
  <2>2. QED
    BY <1>1, <1>5, <2>1, OwnerOfBags
<1>16. owner' = [i \in Item |-> IF i \in gives THEN q ELSE IF i \in takes THEN p ELSE owner[i]]
  BY <1>14, OwnerOfBags DEF Swapped
<1> HIDE DEF gives, takes
<1>17. /\ gives \in SUBSET AbstractTrade!OwnedBy(p) /\ takes \in SUBSET AbstractTrade!OwnedBy(q)
       /\ AbstractTrade!Swap(p, q, gives, takes)
  BY <1>15, <1>16 DEF AbstractTrade!OwnedBy, AbstractTrade!Swap
<1>18. q \in Player \ {p}
  BY <1>1
<1>19. QED
  BY <1>13, <1>17, <1>18 DEF Advances, AbstractTrade!Next

LEMMA NextAdvances == ASSUME TradeInv, Next PROVE Advances
BY LoginAdvances, DisconnectAdvances, MoveAdvances, DiscardAdvances, AskingAdvances,
   GivingUpAdvances, OfferingAdvances, ConfirmAdvances, SettleAdvances DEF Next

LEMMA StutterAdvances == ASSUME TradeInv, UNCHANGED vars PROVE Advances
<1>1. UNCHANGED <<online, place, asked, partner, offer, locked, bag, mp>>
  BY DEF vars, half
<1>2. TypeOK'
  BY <1>1, Types DEF TypeOK
<1>3. QED
  BY <1>1, <1>2, OffersStay, Known

\* The inventories of the database: numbered from 1, and no item in two.
LEMMA InitHolds == Init => TradeInv
<1> SUFFICES ASSUME Init PROVE TradeInv
  OBVIOUS
<1>1. IsFiniteSet(Item) /\ Cardinality(Item) \in Nat
  BY TradeAssumption, FS_CardinalityType
<1> DEFINE N == 1 .. Cardinality(Item)
<1>2. /\ online = {} /\ asked = {} /\ OneOfEach
      /\ bag \in [Player -> SUBSET [num : N, item : Item]]
      /\ \A p \in Player : /\ partner[p] = NoPlayer /\ offer[p] = <<>>
                           /\ Cardinality(bag[p]) <= Space[p]
  BY DEF Init
<1>3. N \subseteq Nat /\ \A n \in N : n <= Cardinality(Item)
  BY <1>1
<1> HIDE DEF N
<1>4. ASSUME NEW p \in Player PROVE bag[p] \subseteq Entry /\ Tidy(bag[p])
  <2>1. \A e \in bag[p] : e \in [num : N, item : Item] /\ e.num \in N /\ e.item \in Item
    BY <1>2
  <2>2. bag[p] \subseteq Entry /\ Bounded(bag[p])
    BY <1>1, <1>3, <2>1 DEF Entry, Bounded
  <2>3. \A d, e \in bag[p] : d.num = e.num \/ d.item = e.item => d = e
    BY <1>2 DEF OneOfEach
  <2> DEFINE f == [e \in bag[p] |-> e.item]
  <2>4. f \in Injection(bag[p], Item)
    BY <2>1, <2>3 DEF Injection, IsInjective
  <2>5. IsFiniteSet(bag[p])
    BY <1>1, <2>4, FS_Injection
  <2>6. QED
    BY <2>2, <2>3, <2>5 DEF Tidy
<1>5. Apart(bag)
  BY <1>2 DEF OneOfEach, Apart, Items
<1>6. \A p \in Player : Sound(p)
  BY <1>2, <1>4, Emptied, TradeAssumption DEF Sound
<1>7. TypeOK
  <2>1. bag \in [Player -> SUBSET Entry]
    BY <1>2, <1>4
  <2>2. MaxMp \in 0 .. MaxMp /\ <<>> \in Seq(Entry)
    BY TradeAssumption
  <2>3. QED
    BY <2>1, <2>2 DEF Init, TypeOK
<1>8. QED
  BY <1>5, <1>6, <1>7 DEF TradeInv

LEMMA TradeHolds == Spec => []TradeInv
<1>1. TradeInv /\ [Next]_vars => TradeInv'
  BY NextAdvances, StutterAdvances DEF Advances
<1>2. QED
  BY <1>1, InitHolds, PTL DEF Spec

-----------------------------------------------------------------------------
(* The theorems.                                                            *)

\* OfferOwned: whatever order requests, offers, confirmations, logins and
\* disconnects come in, a session offers what it has, each item once, and no
\* item is in two inventories or under a number of another one.
THEOREM OffersAreOwned == Spec => []OfferOwned
BY Invariant, TradeHolds, PTL

\* The invariant includes the types of all variables: the partner found through
\* the table is a player and never oneself, and no balance leaves its range.
THEOREM TypeCorrect == Spec => []TypeOK
<1>1. TradeInv => TypeOK
  BY DEF TradeInv
<1>2. QED
  BY <1>1, TradeHolds, PTL

\* Exchanges: trading implements Exchange.  Seen from outside, the handlers only
\* ever swap two whole offers in one step, or an item leaves the game.
THEOREM TradeImplementsExchange == Spec => Exchanges
<1>1. TradeInv => AbstractTrade!Init
  BY OwnerOfBags, OwnerIs DEF TradeInv, AbstractTrade!Init
<1>2. TradeInv /\ [Next]_vars => [AbstractTrade!Next]_owner
  BY NextAdvances, StutterAdvances DEF Advances
<1>3. QED
  BY <1>1, <1>2, InitHolds, TradeHolds, PTL DEF Spec, Exchanges, AbstractTrade!Spec
====
