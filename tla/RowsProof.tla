------------------------------ MODULE RowsProof ------------------------------
(***************************************************************************)
(* What the rows of an account hold and what binds its sessions.           *)
(*                                                                         *)
(* Inventory, for any kinds of items, boxes, limits and numbers: the       *)
(* session's items and their rows agree, and there are never more items    *)
(* than there is space for.  (First part.)                                 *)
(*                                                                         *)
(* Sanctions bind sessions, bans stand, and grades are respected, for any  *)
(* accounts, grades, terms and roles.  SanctionsBind is inductive once the *)
(* types are known.  BansStand is not: a day may pass between the promise  *)
(* and the look at the row, so that the row must hold the very end that    *)
(* was promised (PromisesWritten).  (Second part.)                         *)
(***************************************************************************)
EXTENDS Inventory, Sanctions, FiniteSetTheorems, FunctionTheorems, WellFoundedInduction,
        TLAPS

(* What is true of the items at every moment.                              *)

\* Kinds that are worn or upgraded, of which one has one.
Solid == DOMAIN TypeOf \cup DOMAIN Upgraded \cup {Upgraded[k] : k \in DOMAIN Upgraded}

\* Items that can be told apart by their numbers.
Numbered(es) ==
    /\ es \subseteq Entry /\ IsFiniteSet(es)
    /\ \E n \in Nat : \A e \in es : e.num <= n
    /\ \A d, e \in es : d.num = e.num => d = e

\* No item of a kind that does not run out has a stock.
Unstocked(es) == \A e \in es : e.kind \in Solid => e.stock = 0

\* Of each type at most one item is worn.
Outfit(es) ==
    /\ \A e \in es : e.kind \in DOMAIN TypeOf
    /\ \A d, e \in es : TypeOf[d.kind] = TypeOf[e.kind] => d = e

\* The session's items are the rows; what is worn is counted, and stored as
\* worn.  Items that are replaced stay counted, so the count may be larger.
Proper(v) ==
    /\ v \in Inv /\ v.rows = Held(v)
    /\ Numbered(Held(v)) /\ Unstocked(Held(v))
    /\ v.bag \cap v.worn = {} /\ Nums(v.worn) \subseteq v.equipped
    /\ Outfit(v.worn) /\ Cardinality(v.worn) <= v.count

\* The counts of an account that no coupon item left or joined unseen.
Counted(v) == v.coupons = Cardinality(CouponItems(v)) /\ Free(v) >= 0

\* The inductive invariant.
IInv == ~astray => Proper(inv) /\ (~uncounted => Counted(inv))

-----------------------------------------------------------------------------
(* Kinds, entries, numbers and counts.                                     *)

\* Coupons are nothing else, and what has a stock is not worn or upgraded.
LEMMA KindFacts ==
    /\ Coupon \in Kind \ Solid /\ Solid \cap Stocked = {} /\ Solid \subseteq Kind
    /\ Coupon \notin Stocked /\ Coupon \notin DOMAIN Wins /\ Coupon \notin LuckyBoxes
    /\ Coupon # MpBox /\ Coupon # Expansion
BY InventoryAssumption DEF Solid

\* A set of natural numbers that is not empty has a least one.
LEMMA LeastNatural ==
    ASSUME NEW T \in SUBSET Nat, T # {}
    PROVE  \E x \in T : \A y \in T : x <= y
<1>1. \A m, n \in Nat : m < n => <<m, n>> \in OpToRel(<, Nat)
  BY DEF OpToRel
<1>2. PICK R : IsWellFoundedOn(R, Nat) /\ \A m, n \in Nat : m < n => <<m, n>> \in R
  BY <1>1, NatLessThanWellFounded
<1>3. T \subseteq Nat /\ T # {} /\ IsWellFoundedOn(R, Nat)
  BY <1>2
<1>4. PICK x \in T : \A y \in T : ~ (<<y, x>> \in R)
  BY ONLY <1>3, WFMin
<1>5. ASSUME NEW y \in T PROVE x <= y
  <2>1. x \in Nat /\ y \in Nat /\ ~ (<<y, x>> \in R)
    BY <1>4
  <2>2. ~ (y < x)
    BY <1>2, <2>1
  <2>3. QED
    BY <2>1, <2>2
<1>6. QED
  BY <1>4, <1>5

\* The fields of an entry, and of a new one.
LEMMA EntryFields ==
    \A e \in Entry : e.num \in Nat /\ e.kind \in Kind /\ e.stock \in Nat /\ e.energy \in Nat
BY DEF Entry

LEMMA FreshEntry ==
    \A n \in Nat, k \in Kind :
        /\ Fresh(n, k) \in Entry /\ Fresh(n, k).num = n /\ Fresh(n, k).kind = k
        /\ Fresh(n, k).energy = 0 /\ Fresh(n, k).stock = IF k \in Stocked THEN 2 ELSE 0
BY DEF Fresh, Entry

\* The fields of an inventory, and the finite sets in one.
LEMMA Fields ==
    \A v \in Inv : /\ v.bag \subseteq Entry /\ v.worn \subseteq Entry /\ v.count \in Nat /\ v.coupons \in Nat
                   /\ v.space \in 0 .. MaxSpace /\ v.rows \subseteq Entry /\ v.equipped \subseteq Nat
BY DEF Inv

LEMMA Bags ==
    ASSUME NEW v, Proper(v)
    PROVE  /\ IsFiniteSet(v.bag) /\ IsFiniteSet(v.worn) /\ IsFiniteSet(CouponItems(v))
           /\ Cardinality(v.bag) \in Nat /\ Cardinality(v.worn) \in Nat
           /\ Cardinality(CouponItems(v)) \in Nat
           /\ v.count \in Nat /\ v.coupons \in Nat /\ v.space \in Nat /\ Free(v) \in Int
<1>1. v.bag \in SUBSET Held(v) /\ v.worn \in SUBSET Held(v) /\ CouponItems(v) \in SUBSET Held(v)
  BY DEF Held, CouponItems
<1>2. IsFiniteSet(Held(v))
  BY DEF Proper, Numbered
<1>3. IsFiniteSet(v.bag) /\ IsFiniteSet(v.worn) /\ IsFiniteSet(CouponItems(v))
  BY <1>1, <1>2, FS_Subset
<1>4. /\ Cardinality(v.bag) \in Nat /\ Cardinality(v.worn) \in Nat
      /\ Cardinality(CouponItems(v)) \in Nat
  BY <1>3, FS_CardinalityType
<1>5. v.count \in Nat /\ v.coupons \in Nat /\ v.space \in Nat
  BY Fields, InventoryAssumption DEF Proper
<1>6. QED
  BY <1>3, <1>4, <1>5 DEF Free

\* The invariant says what the properties say.
LEMMA Matching == ASSUME Proper(inv) PROVE ItemsMatchRows
<1> DEFINE f == [e \in Held(inv) |-> e.num]
<1>1. f \in Surjection(Held(inv), Nums(Held(inv)))
  BY DEF Surjection, Nums
<1>2. f \in Injection(Held(inv), Nums(Held(inv)))
  BY <1>1 DEF Injection, IsInjective, Surjection, Proper, Numbered
<1>3. IsFiniteSet(Held(inv))
  BY DEF Proper, Numbered
<1>4. Cardinality(Nums(Held(inv))) = Cardinality(Held(inv))
  BY <1>1, <1>2, <1>3, FS_Surjection
<1>5. QED
  BY <1>4 DEF Proper, ItemsMatchRows

\* Coupon items are counted twice and cancel out; what is left is within space.
LEMMA Respecting == ASSUME Proper(inv), Counted(inv) PROVE SpaceRespected
<1> DEFINE C == CouponItems(inv)
           R == {e \in inv.bag : e.kind # Coupon}
<1>1. IsFiniteSet(inv.bag) /\ IsFiniteSet(C) /\ Cardinality(inv.bag) \in Nat /\ Cardinality(C) \in Nat
      /\ Cardinality(inv.worn) \in Nat /\ inv.count \in Nat /\ inv.space \in Nat
  BY Bags
<1>2. R = inv.bag \ C /\ inv.bag \cap C = C
  BY DEF CouponItems
<1>3. Cardinality(R) = Cardinality(inv.bag) - Cardinality(C)
  BY <1>1, <1>2, FS_Difference
<1>4. Cardinality(inv.worn) <= inv.count /\ inv.coupons = Cardinality(C) /\ Free(inv) >= 0
  BY DEF Proper, Counted
<1>5. Cardinality(R) + Cardinality(inv.worn) <= inv.space
  <2> HIDE DEF R, C
  <2> QED BY <1>1, <1>3, <1>4 DEF Free
<1>6. QED
  BY <1>5 DEF SpaceRespected

-----------------------------------------------------------------------------
(* What comes in.                                                          *)

\* Numbers stay apart in a part of the items, and in two parts that share none.
LEMMA NumberedPart ==
    ASSUME NEW es, Numbered(es), NEW part \in SUBSET es
    PROVE  Numbered(part)
<1>1. IsFiniteSet(part)
  BY FS_Subset DEF Numbered
<1>2. QED
  BY <1>1 DEF Numbered

LEMMA NumberedBoth ==
    ASSUME NEW es, NEW fs, Numbered(es), Numbered(fs),
           \A e \in es, f \in fs : e.num # f.num
    PROVE  Numbered(es \cup fs)
<1>1. IsFiniteSet(es \cup fs)
  BY FS_Union DEF Numbered
<1>2. PICK m \in Nat : \A e \in es : e.num <= m
  BY DEF Numbered
<1>3. PICK n \in Nat : \A e \in fs : e.num <= n
  BY DEF Numbered
<1>4. \A e \in es \cup fs : e \in Entry /\ e.num \in Nat
  BY EntryFields DEF Numbered
<1>5. m + n \in Nat /\ \A e \in es \cup fs : e.num <= m + n
  BY <1>2, <1>3, <1>4
<1>6. \A d, e \in es \cup fs : d.num = e.num => d = e
  BY DEF Numbered
<1>7. QED
  BY <1>1, <1>4, <1>5, <1>6 DEF Numbered

\* Other contents under the same number.
LEMMA NumberedOther ==
    ASSUME NEW es, Numbered(es), NEW e \in es, NEW new \in Entry, new.num = e.num
    PROVE  Numbered((es \ {e}) \cup {new})
<1>1. Numbered(es \ {e})
  BY NumberedPart
<1>2. Numbered({new})
  <2>1. IsFiniteSet({new})
    BY FS_Singleton
  <2>2. QED
    BY <2>1, EntryFields DEF Numbered
<1>3. \A d \in es \ {e}, f \in {new} : d.num # f.num
  BY DEF Numbered
<1>4. QED
  BY <1>1, <1>2, <1>3, NumberedBoth

\* Items under new numbers take the place they need, in the session and as rows.
LEMMA AddedKeeps ==
    ASSUME NEW v, Proper(v), NEW es, Numbered(es), Unstocked(es),
           \A e \in es : e.num \notin Nums(Held(v)),
           NEW w, w = Added(v, es)
    PROVE  /\ Proper(w) /\ Held(w) = Held(v) \cup es
           /\ Free(w) = Free(v) - Cardinality(es)
           /\ w.coupons = v.coupons /\ CouponItems(w) = CouponItems(v) \cup {e \in es : e.kind = Coupon}
<1>1. v \in Inv /\ Numbered(Held(v)) /\ IsFiniteSet(v.bag)
  BY Bags DEF Proper
<1>2. /\ w.bag = v.bag \cup es /\ w.worn = v.worn /\ w.count = v.count /\ w.coupons = v.coupons
      /\ w.space = v.space /\ w.rows = v.rows \cup es /\ w.equipped = v.equipped
      /\ w \in Inv
  BY <1>1 DEF Added, Kept, AddPlayerItems, Inv, Numbered
<1>3. Held(w) = Held(v) \cup es
  BY <1>2 DEF Held
<1>4. es \cap Held(v) = {}
  BY DEF Nums
<1>6. Numbered(Held(w)) /\ Unstocked(Held(w))
  <2>1. \A d \in Held(v), e \in es : d.num # e.num
    BY DEF Nums
  <2>2. Numbered(Held(v) \cup es)
    BY <1>1, <2>1, NumberedBoth
  <2>3. QED
    BY <1>3, <2>2 DEF Unstocked, Proper
<1>7. Proper(w)
  BY <1>2, <1>3, <1>4, <1>6 DEF Proper, Held
<1>8. v.bag \cap es = {}
  BY <1>4 DEF Held
<1>9. Cardinality(w.bag) = Cardinality(v.bag) + Cardinality(es)
  <2>1. Cardinality(v.bag \cup es) = Cardinality(v.bag) + Cardinality(es) - Cardinality(v.bag \cap es)
    BY <1>1, FS_Union DEF Numbered
  <2>2. Cardinality(v.bag \cap es) = 0
    BY <1>8, FS_EmptySet
  <2>3. Cardinality(v.bag) \in Nat /\ Cardinality(es) \in Nat
    BY <1>1, FS_CardinalityType DEF Numbered
  <2>4. QED
    BY <1>2, <2>1, <2>2, <2>3
<1>10. Free(w) = Free(v) - Cardinality(es)
  <2>1. Cardinality(v.bag) \in Nat /\ Cardinality(es) \in Nat
    BY <1>1, FS_CardinalityType DEF Numbered
  <2>2. QED
    BY <1>2, <1>9, <2>1, Bags DEF Free
<1>11. CouponItems(w) = CouponItems(v) \cup {e \in es : e.kind = Coupon}
  BY <1>2 DEF CouponItems
<1>12. QED
  BY <1>2, <1>3, <1>7, <1>10, <1>11

\* The latest number: there is one, and what comes after it is new.
LEMMA LatestNumber ==
    ASSUME NEW v, Proper(v)
    PROVE  Latest(v) \in Nat /\ \A e \in Held(v) : e.num <= Latest(v)
<1> DEFINE N == {0} \cup Nums(Held(v))
           Above == {n \in Nat : \A e \in Held(v) : e.num <= n}
<1>1. Numbered(Held(v)) /\ \A e \in Held(v) : e.num \in Nat
  BY EntryFields DEF Proper, Numbered
<1>2. Above \in SUBSET Nat /\ Above # {}
  BY <1>1 DEF Numbered
<1>3. PICK n \in Above : \A m \in Above : n <= m
  BY <1>2, LeastNatural
<1>4. n \in Nat /\ \A e \in Held(v) : e.num <= n
  BY <1>3
<1>5. n \in N
  <2>1. SUFFICES ASSUME n \notin N PROVE FALSE
    OBVIOUS
  <2>2. n - 1 \in Nat /\ \A e \in Held(v) : e.num # n
    BY <1>4, <2>1 DEF Nums
  <2>3. \A e \in Held(v) : e.num <= n - 1
    BY <1>1, <1>4, <2>2
  <2>4. QED
    BY <1>3, <1>4, <2>2, <2>3
<1>6. N \subseteq Nat /\ \A y \in N : n >= y
  BY <1>1, <1>4 DEF Nums
<1>7. \A e \in Held(v) : e.num \in N
  BY DEF Nums
<1> HIDE DEF N, Above
<1>8. Latest(v) \in N /\ \A y \in N : Latest(v) >= y
  <2>1. Latest(v) = CHOOSE x \in N : \A y \in N : x >= y
    BY DEF Latest, Max, N
  <2>2. QED
    BY <1>5, <1>6, <2>1
<1>9. QED
  BY <1>1, <1>6, <1>7, <1>8

-----------------------------------------------------------------------------
\* Items that come in have numbers of their own, and none is a coupon.
LEMMA ArrivalsFresh ==
    ASSUME NEW v, Proper(v), NEW n \in Nat, NEW ks, DOMAIN ks = 1 .. n,
           \A i \in 1 .. n : ks[i] \in Kind \ {Coupon}
    PROVE  LET es == Arrivals(v, ks)
           IN  /\ Numbered(es) /\ Unstocked(es) /\ Cardinality(es) = n
               /\ \A e \in es : e.kind # Coupon /\ \A d \in Held(v) : d.num # e.num
<1> DEFINE f == [i \in 1 .. n |-> Fresh(Latest(v) + i, ks[i])]
           es == {f[i] : i \in 1 .. n}
<1>1. Arrivals(v, ks) = es
  BY DEF Arrivals
<1>2. Latest(v) \in Nat /\ \A d \in Held(v) : d.num \in Nat /\ d.num <= Latest(v)
  BY LatestNumber, EntryFields DEF Proper, Numbered
<1>3. \A i \in 1 .. n : i \in Nat /\ Latest(v) + i \in Nat /\ ks[i] \in Kind /\ ks[i] # Coupon
  BY <1>2
<1>4. \A i \in 1 .. n : /\ f[i] \in Entry /\ f[i].num = Latest(v) + i /\ f[i].kind = ks[i]
                        /\ f[i].stock = IF ks[i] \in Stocked THEN 2 ELSE 0
  BY <1>3, FreshEntry
<1>5. f \in [1 .. n -> es] /\ f \in Surjection(1 .. n, es)
  BY DEF Surjection
<1> HIDE DEF f
<1>6. \A i, j \in 1 .. n : f[i].num = f[j].num => i = j
  BY <1>2, <1>4
<1>7. f \in Injection(1 .. n, es)
  BY <1>5, <1>6 DEF Injection, IsInjective
<1>8. IsFiniteSet(1 .. n) /\ Cardinality(1 .. n) = n
  BY FS_Interval
<1>9. IsFiniteSet(es) /\ Cardinality(es) = n
  BY <1>5, <1>7, <1>8, FS_Surjection
<1>10. Numbered(es)
  <2>1. \A e \in es : e \in Entry /\ e.num <= Latest(v) + n
    BY <1>2, <1>4
  <2>2. \A d, e \in es : d.num = e.num => d = e
    BY <1>6
  <2>3. Latest(v) + n \in Nat
    BY <1>2
  <2> HIDE DEF es
  <2>4. QED
    BY <1>9, <2>1, <2>2, <2>3 DEF Numbered
<1>11. Unstocked(es)
  BY <1>4, KindFacts DEF Unstocked
<1>12. \A e \in es : e.kind # Coupon
  BY <1>3, <1>4
<1>13. \A e \in es, d \in Held(v) : d.num # e.num
  BY <1>2, <1>4
<1>14. QED
  BY <1>1, <1>9, <1>10, <1>11, <1>12, <1>13

\* Items that come in where there is space for them.
LEMMA Arriving ==
    ASSUME NEW v, Proper(v), NEW u, Proper(u), Nums(Held(u)) \subseteq Nums(Held(v)), NEW n \in Nat, NEW ks,
           DOMAIN ks = 1 .. n, \A i \in 1 .. n : ks[i] \in Kind \ {Coupon}
    PROVE  /\ Proper(Added(u, Arrivals(v, ks)))
           /\ Counted(u) /\ Free(u) >= n => Counted(Added(u, Arrivals(v, ks)))
<1> DEFINE es == Arrivals(v, ks)
           w == Added(u, es)
<1>1. /\ Numbered(es) /\ Unstocked(es) /\ Cardinality(es) = n
      /\ \A e \in es : e.kind # Coupon /\ \A d \in Held(v) : d.num # e.num
  BY ArrivalsFresh
<1>2. \A e \in es : e.num \notin Nums(Held(u))
  <2>1. \A e \in es : e.num \notin Nums(Held(v))
    BY <1>1 DEF Nums
  <2>2. QED
    BY <2>1
<1> HIDE DEF es
<1>3. /\ Proper(w) /\ Free(w) = Free(u) - n /\ w.coupons = u.coupons
      /\ CouponItems(w) = CouponItems(u) \cup {e \in es : e.kind = Coupon}
  BY <1>1, <1>2, AddedKeeps
<1>4. CouponItems(w) = CouponItems(u)
  BY <1>1, <1>3
<1> HIDE DEF w
<1>5. ASSUME Counted(u), Free(u) >= n PROVE Counted(w)
  <2>1. Free(u) \in Int
    BY Bags
  <2>2. Free(w) >= 0
    BY <1>3, <1>5, <2>1
  <2>3. QED
    BY <1>3, <1>4, <1>5, <2>2 DEF Counted
<1>6. QED
  BY <1>3, <1>5 DEF es, w

-----------------------------------------------------------------------------
(* What goes.                                                              *)

\* An item is in the bag or worn, and its number is its own.
LEMMA HeldEntry ==
    ASSUME NEW v, Proper(v), NEW e \in Held(v)
    PROVE  /\ e \in Entry /\ e.num \in Nat /\ e.kind \in Kind /\ e.stock \in Nat /\ e.energy \in Nat
           /\ (e \in v.bag <=> e \notin v.worn) /\ v.rows = Held(v)
           /\ \A d \in Held(v) : d.num = e.num => d = e
           /\ (e.kind \in Solid => e.stock = 0)
           /\ (e \in v.worn => e.kind \in Solid /\ e.kind # Coupon)
BY EntryFields, KindFacts DEF Proper, Numbered, Held, Unstocked, Outfit, Solid

\* An item goes with its row, which its number finds.  One from the bag leaves a
\* place; one that was worn stays counted.
LEMMA DeletedKeeps ==
    ASSUME NEW v, Proper(v), NEW e \in Held(v)
    PROVE  LET w == Deleted(v, e)
           IN  /\ Proper(w) /\ Held(w) = Held(v) \ {e}
               /\ Free(w) = (IF e \in v.bag THEN Free(v) + 1 ELSE Free(v))
               /\ w.coupons = v.coupons /\ CouponItems(w) = CouponItems(v) \ {e}
               /\ e.kind # Coupon /\ Counted(v) => Counted(w)
<1> DEFINE w == Deleted(v, e)
<1>1. v \in Inv
  BY DEF Proper
<1>2. /\ w.bag = v.bag \ {e} /\ w.worn = v.worn \ {e} /\ w.count = v.count
      /\ w.coupons = v.coupons /\ w.space = v.space
      /\ w.rows = {r \in v.rows : r.num # e.num} /\ w.equipped = v.equipped \ {e.num}
      /\ w \in Inv
  BY <1>1 DEF Deleted, RemovePlayerItem, Erased, Inv
<1> HIDE DEF w
<1>3. Held(w) = Held(v) \ {e}
  BY <1>2 DEF Held
<1>4. w.rows = Held(w)
  BY <1>2, <1>3, HeldEntry
<1>5. Numbered(Held(w)) /\ Unstocked(Held(w))
  BY <1>3, NumberedPart DEF Proper, Unstocked
<1>6. w.bag \cap w.worn = {} /\ Outfit(w.worn)
  BY <1>2 DEF Proper, Outfit
<1>7. Nums(w.worn) \subseteq w.equipped
  <2>1. ASSUME NEW d \in w.worn PROVE d.num \in w.equipped
    <3>1. d \in v.worn /\ d # e /\ d \in Held(v)
      BY <1>2 DEF Held
    <3>2. d.num \in v.equipped /\ d.num # e.num
      BY <3>1, HeldEntry DEF Proper, Nums
    <3>3. QED
      BY <1>2, <3>2
  <2>2. QED
    BY <2>1 DEF Nums
<1>8. Cardinality(w.worn) <= w.count
  <2>1. IsFiniteSet(v.worn) /\ w.worn \in SUBSET v.worn /\ Cardinality(v.worn) <= v.count
    BY <1>2, Bags DEF Proper
  <2>2. Cardinality(w.worn) <= Cardinality(v.worn) /\ IsFiniteSet(w.worn)
    BY <2>1, FS_Subset
  <2>3. Cardinality(w.worn) \in Nat
    BY <2>2, FS_CardinalityType
  <2>4. QED
    BY <1>2, <2>1, <2>2, <2>3, Bags
<1>9. Proper(w)
  BY <1>2, <1>4, <1>5, <1>6, <1>7, <1>8 DEF Proper
<1>10. Cardinality(w.bag) = IF e \in v.bag THEN Cardinality(v.bag) - 1 ELSE Cardinality(v.bag)
  <2>1. IsFiniteSet(v.bag)
    BY Bags
  <2>2. Cardinality(v.bag \ {e}) = IF e \in v.bag THEN Cardinality(v.bag) - 1 ELSE Cardinality(v.bag)
    BY <2>1, FS_RemoveElement
  <2>3. QED
    BY <1>2, <2>2
<1>11. Free(w) = (IF e \in v.bag THEN Free(v) + 1 ELSE Free(v))
  BY <1>2, <1>10, Bags DEF Free
<1>12. CouponItems(w) = CouponItems(v) \ {e}
  BY <1>2 DEF CouponItems
<1>13. e.kind # Coupon /\ Counted(v) => Counted(w)
  <2>1. e.kind # Coupon => CouponItems(w) = CouponItems(v)
    BY <1>12 DEF CouponItems
  <2>2. QED
    BY <1>2, <1>11, <2>1, Bags DEF Counted
<1>14. QED
  BY <1>2, <1>3, <1>9, <1>11, <1>12, <1>13 DEF w

-----------------------------------------------------------------------------
(* What changes.                                                            *)

\* An item gets other contents under its number, where it is, and its row too.
Altered(v, e, new) ==
    [Edited(v, e, new) EXCEPT !.rows = {IF r.num = e.num THEN new ELSE r : r \in @}]

\* The kind stays, and so does every count.
LEMMA AlteredKeeps ==
    ASSUME NEW v, Proper(v), NEW e \in Held(v), NEW new \in Entry, new.num = e.num,
           new.kind = e.kind, new.kind \in Solid => new.stock = 0
    PROVE  LET w == Altered(v, e, new)
           IN  /\ Proper(w) /\ Held(w) = (Held(v) \ {e}) \cup {new}
               /\ Counted(v) => Counted(w)
<1> DEFINE w == Altered(v, e, new)
           swapped(S) == IF e \in S THEN (S \ {e}) \cup {new} ELSE S
<1>1. v \in Inv /\ v.bag \subseteq Entry /\ v.worn \subseteq Entry /\ v.rows \subseteq Entry
  BY Fields DEF Proper
<1>2. /\ w.bag = swapped(v.bag) /\ w.worn = swapped(v.worn) /\ w.count = v.count
      /\ w.coupons = v.coupons /\ w.space = v.space
      /\ w.rows = {IF r.num = e.num THEN new ELSE r : r \in v.rows} /\ w.equipped = v.equipped
      /\ w \in Inv
  <2> DEFINE R == {IF r.num = e.num THEN new ELSE r : r \in v.rows}
             B == swapped(v.bag)
             W == swapped(v.worn)
  <2>1. R \subseteq Entry /\ B \subseteq Entry /\ W \subseteq Entry
    BY <1>1
  <2>2. w = [v EXCEPT !.bag = B, !.worn = W, !.rows = R]
    <3>1. Edited(v, e, new) = [v EXCEPT !.bag = B, !.worn = W]
      BY DEF Edited
    <3>2. \A u : u = [v EXCEPT !.bag = B, !.worn = W] => u.rows = v.rows
      <4> HIDE DEF B, W
      <4> QED BY <1>1 DEF Inv
    <3>3. w = [[v EXCEPT !.bag = B, !.worn = W] EXCEPT !.rows = R]
      BY <3>1, <3>2 DEF Altered
    <3> HIDE DEF B, W, R, w
    <3>4. QED
      BY <1>1, <3>3 DEF Inv
  <2> HIDE DEF R, B, W, w, swapped
  <2>3. /\ w.bag = B /\ w.worn = W /\ w.rows = R /\ w.count = v.count /\ w.coupons = v.coupons
        /\ w.space = v.space /\ w.equipped = v.equipped /\ w \in Inv
    BY <1>1, <2>1, <2>2 DEF Inv
  <2>4. QED
    BY <2>3 DEF R, B, W
<1> HIDE DEF w
<1>3. e \in v.bag <=> e \notin v.worn
  BY HeldEntry
<1>4. Held(w) = (Held(v) \ {e}) \cup {new}
  BY <1>2, <1>3 DEF Held
<1>5. w.rows = Held(w)
  <2>1. \A r \in Held(v) : r.num = e.num <=> r = e
    BY HeldEntry
  <2>2. v.rows = Held(v)
    BY DEF Proper
  <2>3. QED
    BY <1>2, <1>4, <2>1, <2>2
<1>6. Numbered(Held(w)) /\ Unstocked(Held(w))
  BY <1>4, NumberedOther DEF Proper, Unstocked
<1>7. \A d \in Held(v) \ {e} : d # new
  BY HeldEntry
<1>8. w.bag \cap w.worn = {}
  BY <1>2, <1>3, <1>7 DEF Proper, Held
<1>9. Outfit(w.worn)
  BY <1>2 DEF Proper, Outfit
<1>10. Nums(w.worn) \subseteq w.equipped
  BY <1>2 DEF Proper, Nums
<1>11. ASSUME NEW S, IsFiniteSet(S), S \subseteq Held(v)
       PROVE  Cardinality(swapped(S)) = Cardinality(S)
  <2>1. CASE e \notin S
    BY <2>1
  <2>2. CASE e \in S
    <3>1. IsFiniteSet(S \ {e}) /\ Cardinality(S \ {e}) = Cardinality(S) - 1
      BY <1>11, <2>2, FS_RemoveElement
    <3>2. new \notin S \ {e}
      BY <1>7, <1>11
    <3>3. Cardinality((S \ {e}) \cup {new}) = Cardinality(S) - 1 + 1
      BY <3>1, <3>2, FS_AddElement
    <3>4. Cardinality(S) \in Nat
      BY <1>11, FS_CardinalityType
    <3>5. QED
      BY <2>2, <3>3, <3>4
  <2>3. QED
    BY <2>1, <2>2
<1>12. Cardinality(w.bag) = Cardinality(v.bag) /\ Cardinality(w.worn) = Cardinality(v.worn)
  BY <1>2, <1>11, Bags DEF Held
<1>13. Proper(w)
  BY <1>2, <1>5, <1>6, <1>8, <1>9, <1>10, <1>12 DEF Proper
<1>14. Cardinality(CouponItems(w)) = Cardinality(CouponItems(v))
  <2>1. CouponItems(w) = swapped(CouponItems(v))
    BY <1>2 DEF CouponItems
  <2>2. CouponItems(v) \subseteq Held(v)
    BY DEF CouponItems, Held
  <2>3. QED
    BY <1>11, <2>1, <2>2, Bags
<1>15. Counted(v) => Counted(w)
  BY <1>2, <1>12, <1>14 DEF Counted, Free
<1>16. QED
  BY <1>4, <1>13, <1>15 DEF w

\* A stock and an energy change in the session and in the row that has the
\* number, which is the item's.
LEMMA RestockedKeeps ==
    ASSUME NEW v, Proper(v), NEW e \in Held(v), NEW s \in Nat, e.kind \notin Solid,
           NEW w, w = Restocked(v, e, s)
    PROVE  /\ Proper(w) /\ (Counted(v) => Counted(w))
           /\ \A d \in Held(v) \ {e} : d \in Held(w)
           /\ Nums(Held(w)) \subseteq Nums(Held(v))
<1> DEFINE new == [e EXCEPT !.stock = s]
<1>1. /\ e \in Entry /\ v.rows = Held(v) /\ \A d \in Held(v) : d.num = e.num => d = e
      /\ Held(v) \subseteq Entry
  BY HeldEntry DEF Proper, Numbered
<1>2. new \in Entry /\ new.num = e.num /\ new.kind = e.kind
  BY <1>1 DEF Entry
<1> HIDE DEF new
<1>3. \A r \in v.rows :
          [r EXCEPT !.stock = IF r.num = e.num THEN s ELSE @] = IF r.num = e.num THEN new ELSE r
  <2>1. ASSUME NEW r \in v.rows
        PROVE  [r EXCEPT !.stock = IF r.num = e.num THEN s ELSE @] = IF r.num = e.num THEN new ELSE r
    <3>1. r \in Entry /\ (r.num = e.num => r = e)
      BY <1>1
    <3>2. CASE r.num = e.num
      BY <3>1, <3>2 DEF new
    <3>3. CASE r.num # e.num
      BY <3>1, <3>3 DEF Entry
    <3>4. QED
      BY <3>2, <3>3
  <2>2. QED
    BY <2>1
<1>4. w = Altered(v, e, new)
  <2> DEFINE u == Edited(v, e, new)
  <2>1. u.rows = v.rows
    BY DEF Edited, Proper, Inv
  <2>2. w = [u EXCEPT !.rows = {[r EXCEPT !.stock = IF r.num = e.num THEN s ELSE @] : r \in u.rows}]
    BY DEF Restocked, UpdateItemStock, new
  <2>3. {[r EXCEPT !.stock = IF r.num = e.num THEN s ELSE @] : r \in u.rows}
        = {IF r.num = e.num THEN new ELSE r : r \in u.rows}
    <3> HIDE DEF u
    <3> DEFINE row(r) == [r EXCEPT !.stock = IF r.num = e.num THEN s ELSE @]
               other(r) == IF r.num = e.num THEN new ELSE r
    <3>1. \A r \in u.rows : row(r) = other(r)
      BY <1>3, <2>1
    <3> HIDE DEF row, other
    <3>2. {row(r) : r \in u.rows} = {other(r) : r \in u.rows}
      BY <3>1
    <3>3. QED
      BY <3>2 DEF row, other
  <2> HIDE DEF u
  <2>4. w = [u EXCEPT !.rows = {IF r.num = e.num THEN new ELSE r : r \in u.rows}]
    BY <2>2, <2>3
  <2>5. QED
    BY <2>4 DEF u, Altered
<1>5. /\ Proper(w) /\ Held(w) = (Held(v) \ {e}) \cup {new}
      /\ Counted(v) => Counted(w)
  BY <1>2, <1>4, AlteredKeeps
<1>6. Nums(Held(w)) \subseteq Nums(Held(v))
  BY <1>2, <1>5 DEF Nums
<1>7. QED
  BY <1>5, <1>6

LEMMA EnergyAddedKeeps ==
    ASSUME NEW v, Proper(v), NEW e \in Held(v), NEW w, w = EnergyAdded(v, e)
    PROVE  Proper(w) /\ (Counted(v) => Counted(w))
<1> DEFINE new == [e EXCEPT !.energy = @ + 1]
           x == e.energy + 1
<1>1. /\ e \in Entry /\ v.rows = Held(v) /\ \A d \in Held(v) : d.num = e.num => d = e
      /\ Held(v) \subseteq Entry /\ e.energy \in Nat /\ (e.kind \in Solid => e.stock = 0)
  BY HeldEntry DEF Proper, Numbered
<1>2. /\ new \in Entry /\ new.num = e.num /\ new.kind = e.kind /\ new.stock = e.stock
      /\ new = [e EXCEPT !.energy = x]
  BY <1>1 DEF Entry
<1> HIDE DEF new, x
<1>3. \A r \in v.rows :
          [r EXCEPT !.energy = IF r.num = e.num THEN x ELSE @] = IF r.num = e.num THEN new ELSE r
  <2>1. ASSUME NEW r \in v.rows
        PROVE  [r EXCEPT !.energy = IF r.num = e.num THEN x ELSE @] = IF r.num = e.num THEN new ELSE r
    <3>1. r \in Entry /\ (r.num = e.num => r = e)
      BY <1>1
    <3>2. CASE r.num = e.num
      BY <1>2, <3>1, <3>2
    <3>3. CASE r.num # e.num
      BY <3>1, <3>3 DEF Entry
    <3>4. QED
      BY <3>2, <3>3
  <2>2. QED
    BY <2>1
<1>4. w = Altered(v, e, new)
  <2> DEFINE u == Edited(v, e, new)
  <2>1. u.rows = v.rows
    BY DEF Edited, Proper, Inv
  <2>2. w = [u EXCEPT !.rows = {[r EXCEPT !.energy = IF r.num = e.num THEN x ELSE @] : r \in u.rows}]
    BY DEF EnergyAdded, InsertEnergyToItem, new, x
  <2>3. {[r EXCEPT !.energy = IF r.num = e.num THEN x ELSE @] : r \in u.rows}
        = {IF r.num = e.num THEN new ELSE r : r \in u.rows}
    <3> HIDE DEF u
    <3> DEFINE row(r) == [r EXCEPT !.energy = IF r.num = e.num THEN x ELSE @]
               other(r) == IF r.num = e.num THEN new ELSE r
    <3>1. \A r \in u.rows : row(r) = other(r)
      BY <1>3, <2>1
    <3> HIDE DEF row, other
    <3>2. {row(r) : r \in u.rows} = {other(r) : r \in u.rows}
      BY <3>1
    <3>3. QED
      BY <3>2 DEF row, other
  <2> HIDE DEF u
  <2>4. w = [u EXCEPT !.rows = {IF r.num = e.num THEN new ELSE r : r \in u.rows}]
    BY <2>2, <2>3
  <2>5. QED
    BY <2>4 DEF u, Altered
<1>5. new \in Entry /\ new.num = e.num /\ new.kind = e.kind /\ (new.kind \in Solid => new.stock = 0)
  BY <1>1, <1>2
<1>6. QED
  BY <1>4, <1>5, AlteredKeeps

-----------------------------------------------------------------------------
\* An item that becomes another one has the number of the first, and its row the
\* same contents, because neither kind has a stock.  One that was worn needs a
\* place in the bag, which is asked for.
LEMMA ReplacedKeeps ==
    ASSUME NEW v, Proper(v), NEW e \in Held(v), e.kind \in Solid, NEW k \in Solid,
           NEW w, w = Replaced(v, e, k)
    PROVE  /\ Proper(w) /\ (Counted(v) => Counted(w))
           /\ \A d \in Held(v) \ {e} : d \in Held(w)
<1> DEFINE new == Fresh(e.num, k)
<1>1. CASE ~ HasSpace(v, 1)
  <2>1. w = v
    BY <1>1 DEF Replaced
  <2>2. QED
    BY <2>1
<1>2. CASE HasSpace(v, 1)
  <2>1. /\ e \in Entry /\ e.num \in Nat /\ e.stock = 0 /\ v.rows = Held(v) /\ e.kind # Coupon
        /\ \A d \in Held(v) : d.num = e.num => d = e
        /\ e \in v.bag <=> e \notin v.worn
        /\ Held(v) \subseteq Entry /\ k \in Kind /\ k # Coupon /\ k \notin Stocked /\ v \in Inv
    BY HeldEntry, KindFacts DEF Proper, Numbered
  <2>2. new \in Entry /\ new.num = e.num /\ new.kind = k /\ new.energy = 0 /\ new.stock = 0
    BY <2>1, FreshEntry
  <2> HIDE DEF new
  <2>3. new = [e EXCEPT !.kind = k, !.energy = 0]
    BY <2>1, <2>2 DEF Entry
  <2>4. /\ w.bag = (v.bag \ {e}) \cup {new} /\ w.worn = v.worn \ {e} /\ w.count = v.count
        /\ w.coupons = v.coupons /\ w.space = v.space /\ w.equipped = v.equipped
        /\ w.rows = {IF r.num = e.num THEN [r EXCEPT !.kind = k, !.energy = 0] ELSE r : r \in v.rows}
    BY <1>2, <2>1 DEF Replaced, ReplaceItemResetEnergy, Kept, Erased, Inv, new
  <2>5. Held(w) = (Held(v) \ {e}) \cup {new}
    BY <2>4 DEF Held
  <2>6. w.rows = Held(w)
    <3>1. \A r \in Held(v) : (IF r.num = e.num THEN [r EXCEPT !.kind = k, !.energy = 0] ELSE r)
                             = IF r = e THEN new ELSE r
      BY <2>1, <2>3
    <3>2. w.rows = {IF r = e THEN new ELSE r : r \in Held(v)}
      <4> DEFINE row(r) == IF r.num = e.num THEN [r EXCEPT !.kind = k, !.energy = 0] ELSE r
                 other(r) == IF r = e THEN new ELSE r
      <4>1. \A r \in Held(v) : row(r) = other(r)
        BY <3>1
      <4>2. w.rows = {row(r) : r \in Held(v)}
        BY <2>1, <2>4
      <4> HIDE DEF row, other
      <4>3. w.rows = {other(r) : r \in Held(v)}
        BY <4>1, <4>2
      <4>4. QED
        BY <4>3 DEF other
    <3>3. QED
      BY <2>5, <3>2
  <2>7. Numbered(Held(w))
    BY <2>2, <2>5, NumberedOther DEF Proper
  <2>8. Unstocked(Held(w))
    BY <2>2, <2>5 DEF Proper, Unstocked
  <2>9. w \in Inv
    <3>1. /\ w.bag \subseteq Entry /\ w.worn \subseteq Entry /\ w.count \in Nat /\ w.coupons \in Nat
          /\ w.space \in 0 .. MaxSpace /\ w.rows \subseteq Entry /\ w.equipped \subseteq Nat
      BY <2>1, <2>4, <2>6, <2>7, Fields DEF Numbered, Held
    <3>2. w = [bag |-> w.bag, worn |-> w.worn, count |-> w.count, coupons |-> w.coupons,
               space |-> w.space, rows |-> w.rows, equipped |-> w.equipped]
      BY <1>2, <2>1 DEF Replaced, ReplaceItemResetEnergy, Kept, Erased, Inv
    <3>3. QED
      BY <3>1, <3>2 DEF Inv
  <2>10. \A d \in Held(v) \ {e} : d # new
    BY <2>1, <2>2
  <2>11. w.bag \cap w.worn = {}
    BY <2>4, <2>10 DEF Proper, Held
  <2>12. Nums(w.worn) \subseteq w.equipped /\ Outfit(w.worn)
    BY <2>4 DEF Proper, Nums, Outfit
  <2>13. Cardinality(w.worn) <= w.count
    <3>1. IsFiniteSet(v.worn) /\ w.worn \in SUBSET v.worn /\ Cardinality(v.worn) <= v.count
      BY <2>4, Bags DEF Proper
    <3>2. Cardinality(w.worn) <= Cardinality(v.worn) /\ IsFiniteSet(w.worn)
      BY <3>1, FS_Subset
    <3>3. Cardinality(w.worn) \in Nat /\ Cardinality(v.worn) \in Nat /\ v.count \in Nat
      BY <3>2, FS_CardinalityType, Bags
    <3> HIDE DEF new
    <3>4. w.count = v.count
      BY <2>4
    <3>5. QED
      BY <3>1, <3>2, <3>3, <3>4
  <2>14. Proper(w)
    BY <2>6, <2>7, <2>8, <2>9, <2>11, <2>12, <2>13 DEF Proper
  <2>15. Cardinality(w.bag) \in Nat /\ Cardinality(w.bag) <= Cardinality(v.bag) + 1
         /\ (e \in v.bag => Cardinality(w.bag) = Cardinality(v.bag))
    <3>1. IsFiniteSet(v.bag) /\ Cardinality(v.bag) \in Nat
      BY Bags
    <3>2. /\ IsFiniteSet(v.bag \ {e})
          /\ Cardinality(v.bag \ {e}) = IF e \in v.bag THEN Cardinality(v.bag) - 1 ELSE Cardinality(v.bag)
      BY <3>1, FS_RemoveElement
    <3>3. new \notin v.bag \ {e}
      BY <2>10 DEF Held
    <3>4. Cardinality((v.bag \ {e}) \cup {new}) = Cardinality(v.bag \ {e}) + 1
      BY <3>2, <3>3, FS_AddElement
    <3>5. Cardinality(w.bag) = Cardinality(v.bag \ {e}) + 1
      BY <2>4, <3>4
    <3>6. QED
      BY <3>1, <3>2, <3>5
  <2>16. CouponItems(w) = CouponItems(v)
    BY <2>1, <2>2, <2>4 DEF CouponItems
  <2>17. ASSUME Counted(v) PROVE Counted(w)
    <3>1. Free(v) \in Int /\ Free(v) >= 0 /\ v.count \in Nat /\ v.coupons \in Nat /\ v.space \in Nat
          /\ Cardinality(v.bag) \in Nat
      BY <2>17, Bags DEF Counted
    <3>2. Free(v) >= 1
      BY <1>2, <3>1 DEF HasSpace
    <3>3. Free(w) = v.space - v.count + v.coupons - Cardinality(w.bag)
      BY <2>4 DEF Free
    <3>4. Free(w) >= 0
      BY <2>15, <3>1, <3>2, <3>3 DEF Free
    <3>5. QED
      BY <2>4, <2>16, <2>17, <3>4 DEF Counted
  <2>18. QED
    BY <2>5, <2>14, <2>17
<1>3. QED
  BY <1>1, <1>2

-----------------------------------------------------------------------------
(* What is put on and taken off, and what the account is given.            *)

\* What is taken off moves to the bag and is no more counted as worn: no place is
\* won or lost.
LEMMA TakenOffKeeps ==
    ASSUME NEW v, Proper(v), NEW es \in SUBSET v.worn, NEW w, w = TakenOff(v, es)
    PROVE  /\ Proper(w) /\ (Counted(v) => Counted(w))
           /\ w.bag = v.bag \cup es /\ w.worn = v.worn \ es
<1> DEFINE n == Cardinality(es)
<1>1. /\ v \in Inv /\ v.rows = Held(v) /\ Numbered(Held(v)) /\ Unstocked(Held(v))
      /\ v.bag \cap v.worn = {} /\ Nums(v.worn) \subseteq v.equipped
      /\ Outfit(v.worn) /\ Cardinality(v.worn) <= v.count
  BY DEF Proper
<1>2. /\ IsFiniteSet(v.bag) /\ IsFiniteSet(v.worn) /\ Cardinality(v.bag) \in Nat
      /\ Cardinality(v.worn) \in Nat /\ v.count \in Nat /\ v.space \in Nat /\ v.coupons \in Nat
  BY Bags
<1>3. IsFiniteSet(es) /\ n <= Cardinality(v.worn) /\ n \in Nat
  BY <1>2, FS_Subset, FS_CardinalityType
<1> HIDE DEF n
<1>4. v.count - n \in Nat
  BY <1>1, <1>2, <1>3
<1>5. /\ w.bag = v.bag \cup es /\ w.worn = v.worn \ es /\ w.count = v.count - n
      /\ w.coupons = v.coupons /\ w.space = v.space /\ w.rows = v.rows
      /\ w.equipped = v.equipped \ Nums(es) /\ w \in Inv
  <2> DEFINE N == Nums(es)
  <2> HIDE DEF N
  <2> DEFINE u == [v EXCEPT !.bag = @ \cup es, !.worn = @ \ es, !.count = @ - n]
  <2>1. es \subseteq Entry
    BY <1>1, Fields
  <2>2. /\ u.bag = v.bag \cup es /\ u.worn = v.worn \ es /\ u.count = v.count - n
        /\ u.coupons = v.coupons /\ u.space = v.space /\ u.rows = v.rows
        /\ u.equipped = v.equipped /\ u \in Inv
    BY <1>1, <1>4, <2>1 DEF Inv
  <2>3. w = [u EXCEPT !.equipped = @ \ N]
    BY DEF TakenOff, UnequipRows, n, N
  <2> HIDE DEF u
  <2>4. QED
    BY <2>2, <2>3 DEF Inv, N
<1>6. Held(w) = Held(v)
  BY <1>5 DEF Held
<1>7. w.bag \cap w.worn = {}
  BY <1>1, <1>5
<1>8. Nums(w.worn) \subseteq w.equipped
  <2>1. ASSUME NEW d \in w.worn PROVE d.num \in v.equipped /\ \A e \in es : d.num # e.num
    BY <1>1, <1>5, <2>1 DEF Nums, Numbered, Held
  <2>2. QED
    BY <1>5, <2>1 DEF Nums
<1>9. Outfit(w.worn)
  BY <1>1, <1>5 DEF Outfit
<1>10. Cardinality(w.worn) = Cardinality(v.worn) - n
  <2>1. Cardinality(v.worn \ es) = Cardinality(v.worn) - Cardinality(v.worn \cap es)
    BY <1>2, FS_Difference
  <2>2. v.worn \cap es = es
    OBVIOUS
  <2>3. QED
    BY <1>5, <2>1, <2>2 DEF n
<1>11. Proper(w)
  <2>1. Cardinality(w.worn) <= w.count
    BY <1>1, <1>2, <1>3, <1>5, <1>10
  <2>2. QED
    BY <1>1, <1>5, <1>6, <1>7, <1>8, <1>9, <2>1 DEF Proper
<1>12. Cardinality(w.bag) = Cardinality(v.bag) + n
  <2>1. Cardinality(v.bag \cup es) = Cardinality(v.bag) + Cardinality(es) - Cardinality(v.bag \cap es)
    BY <1>2, <1>3, FS_Union
  <2>2. v.bag \cap es = {}
    BY <1>1
  <2>3. Cardinality(v.bag \cap es) = 0
    BY <2>2, FS_EmptySet
  <2>4. QED
    BY <1>2, <1>3, <1>5, <2>1, <2>3 DEF n
<1>13. Free(w) = Free(v)
  BY <1>2, <1>3, <1>5, <1>12 DEF Free
<1>14. CouponItems(w) = CouponItems(v)
  <2>1. \A e \in es : e.kind # Coupon
    BY <1>1, KindFacts DEF Outfit, Solid
  <2>2. QED
    BY <1>5, <2>1 DEF CouponItems
<1>15. Counted(v) => Counted(w)
  BY <1>5, <1>13, <1>14 DEF Counted
<1>16. QED
  BY <1>5, <1>11, <1>15

\* What is put on leaves a place, which what it replaces takes.
LEMMA PutOnKeeps ==
    ASSUME NEW v, Proper(v), NEW e \in v.bag, e.kind \in DOMAIN TypeOf, NEW w, w = PutOn(v, e)
    PROVE  Proper(w) /\ (Counted(v) => Counted(w))
<1> DEFINE same == {d \in v.worn : TypeOf[d.kind] = TypeOf[e.kind]}
<1>1. /\ v \in Inv /\ v.rows = Held(v) /\ Numbered(Held(v)) /\ Unstocked(Held(v))
      /\ v.bag \cap v.worn = {} /\ Nums(v.worn) \subseteq v.equipped
      /\ Outfit(v.worn) /\ Cardinality(v.worn) <= v.count
  BY DEF Proper
<1>2. /\ IsFiniteSet(v.bag) /\ IsFiniteSet(v.worn) /\ Cardinality(v.bag) \in Nat
      /\ Cardinality(v.worn) \in Nat /\ v.count \in Nat /\ v.space \in Nat /\ v.coupons \in Nat
  BY Bags
<1>3. /\ e \in Held(v) /\ e \in Entry /\ e.num \in Nat /\ e \notin v.worn /\ e.kind # Coupon
      /\ \A d \in Held(v) : d.num = e.num => d = e
      /\ v.bag \subseteq Entry /\ v.worn \subseteq Entry
  <2>1. e \in Held(v)
    BY DEF Held
  <2>2. QED
    BY <1>1, <2>1, HeldEntry, Fields, KindFacts DEF Solid
<1>4. \A d \in v.worn : d.kind \in DOMAIN TypeOf /\ d.kind # Coupon
  BY <1>1, KindFacts DEF Outfit, Solid
<1>5. Cardinality(v.bag \ {e}) = Cardinality(v.bag) - 1 /\ IsFiniteSet(v.bag \ {e})
  BY <1>2, FS_RemoveElement
<1>6. CASE same = {}
  <2>1. /\ w.bag = v.bag \ {e} /\ w.worn = v.worn \cup {e} /\ w.count = v.count + 1
        /\ w.coupons = v.coupons /\ w.space = v.space /\ w.rows = v.rows
        /\ w.equipped = v.equipped \cup {e.num} /\ w \in Inv
    <3> DEFINE u == [v EXCEPT !.bag = (@ \ {e}) \cup same, !.worn = (@ \ same) \cup {e}]
    <3>1. w = [[u EXCEPT !.count = @ + 1] EXCEPT !.equipped = @ \cup {e.num}]
      BY <1>6 DEF PutOn, EquipRow
    <3> HIDE DEF same
    <3>2. /\ u.bag = v.bag \ {e} /\ u.worn = v.worn \cup {e} /\ u.count = v.count
          /\ u.coupons = v.coupons /\ u.space = v.space /\ u.rows = v.rows
          /\ u.equipped = v.equipped /\ u \in Inv
      BY <1>1, <1>3, <1>6 DEF Inv
    <3> HIDE DEF u
    <3>3. u.count + 1 \in Nat /\ u.equipped \cup {e.num} \subseteq Nat
      BY <1>2, <1>3, <3>2, Fields
    <3>4. QED
      BY <3>1, <3>2, <3>3 DEF Inv
  <2>2. Held(w) = Held(v)
    BY <2>1 DEF Held
  <2>3. w.bag \cap w.worn = {} /\ Nums(w.worn) \subseteq w.equipped
    BY <1>1, <2>1 DEF Nums
  <2>4. Outfit(w.worn)
    <3>1. \A d \in v.worn : TypeOf[d.kind] # TypeOf[e.kind]
      BY <1>6
    <3> HIDE DEF same
    <3>2. \A d \in w.worn : d.kind \in DOMAIN TypeOf
      BY <1>4, <2>1
    <3>3. \A c, d \in w.worn : TypeOf[c.kind] = TypeOf[d.kind] => c = d
      BY <1>1, <2>1, <3>1 DEF Outfit
    <3>4. QED
      BY <3>2, <3>3 DEF Outfit
  <2>5. Cardinality(w.worn) = Cardinality(v.worn) + 1
    <3>1. Cardinality(v.worn \cup {e}) = Cardinality(v.worn) + 1
      BY <1>2, <1>3, FS_AddElement
    <3>2. QED
      BY <2>1, <3>1
  <2>6. Proper(w)
    <3>1. Cardinality(w.worn) <= w.count
      BY <1>1, <1>2, <2>1, <2>5
    <3>2. QED
      BY <1>1, <2>1, <2>2, <2>3, <2>4, <3>1 DEF Proper
  <2>7. Free(w) = Free(v)
    BY <1>2, <1>5, <2>1 DEF Free
  <2>8. CouponItems(w) = CouponItems(v)
    BY <1>3, <2>1 DEF CouponItems
  <2>9. QED
    BY <2>1, <2>6, <2>7, <2>8 DEF Counted
<1>7. CASE same # {}
  <2>1. PICK s : same = {s}
    <3>1. PICK s \in same : TRUE
      BY <1>7
    <3>2. \A d \in same : d = s
      BY <1>1, <3>1 DEF Outfit
    <3>3. QED
      BY <3>1, <3>2
  <2>2. s \in v.worn /\ s \in Held(v) /\ s \in Entry /\ s # e /\ s.num # e.num
    BY <1>3, <2>1 DEF Held
  <2>3. (CHOOSE d \in same : TRUE) = s
    BY <2>1
  <2>4. /\ w.bag = (v.bag \ {e}) \cup {s} /\ w.worn = (v.worn \ {s}) \cup {e} /\ w.count = v.count
        /\ w.coupons = v.coupons /\ w.space = v.space /\ w.rows = v.rows
        /\ w.equipped = (v.equipped \cup {e.num}) \ {s.num} /\ w \in Inv
    <3>1. w = SwapRows([v EXCEPT !.bag = (@ \ {e}) \cup same, !.worn = (@ \ same) \cup {e}], s.num, e.num)
      BY <1>7, <2>3 DEF PutOn
    <3> HIDE DEF same
    <3>2. w = SwapRows([v EXCEPT !.bag = (@ \ {e}) \cup {s}, !.worn = (@ \ {s}) \cup {e}], s.num, e.num)
      BY <2>1, <3>1
    <3> DEFINE u == [v EXCEPT !.bag = (@ \ {e}) \cup {s}, !.worn = (@ \ {s}) \cup {e}]
    <3>3. /\ u.bag = (v.bag \ {e}) \cup {s} /\ u.worn = (v.worn \ {s}) \cup {e} /\ u.count = v.count
          /\ u.coupons = v.coupons /\ u.space = v.space /\ u.rows = v.rows
          /\ u.equipped = v.equipped /\ u \in Inv
      BY <1>1, <1>3, <2>2 DEF Inv
    <3>4. w = [u EXCEPT !.equipped = (@ \cup {e.num}) \ {s.num}]
      BY <3>2 DEF SwapRows
    <3> HIDE DEF u
    <3>5. (u.equipped \cup {e.num}) \ {s.num} \subseteq Nat
      BY <1>3, <3>3, Fields
    <3>6. QED
      BY <3>3, <3>4, <3>5 DEF Inv
  <2> HIDE DEF same
  <2>5. Held(w) = Held(v)
    BY <2>2, <2>4 DEF Held
  <2>6. w.bag \cap w.worn = {}
    BY <1>1, <2>2, <2>4
  <2>7. Nums(w.worn) \subseteq w.equipped
    <3>1. ASSUME NEW d \in w.worn PROVE d.num \in w.equipped
      <4>1. CASE d = e
        BY <2>2, <2>4, <4>1
      <4>2. CASE d # e
        <5>1. d \in v.worn /\ d # s
          BY <2>4, <3>1, <4>2
        <5>2. d.num \in v.equipped /\ d.num # s.num
          BY <1>1, <2>2, <5>1 DEF Nums, Numbered, Held
        <5>3. QED
          BY <2>4, <5>2
      <4>3. QED
        BY <4>1, <4>2
    <3>2. QED
      BY <3>1 DEF Nums
  <2>8. Outfit(w.worn)
    <3>1. \A d \in v.worn \ {s} : TypeOf[d.kind] # TypeOf[e.kind]
      BY <2>1 DEF same
    <3>2. QED
      BY <1>1, <2>4, <3>1 DEF Outfit
  <2>9. Cardinality(w.worn) = Cardinality(v.worn)
    <3>1. IsFiniteSet(v.worn \ {s}) /\ Cardinality(v.worn \ {s}) = Cardinality(v.worn) - 1
      BY <1>2, <2>2, FS_RemoveElement
    <3>2. e \notin v.worn \ {s}
      BY <1>3
    <3>3. Cardinality((v.worn \ {s}) \cup {e}) = Cardinality(v.worn \ {s}) + 1
      BY <3>1, <3>2, FS_AddElement
    <3>4. QED
      BY <1>2, <2>4, <3>1, <3>3
  <2>10. Cardinality(w.bag) = Cardinality(v.bag)
    <3>1. s \notin v.bag \ {e}
      BY <1>1, <2>2
    <3>2. Cardinality((v.bag \ {e}) \cup {s}) = Cardinality(v.bag \ {e}) + 1
      BY <1>5, <3>1, FS_AddElement
    <3>3. QED
      BY <1>2, <1>5, <2>4, <3>2
  <2>11. Proper(w)
    <3>1. Cardinality(w.worn) <= w.count
      BY <1>1, <2>4, <2>9
    <3>2. QED
      BY <1>1, <2>4, <2>5, <2>6, <2>7, <2>8, <3>1 DEF Proper
  <2>12. Free(w) = Free(v)
    BY <2>4, <2>10 DEF Free
  <2>13. CouponItems(w) = CouponItems(v)
    BY <1>3, <1>4, <2>2, <2>4 DEF CouponItems
  <2>14. QED
    BY <2>4, <2>11, <2>12, <2>13 DEF Counted
<1>8. QED
  BY <1>6, <1>7

\* More space.
LEMMA ExpandedKeeps ==
    ASSUME NEW v, Proper(v), NEW w, w = Expanded(v)
    PROVE  /\ Proper(w) /\ (Counted(v) => Counted(w))
           /\ w.bag = v.bag /\ w.worn = v.worn
<1>1. v \in Inv /\ v.space \in 0 .. MaxSpace /\ MaxSpace \in Nat
  BY Fields, InventoryAssumption DEF Proper
<1>2. (IF v.space < MaxSpace THEN v.space + 1 ELSE v.space) \in 0 .. MaxSpace
  BY <1>1
<1>3. /\ w.bag = v.bag /\ w.worn = v.worn /\ w.count = v.count /\ w.coupons = v.coupons
      /\ w.rows = v.rows /\ w.equipped = v.equipped
      /\ w.space = IF v.space < MaxSpace THEN v.space + 1 ELSE v.space
      /\ w \in Inv
  BY <1>1, <1>2 DEF Expanded, Inv
<1>4. Held(w) = Held(v) /\ CouponItems(w) = CouponItems(v)
  BY <1>3 DEF Held, CouponItems
<1>5. Proper(w)
  BY <1>3, <1>4 DEF Proper
<1>6. ASSUME Counted(v) PROVE Counted(w)
  <2>1. Free(w) >= 0
    <3>1. /\ v.count \in Nat /\ v.coupons \in Nat /\ Cardinality(v.bag) \in Nat /\ v.space \in Nat
      BY Bags
    <3>2. Free(v) >= 0
      BY <1>6 DEF Counted
    <3>3. QED
      BY <1>3, <3>1, <3>2 DEF Free
  <2>2. QED
    BY <1>3, <1>4, <1>6, <2>1 DEF Counted
<1>7. QED
  BY <1>3, <1>5, <1>6

\* Coupons that are given: fromBox, which m_couponItems is told of, and not.
LEMMA CouponGivenKeeps ==
    ASSUME NEW v, Proper(v), NEW fromBox \in BOOLEAN, NEW w \in CouponGiven(v, fromBox)
    PROVE  /\ Proper(w)
           /\ fromBox \/ CouponItems(v) # {} => (Counted(v) => Counted(w))
           /\ \A e \in Held(v) : e.kind # Coupon => e \in Held(w)
<1>1. CASE CouponItems(v) # {}
  <2>1. w \in CouponAdded(v)
    BY <1>1 DEF CouponGiven
  <2>2. PICK c \in CouponItems(v) :
            w = IF c.stock \in 1 .. MaxStock - 1 THEN Restocked(v, c, c.stock + 1) ELSE v
    BY <2>1 DEF CouponAdded
  <2>3. c \in Held(v) /\ c.kind = Coupon
    BY DEF CouponItems, Held
  <2>4. c.stock + 1 \in Nat /\ c.kind \notin Solid
    BY <2>3, HeldEntry, KindFacts
  <2>5. CASE w = v
    BY <2>5
  <2>6. CASE w = Restocked(v, c, c.stock + 1)
    <3>1. /\ Proper(w) /\ (Counted(v) => Counted(w))
          /\ \A d \in Held(v) \ {c} : d \in Held(w)
      BY <2>3, <2>4, <2>6, RestockedKeeps
    <3>2. QED
      BY <2>3, <3>1
  <2>7. QED
    BY <2>2, <2>5, <2>6
<1>2. CASE CouponItems(v) = {}
  <2> DEFINE n == Latest(v) + 1
             new == [Fresh(n, Coupon) EXCEPT !.stock = 1]
             es == {new}
             u == Added(v, es)
  <2>1. Latest(v) \in Nat /\ \A e \in Held(v) : e.num \in Nat /\ e.num <= Latest(v)
    BY LatestNumber, EntryFields DEF Proper, Numbered
  <2>2. n \in Nat /\ Coupon \in Kind /\ Coupon \notin Solid
    BY <2>1, KindFacts
  <2>3. new \in Entry /\ new.num = n /\ new.kind = Coupon /\ new.stock = 1
    BY <2>2 DEF Fresh, Entry
  <2>4. w = [u EXCEPT !.coupons = IF fromBox THEN @ + 1 ELSE @]
    BY <1>2 DEF CouponGiven
  <2>5. \A e \in Held(v) : e.num # n
    BY <2>1
  <2> HIDE DEF new, n
  <2>6. IsFiniteSet(es) /\ Cardinality(es) = 1
    BY FS_Singleton
  <2>7. Numbered(es) /\ Unstocked(es)
    BY <2>2, <2>3, <2>6, EntryFields DEF Numbered, Unstocked
  <2>8. \A e \in es : e.num \notin Nums(Held(v))
    BY <2>3, <2>5 DEF Nums
  <2>9. {e \in es : e.kind = Coupon} = es
    BY <2>3
  <2> HIDE DEF es
  <2>10. /\ Proper(u) /\ Held(u) = Held(v) \cup es /\ Free(u) = Free(v) - 1
         /\ u.coupons = v.coupons /\ CouponItems(u) = es
    <3>1. /\ Proper(u) /\ Held(u) = Held(v) \cup es /\ Free(u) = Free(v) - Cardinality(es)
          /\ u.coupons = v.coupons /\ CouponItems(u) = CouponItems(v) \cup {e \in es : e.kind = Coupon}
      BY <2>7, <2>8, AddedKeeps
    <3> HIDE DEF u
    <3>2. QED
      BY <1>2, <2>6, <2>9, <3>1
  <2> HIDE DEF u
  <2>11. u \in Inv /\ u.coupons \in Nat
    BY <2>10, Fields DEF Proper
  <2>12. /\ w.bag = u.bag /\ w.worn = u.worn /\ w.count = u.count /\ w.space = u.space
         /\ w.rows = u.rows /\ w.equipped = u.equipped
         /\ w.coupons = IF fromBox THEN u.coupons + 1 ELSE u.coupons
         /\ w \in Inv
    BY <2>4, <2>11 DEF Inv
  <2>13. Held(w) = Held(u) /\ CouponItems(w) = CouponItems(u)
    BY <2>12 DEF Held, CouponItems
  <2>14. Proper(w)
    BY <2>10, <2>12, <2>13 DEF Proper
  <2>15. ASSUME fromBox, Counted(v) PROVE Counted(w)
    <3>1. v.coupons = 0 /\ Free(v) >= 0
      BY <1>2, <2>15, FS_EmptySet DEF Counted
    <3>2. w.coupons = 1 /\ w.coupons = Cardinality(CouponItems(w))
      BY <2>6, <2>10, <2>12, <2>13, <2>15, <3>1
    <3>3. Free(v) \in Int /\ u.count \in Nat /\ u.space \in Nat /\ Cardinality(u.bag) \in Nat
      BY <2>10, Bags
    <3>4. Free(w) = Free(u) + 1
      BY <2>11, <2>12, <2>15, <3>3 DEF Free
    <3>5. QED
      BY <2>10, <3>1, <3>2, <3>3, <3>4 DEF Counted
  <2>16. QED
    BY <1>2, <2>10, <2>13, <2>14, <2>15
<1>3. QED
  BY <1>1, <1>2

-----------------------------------------------------------------------------
(* A login.                                                                *)

\* The number a login gives to what has the number n.
Rank(es, n) == Cardinality({r \in es : r.num <= n})
Ranked(es, part) == {[e EXCEPT !.num = Rank(es, @)] : e \in part}

\* Numbers stay apart and items keep their order and contents.
LEMMA RankedKeeps ==
    ASSUME NEW es, Numbered(es), NEW part \in SUBSET es
    PROVE  LET f == [e \in part |-> [e EXCEPT !.num = Rank(es, @)]]
           IN  /\ \A e \in part : /\ f[e] \in Entry /\ f[e].num = Rank(es, e.num) /\ f[e].kind = e.kind
                                  /\ f[e].stock = e.stock
               /\ \A d, e \in part : f[d].num = f[e].num => d = e
               /\ Ranked(es, part) = {f[e] : e \in part}
               /\ IsFiniteSet(part) /\ IsFiniteSet(Ranked(es, part))
               /\ Cardinality(Ranked(es, part)) = Cardinality(part)
               /\ Numbered(Ranked(es, part))
<1> DEFINE f == [e \in part |-> [e EXCEPT !.num = Rank(es, @)]]
           below(n) == {r \in es : r.num <= n}
<1>1. es \subseteq Entry /\ IsFiniteSet(es) /\ (\A e \in es : e.num \in Nat)
      /\ \A d, e \in es : d.num = e.num => d = e
  BY EntryFields DEF Numbered
<1>2. \A n \in Nat : /\ below(n) \in SUBSET es /\ IsFiniteSet(below(n))
                     /\ Rank(es, n) = Cardinality(below(n)) /\ Rank(es, n) \in Nat
                     /\ Rank(es, n) <= Cardinality(es)
  <2>1. ASSUME NEW n \in Nat
        PROVE  /\ below(n) \in SUBSET es /\ IsFiniteSet(below(n))
               /\ Rank(es, n) = Cardinality(below(n)) /\ Rank(es, n) \in Nat
               /\ Rank(es, n) <= Cardinality(es)
    <3>1. below(n) \in SUBSET es /\ Rank(es, n) = Cardinality(below(n))
      BY DEF Rank
    <3> HIDE DEF below
    <3>2. IsFiniteSet(below(n)) /\ Cardinality(below(n)) <= Cardinality(es)
      BY <1>1, <3>1, FS_Subset
    <3>3. QED
      BY <3>1, <3>2, FS_CardinalityType
  <2>2. QED
    BY <2>1
<1>3. ASSUME NEW d \in es, NEW e \in es, d.num < e.num PROVE Rank(es, d.num) # Rank(es, e.num)
  <2>1. below(d.num) \in SUBSET below(e.num) /\ e \in below(e.num) /\ e \notin below(d.num)
    BY <1>1, <1>3
  <2>2. IsFiniteSet(below(e.num)) /\ d.num \in Nat /\ e.num \in Nat
    BY <1>1, <1>2
  <2> HIDE DEF below
  <2>3. Cardinality(below(d.num)) = Cardinality(below(e.num)) => below(d.num) = below(e.num)
    BY <2>1, <2>2, FS_Subset
  <2>4. QED
    BY <1>2, <2>1, <2>2, <2>3
<1>4. \A d, e \in es : Rank(es, d.num) = Rank(es, e.num) => d = e
  <2>1. ASSUME NEW d \in es, NEW e \in es, Rank(es, d.num) = Rank(es, e.num) PROVE d = e
    <3>1. ~ (d.num < e.num) /\ ~ (e.num < d.num)
      BY <1>3, <2>1
    <3>2. d.num = e.num
      BY <1>1, <3>1
    <3>3. QED
      BY <1>1, <3>2
  <2>2. QED
    BY <2>1
<1>5. \A e \in part : /\ f[e] \in Entry /\ f[e].num = Rank(es, e.num) /\ f[e].kind = e.kind
                      /\ f[e].stock = e.stock
  <2>1. ASSUME NEW e \in part
        PROVE  /\ f[e] \in Entry /\ f[e].num = Rank(es, e.num) /\ f[e].kind = e.kind
               /\ f[e].stock = e.stock
    <3>1. e \in Entry /\ Rank(es, e.num) \in Nat
      BY <1>1, <1>2
    <3>2. QED
      BY <3>1 DEF Entry
  <2>2. QED
    BY <2>1
<1>6. Ranked(es, part) = {f[e] : e \in part}
  BY DEF Ranked
<1>7. f \in [part -> {f[e] : e \in part}] /\ f \in Surjection(part, {f[e] : e \in part})
  BY DEF Surjection
<1> HIDE DEF f, below
<1>8. \A d, e \in part : f[d].num = f[e].num => d = e
  BY <1>4, <1>5
<1>9. f \in Injection(part, {f[e] : e \in part})
  BY <1>7, <1>8 DEF Injection, IsInjective
<1>10. IsFiniteSet(part)
  BY <1>1, FS_Subset
<1>11. IsFiniteSet({f[e] : e \in part}) /\ Cardinality({f[e] : e \in part}) = Cardinality(part)
  BY <1>7, <1>9, <1>10, FS_Surjection
<1>12. Numbered(Ranked(es, part))
  <2> DEFINE all == Ranked(es, part)
  <2>1. \A e \in all : e \in Entry /\ e.num <= Cardinality(es)
    BY <1>1, <1>2, <1>5, <1>6
  <2>2. \A d, e \in all : d.num = e.num => d = e
    BY <1>6, <1>8
  <2>3. IsFiniteSet(all) /\ Cardinality(es) \in Nat
    BY <1>1, <1>6, <1>11, FS_CardinalityType
  <2> HIDE DEF all
  <2>4. Numbered(all)
    BY <2>1, <2>2, <2>3 DEF Numbered
  <2>5. QED
    BY <2>4 DEF all
<1>13. QED
  BY <1>5, <1>6, <1>8, <1>10, <1>11, <1>12 DEF f

\* A login reads the rows back under new numbers, wears no two items of a type
\* and counts what it reads: the counts are right again, and no larger.
LEMMA ReloginKeeps ==
    ASSUME Proper(inv), Relogin, NEW w, w = inv'
    PROVE  Proper(w) /\ (Counted(inv) => Counted(w))
<1> DEFINE held == inv.rows
           first(r) == \A q \in held :
                           q.num \in inv.equipped /\ q.num < r.num
                             /\ {q.kind, r.kind} \subseteq DOMAIN TypeOf
                             => TypeOf[q.kind] # TypeOf[r.kind]
           wears == {r \in held : r.num \in inv.equipped /\ r.kind \in DOMAIN TypeOf /\ first(r)}
           left == held \ wears
           cs == {r \in left : r.kind = Coupon}
           f == [e \in held |-> [e EXCEPT !.num = Rank(held, @)]]
<1>1. w = [bag |-> Ranked(held, left), worn |-> Ranked(held, wears), count |-> Cardinality(wears),
           coupons |-> Cardinality(cs), space |-> inv.space, rows |-> Ranked(held, held),
           equipped |-> Nums(Ranked(held, wears))]
  BY DEF Relogin, Ranked, Rank
<1>2. /\ inv \in Inv /\ held = Held(inv) /\ Numbered(held) /\ Unstocked(held)
      /\ inv.bag \cap inv.worn = {} /\ Outfit(inv.worn) /\ Cardinality(inv.worn) <= inv.count
  BY DEF Proper
<1>3. \A d, e \in wears : TypeOf[d.kind] = TypeOf[e.kind] => d = e
  <2>1. ASSUME NEW d \in wears, NEW e \in wears, TypeOf[d.kind] = TypeOf[e.kind] PROVE d = e
    <3>1. ~ (d.num < e.num) /\ ~ (e.num < d.num)
      BY <2>1
    <3>2. d.num \in Nat /\ e.num \in Nat
      BY <1>2, EntryFields DEF Numbered
    <3>3. QED
      BY <1>2, <3>1, <3>2 DEF Numbered
  <2>2. QED
    BY <2>1
<1>4. \A e \in wears : e.kind \in DOMAIN TypeOf /\ e.kind # Coupon
  BY KindFacts DEF Solid
<1>5. wears \in SUBSET held /\ left \in SUBSET held /\ cs \in SUBSET held /\ held \in SUBSET held
      /\ wears \cap left = {} /\ wears \cup left = held /\ cs = {r \in held : r.kind = Coupon}
  BY <1>4
<1>6. cs \in SUBSET left /\ \A e \in left : e \in cs <=> e.kind = Coupon
  OBVIOUS
<1> HIDE DEF held, wears, left, cs
<1>7. ASSUME NEW part \in SUBSET held
      PROVE  /\ \A e \in part : /\ f[e] \in Entry /\ f[e].num = Rank(held, e.num) /\ f[e].kind = e.kind
                                /\ f[e].stock = e.stock
             /\ \A d, e \in part : f[d].num = f[e].num => d = e
             /\ Ranked(held, part) = {f[e] : e \in part}
             /\ IsFiniteSet(part) /\ IsFiniteSet(Ranked(held, part))
             /\ Cardinality(Ranked(held, part)) = Cardinality(part)
             /\ Numbered(Ranked(held, part))
  <2> DEFINE g == [e \in part |-> [e EXCEPT !.num = Rank(held, @)]]
  <2>1. /\ \A e \in part : /\ g[e] \in Entry /\ g[e].num = Rank(held, e.num) /\ g[e].kind = e.kind
                           /\ g[e].stock = e.stock
        /\ \A d, e \in part : g[d].num = g[e].num => d = e
        /\ Ranked(held, part) = {g[e] : e \in part}
        /\ IsFiniteSet(part) /\ IsFiniteSet(Ranked(held, part))
        /\ Cardinality(Ranked(held, part)) = Cardinality(part)
        /\ Numbered(Ranked(held, part))
    BY <1>2, RankedKeeps
  <2>2. \A e \in part : f[e] = g[e]
    OBVIOUS
  <2> HIDE DEF f, g
  <2>3. {g[e] : e \in part} = {f[e] : e \in part}
    BY <2>2
  <2>4. QED
    BY <2>1, <2>2, <2>3
<1> HIDE DEF f
<1>8. /\ w.bag = {f[e] : e \in left} /\ w.worn = {f[e] : e \in wears} /\ w.rows = {f[e] : e \in held}
      /\ w.count = Cardinality(wears) /\ w.coupons = Cardinality(cs) /\ w.space = inv.space
      /\ w.equipped = Nums(w.worn)
  BY <1>1, <1>5, <1>7
<1>9. Held(w) = w.rows
  BY <1>5, <1>8 DEF Held
<1>10. Numbered(w.rows) /\ Unstocked(w.rows)
  <2>1. Numbered(w.rows)
    <3>1. held \in SUBSET held
      BY <1>5
    <3>2. Numbered(Ranked(held, held)) /\ Ranked(held, held) = {f[e] : e \in held}
      BY <1>7, <3>1
    <3>3. QED
      BY <1>8, <3>2
  <2>2. \A e \in held : f[e].kind = e.kind /\ f[e].stock = e.stock
    BY <1>5, <1>7
  <2>3. QED
    BY <1>2, <1>8, <2>1, <2>2 DEF Unstocked
<1>11. w.bag \cap w.worn = {}
  <2>1. \A d, e \in held : f[d] = f[e] => d = e
    BY <1>5, <1>7
  <2>2. QED
    BY <1>5, <1>8, <2>1
<1>12. Outfit(w.worn)
  <2>1. \A e \in wears : f[e].kind = e.kind
    BY <1>5, <1>7
  <2>2. \A d \in w.worn : d.kind \in DOMAIN TypeOf
    BY <1>4, <1>8, <2>1
  <2>3. \A c, d \in w.worn : TypeOf[c.kind] = TypeOf[d.kind] => c = d
    <3>1. ASSUME NEW c \in wears, NEW d \in wears, TypeOf[f[c].kind] = TypeOf[f[d].kind]
          PROVE  f[c] = f[d]
      <4>1. TypeOf[c.kind] = TypeOf[d.kind]
        BY <2>1, <3>1
      <4>2. QED
        BY <1>3, <4>1
    <3>2. QED
      BY <1>8, <3>1
  <2>4. QED
    BY <2>2, <2>3 DEF Outfit
<1>13. /\ Cardinality(w.worn) = Cardinality(wears) /\ Cardinality(w.bag) = Cardinality(left)
       /\ IsFiniteSet(wears) /\ IsFiniteSet(left) /\ IsFiniteSet(cs)
       /\ Cardinality(wears) \in Nat /\ Cardinality(left) \in Nat /\ Cardinality(cs) \in Nat
  <2>1. /\ Cardinality(Ranked(held, wears)) = Cardinality(wears) /\ IsFiniteSet(wears)
        /\ Cardinality(Ranked(held, left)) = Cardinality(left) /\ IsFiniteSet(left) /\ IsFiniteSet(cs)
        /\ Ranked(held, wears) = {f[e] : e \in wears} /\ Ranked(held, left) = {f[e] : e \in left}
    BY <1>5, <1>7
  <2>2. QED
    BY <1>8, <2>1, FS_CardinalityType
<1>14. w \in Inv
  <2>1. w.bag \subseteq Entry /\ w.worn \subseteq Entry /\ w.rows \subseteq Entry
    BY <1>9, <1>10 DEF Numbered, Held
  <2>2. Nums(w.worn) \subseteq Nat
    BY <2>1, EntryFields DEF Nums
  <2>3. w = [bag |-> w.bag, worn |-> w.worn, count |-> w.count, coupons |-> w.coupons,
             space |-> w.space, rows |-> w.rows, equipped |-> w.equipped]
    BY <1>1
  <2>4. w.space \in 0 .. MaxSpace
    BY <1>2, <1>8, Fields
  <2>5. QED
    BY <1>8, <1>13, <2>1, <2>2, <2>3, <2>4 DEF Inv
<1>15. Cardinality(w.worn) <= w.count
  BY <1>8, <1>13
<1>16. Proper(w)
  BY <1>8, <1>9, <1>10, <1>11, <1>12, <1>14, <1>15 DEF Proper
<1>17. w.coupons = Cardinality(CouponItems(w))
  <2>1. CouponItems(w) = {f[e] : e \in cs}
    <3>1. \A e \in left : f[e].kind = e.kind
      BY <1>5, <1>7
    <3>2. QED
      BY <1>6, <1>8, <3>1 DEF CouponItems
  <2>2. Cardinality(Ranked(held, cs)) = Cardinality(cs) /\ Ranked(held, cs) = {f[e] : e \in cs}
    BY <1>5, <1>7
  <2>3. QED
    BY <1>8, <2>1, <2>2
<1>18. ASSUME Counted(inv) PROVE Free(w) >= 0
  <2>1. /\ IsFiniteSet(inv.bag) /\ IsFiniteSet(inv.worn) /\ Cardinality(inv.bag) \in Nat
        /\ Cardinality(inv.worn) \in Nat /\ inv.count \in Nat /\ inv.coupons \in Nat /\ inv.space \in Nat
    BY Bags
  <2>2. cs = CouponItems(inv)
    <3>1. \A e \in inv.worn : e.kind # Coupon
      BY <1>2, KindFacts DEF Outfit, Solid
    <3>2. QED
      BY <1>2, <1>5, <3>1 DEF CouponItems, Held
  <2>3. Free(inv) >= 0 /\ inv.coupons = Cardinality(cs)
    BY <1>18, <2>2 DEF Counted
  <2>4. Cardinality(held) = Cardinality(inv.bag) + Cardinality(inv.worn)
    <3>1. Cardinality(inv.bag \cup inv.worn) =
              Cardinality(inv.bag) + Cardinality(inv.worn) - Cardinality(inv.bag \cap inv.worn)
      BY <2>1, FS_Union
    <3>2. Cardinality(inv.bag \cap inv.worn) = 0
      BY <1>2, FS_EmptySet
    <3>3. held = inv.bag \cup inv.worn
      BY <1>2 DEF Held
    <3>4. QED
      BY <2>1, <3>1, <3>2, <3>3
  <2>5. Cardinality(held) = Cardinality(wears) + Cardinality(left)
    <3>1. Cardinality(wears \cup left) =
              Cardinality(wears) + Cardinality(left) - Cardinality(wears \cap left)
      BY <1>13, FS_Union
    <3>2. Cardinality(wears \cap left) = 0
      BY <1>5, FS_EmptySet
    <3>3. Cardinality(held) = Cardinality(wears) + Cardinality(left) - Cardinality(wears \cap left)
      BY <1>5, <3>1
    <3>4. QED
      BY <1>13, <3>2, <3>3
  <2>6. Free(w) = inv.space - Cardinality(wears) + Cardinality(cs) - Cardinality(left)
    BY <1>8, <1>13 DEF Free
  <2>7. Free(inv) = inv.space - inv.count + inv.coupons - Cardinality(inv.bag)
    BY DEF Free
  <2>8. QED
    BY <1>2, <1>13, <2>1, <2>3, <2>4, <2>5, <2>6, <2>7
<1>19. QED
  BY <1>16, <1>17, <1>18 DEF Counted

-----------------------------------------------------------------------------
(* Every action.                                                           *)

\* As long as the counts are right, an inventory is not over-full, and what
\* hasEnoughInventorySpace says is so.
LEMMA Space ==
    ASSUME NEW v, Proper(v), NEW n \in Nat, HasSpace(v, n), Counted(v)
    PROVE  Free(v) >= n
<1>1. Free(v) \in Int
  BY Bags
<1>2. QED
  BY <1>1 DEF HasSpace, Counted

\* Items of no kind of coupon come in, as many as there is space for.
LEMMA ArrivingNow ==
    ASSUME NEW v, Proper(v), NEW n \in Nat, HasSpace(v, n), NEW ks, DOMAIN ks = 1 .. n,
           \A i \in 1 .. n : ks[i] \in Kind \ {Coupon},
           NEW w, w = Added(v, Arrivals(v, ks))
    PROVE  Proper(w) /\ (Counted(v) => Counted(w))
<1>1. Nums(Held(v)) \subseteq Nums(Held(v))
  OBVIOUS
<1>2. Proper(w) /\ (Counted(v) /\ Free(v) >= n => Counted(w))
  BY <1>1, Arriving
<1>3. QED
  BY <1>2, Space

LEMMA BuyKeeps ==
    ASSUME Proper(inv), NEW k \in Kind, NEW n \in 1 .. 2, Buy(k, n), NEW w, w = inv'
    PROVE  Proper(w) /\ (Counted(inv) => Counted(w))
<1> DEFINE ks == [i \in 1 .. n |-> k]
<1>1. n \in Nat /\ DOMAIN ks = 1 .. n /\ \A i \in 1 .. n : ks[i] \in Kind \ {Coupon}
  BY DEF Buy
<1>2. HasSpace(inv, n) /\ w = Added(inv, Arrivals(inv, ks))
  BY DEF Buy
<1> HIDE DEF ks
<1>3. QED
  BY <1>1, <1>2, ArrivingNow

LEMMA ReceiveKeeps ==
    ASSUME Proper(inv), NEW k \in Kind, Receive(k), NEW w, w = inv'
    PROVE  Proper(w) /\ (Counted(inv) => Counted(w))
<1> DEFINE ks == <<k>>
<1>1. 1 \in Nat /\ DOMAIN ks = 1 .. 1 /\ \A i \in 1 .. 1 : ks[i] \in Kind \ {Coupon}
  BY DEF Receive
<1>2. HasSpace(inv, 1) /\ w = Added(inv, Arrivals(inv, ks))
  BY DEF Receive
<1> HIDE DEF ks
<1>3. QED
  BY <1>1, <1>2, ArrivingNow

\* The free lucky spin brings one item more only if there is space for it.
LEMMA SpinKeeps ==
    ASSUME Proper(inv), NEW k \in Kind, NEW n \in 1 .. 2, Spin(n, k), NEW w, w = inv'
    PROVE  Proper(w) /\ (Counted(inv) => Counted(w))
<1> DEFINE free == lucky + n > Lucky \/ lucky >= Lucky
           want == IF ~free THEN n ELSE IF n = 1 THEN 1 ELSE n + 1
           got == IF HasSpace(inv, want) THEN want ELSE n
<1>1. PICK won \in [1 .. got -> {k} \cup LuckyBoxes] : inv' = Added(inv, Arrivals(inv, won))
  BY DEF Spin
<1>2. k # Coupon /\ HasSpace(inv, n)
  BY DEF Spin
<1>3. n \in Nat /\ want \in Nat
  BY DEF want
<1>4. got \in Nat /\ HasSpace(inv, got)
  <2> HIDE DEF want
  <2> QED BY <1>2, <1>3
<1> HIDE DEF got
<1>5. DOMAIN won = 1 .. got /\ \A i \in 1 .. got : won[i] \in Kind \ {Coupon}
  BY <1>1, <1>2, InventoryAssumption
<1>6. QED
  BY <1>1, <1>4, <1>5, ArrivingNow

\* What a box holds is numbered before the box goes, and comes after.
LEMMA OpenBoxKeeps ==
    ASSUME Proper(inv), NEW e \in Held(inv), NEW won, OpenBox(e, won), NEW w, w = inv'
    PROVE  Proper(w) /\ (Counted(inv) => Counted(w))
<1> DEFINE u == Deleted(inv, e)
           n == Len(won)
<1>1. /\ e \in inv.bag /\ e.kind \in DOMAIN Wins /\ won \in Wins[e.kind]
      /\ HasSpace(inv, n) /\ w = Added(u, Arrivals(inv, won))
  BY DEF OpenBox
<1>2. won \in Seq(Kind \ {Coupon}) /\ e.kind # Coupon
  BY <1>1, InventoryAssumption
<1>3. n \in Nat /\ DOMAIN won = 1 .. n /\ \A i \in 1 .. n : won[i] \in Kind \ {Coupon}
  BY <1>2
<1>4. /\ Proper(u) /\ Held(u) = Held(inv) \ {e} /\ (Counted(inv) => Counted(u))
      /\ Free(u) = Free(inv) + 1
  BY <1>1, <1>2, DeletedKeeps
<1> HIDE DEF u, n
<1>5. Nums(Held(u)) \subseteq Nums(Held(inv))
  BY <1>4 DEF Nums
<1>6. Proper(w) /\ (Counted(u) /\ Free(u) >= n => Counted(w))
  <2>1. Proper(u) /\ n \in Nat /\ DOMAIN won = 1 .. n /\ \A i \in 1 .. n : won[i] \in Kind \ {Coupon}
    BY <1>3, <1>4
  <2>2. /\ Proper(Added(u, Arrivals(inv, won)))
        /\ Counted(u) /\ Free(u) >= n => Counted(Added(u, Arrivals(inv, won)))
    BY <1>5, <2>1, Arriving
  <2>3. QED
    BY <1>1, <2>2
<1>7. ASSUME Counted(inv) PROVE Free(u) >= n
  <2>1. Free(inv) >= n
    BY <1>1, <1>3, <1>7, Space
  <2>2. Free(inv) \in Int
    BY Bags
  <2>3. QED
    BY <1>3, <1>4, <2>1, <2>2
<1>8. QED
  BY <1>4, <1>6, <1>7

\* The last coupon of an item goes without m_couponItems: the counts are right
\* only if it was not the last.
LEMMA BuyWithCouponsKeeps ==
    ASSUME Proper(inv), NEW k \in Kind, NEW c \in Held(inv), BuyWithCoupons(k, c), NEW w, w = inv'
    PROVE  Proper(w) /\ (c.stock # 1 /\ Counted(inv) => Counted(w))
<1> DEFINE v == CouponsRemoved(inv, c)
           ks == <<k>>
<1>1. k # Coupon /\ c.kind = Coupon /\ c.stock >= 1
  BY DEF BuyWithCoupons, HasCoupons
<1>2. w = IF HasSpace(v, 1) THEN Added(v, Arrivals(inv, ks)) ELSE v
  BY DEF BuyWithCoupons
<1>3. /\ Proper(v) /\ (c.stock # 1 /\ Counted(inv) => Counted(v))
      /\ Nums(Held(v)) \subseteq Nums(Held(inv))
  <2>1. CASE c.stock = 1
    <3>1. v = Deleted(inv, c)
      BY <2>1 DEF CouponsRemoved
    <3>2. Proper(v) /\ Held(v) = Held(inv) \ {c}
      BY <3>1, DeletedKeeps
    <3>3. QED
      BY <2>1, <3>2 DEF Nums
  <2>2. CASE c.stock # 1
    <3>1. v = Restocked(inv, c, c.stock - 1)
      BY <2>2 DEF CouponsRemoved
    <3>2. c.stock - 1 \in Nat /\ c.kind \notin Solid
      BY <1>1, HeldEntry, KindFacts
    <3>3. QED
      BY <3>1, <3>2, RestockedKeeps
  <2>3. QED
    BY <2>1, <2>2
<1>4. 1 \in Nat /\ DOMAIN ks = 1 .. 1 /\ \A i \in 1 .. 1 : ks[i] \in Kind \ {Coupon}
  BY <1>1
<1> HIDE DEF v, ks
<1>5. CASE ~ HasSpace(v, 1)
  BY <1>2, <1>3, <1>5
<1>6. CASE HasSpace(v, 1)
  <2>1. w = Added(v, Arrivals(inv, ks))
    BY <1>2, <1>6
  <2>2. Proper(w) /\ (Counted(v) /\ Free(v) >= 1 => Counted(w))
    BY <1>3, <1>4, <2>1, Arriving
  <2>3. Counted(v) => Free(v) >= 1
    BY <1>3, <1>6, Space
  <2>4. QED
    BY <1>3, <2>2, <2>3
<1>7. QED
  BY <1>5, <1>6

\* A coupon item that is deleted goes without m_couponItems.
LEMMA DeleteKeeps ==
    ASSUME Proper(inv), NEW e \in Held(inv), inv' = Deleted(inv, e), NEW w, w = inv'
    PROVE  Proper(w) /\ (e.kind # Coupon /\ Counted(inv) => Counted(w))
BY DeletedKeeps

\* What conflicts is taken off before the item is put on.
LEMMA EquipKeeps ==
    ASSUME Proper(inv), NEW e \in Held(inv), Equip(e), NEW w, w = inv'
    PROVE  Proper(w) /\ (Counted(inv) => Counted(w))
<1> DEFINE es == Conflicting(TypeOf[e.kind])
           u == TakenOff(inv, es)
<1>1. e \in inv.bag /\ e.kind \in DOMAIN TypeOf /\ w = PutOn(u, e)
  BY DEF Equip
<1>2. es \in SUBSET inv.worn
  BY DEF Conflicting
<1> HIDE DEF es
<1>3. Proper(u) /\ (Counted(inv) => Counted(u)) /\ u.bag = inv.bag \cup es
  BY <1>2, TakenOffKeeps
<1> HIDE DEF u
<1>4. e \in u.bag
  BY <1>1, <1>3
<1>5. QED
  BY <1>1, <1>3, <1>4, PutOnKeeps

LEMMA UnequipKeeps ==
    ASSUME Proper(inv), NEW e \in Held(inv), Unequip(e), NEW w, w = inv'
    PROVE  Proper(w) /\ (Counted(inv) => Counted(w))
<1>1. {e} \in SUBSET inv.worn /\ w = TakenOff(inv, {e})
  BY DEF Unequip
<1>2. QED
  BY <1>1, TakenOffKeeps

\* The helper of an upgrade is deleted after the item is replaced, that of a
\* reset before.
LEMMA UpgradeKeeps ==
    ASSUME Proper(inv), NEW e \in Held(inv), Upgrade(e), NEW w, w = inv'
    PROVE  Proper(w) /\ (Counted(inv) => Counted(w))
<1>1. e.kind \in DOMAIN Upgraded /\ e.kind \in Solid /\ Upgraded[e.kind] \in Solid
  BY DEF Upgrade, Solid
<1>2. ASSUME NEW helper, NEW v \in Outcomes(e, helper)
      PROVE  Proper(v) /\ (Counted(inv) => Counted(v)) /\ \A d \in Held(inv) \ {e} : d \in Held(v)
  <2>1. v = Replaced(inv, e, Upgraded[e.kind]) \/ v = inv \/ v = Replaced(inv, e, e.kind)
    BY <1>2 DEF Outcomes
  <2>2. CASE v = inv
    BY <2>2
  <2>3. CASE v = Replaced(inv, e, Upgraded[e.kind])
    BY <1>1, <2>3, ReplacedKeeps
  <2>4. CASE v = Replaced(inv, e, e.kind)
    BY <1>1, <2>4, ReplacedKeeps
  <2>5. QED
    BY <2>1, <2>2, <2>3, <2>4
<1>3. CASE inv' \in Outcomes(e, e.kind)
  BY <1>2, <1>3
<1>4. ASSUME NEW u \in Held(inv) \ {e}, u.kind \in {Glue, Refund}, NEW v \in Outcomes(e, u.kind),
             w = Deleted(v, u)
      PROVE  Proper(w) /\ (Counted(inv) => Counted(w))
  <2>1. Proper(v) /\ (Counted(inv) => Counted(v)) /\ u \in Held(v)
    BY <1>2, <1>4
  <2>2. u.kind # Coupon
    BY <1>4, InventoryAssumption
  <2>3. QED
    BY <1>4, <2>1, <2>2, DeletedKeeps
<1>5. QED
  BY <1>3, <1>4 DEF Upgrade

LEMMA ResetUpgradeKeeps ==
    ASSUME Proper(inv), NEW e \in Held(inv), NEW u \in Held(inv), ResetUpgrade(e, u), NEW w, w = inv'
    PROVE  Proper(w) /\ (Counted(inv) => Counted(w))
<1> DEFINE v == Deleted(inv, u)
<1>1. PICK base \in DOMAIN Upgraded : Upgraded[base] = e.kind /\ w = Replaced(v, e, base)
  BY DEF ResetUpgrade
<1>2. e # u /\ u.kind # Coupon /\ base \in Solid /\ e.kind \in Solid
  BY <1>1 DEF ResetUpgrade, Solid
<1>3. Proper(v) /\ Held(v) = Held(inv) \ {u} /\ (Counted(inv) => Counted(v))
  BY <1>2, DeletedKeeps
<1> HIDE DEF v
<1>4. e \in Held(v)
  BY <1>2, <1>3
<1>5. QED
  BY <1>1, <1>2, <1>3, <1>4, ReplacedKeeps

LEMMA GambleKeeps ==
    ASSUME Proper(inv), NEW k \in Kind, NEW e \in Held(inv), Gamble(e, k), NEW w, w = inv'
    PROVE  Proper(w) /\ (Counted(inv) => Counted(w))
<1>1. e.kind \in Solid /\ k \in Solid /\ w = Replaced(inv, e, k)
  BY DEF Gamble, Solid
<1>2. QED
  BY <1>1, ReplacedKeeps

\* What is used up, as long as its deletion finds its row.
LEMMA UseKeeps ==
    ASSUME Proper(inv), NEW e \in Held(inv), ~ astray', NEW w, w = inv',
           UseInstantRespawn(e) \/ UseNoPenalty(e)
    PROVE  Proper(w) /\ (Counted(inv) => Counted(w))
<1>1. e.kind \in Stocked /\ e.kind # Coupon /\ e.kind \notin Solid
  BY KindFacts DEF UseInstantRespawn, UseNoPenalty, Usable
<1>2. CASE UseSome(e)
  <2>1. w = Restocked(inv, e, e.stock - 1) /\ e.stock - 1 \in Nat
    BY <1>2, HeldEntry DEF UseSome
  <2>2. QED
    BY <1>1, <2>1, RestockedKeeps
<1>3. CASE inv' = Deleted(inv, e)
  BY <1>1, <1>3, DeletedKeeps
<1>4. QED
  BY <1>2, <1>3 DEF UseInstantRespawn, UseNoPenalty, UsedUp

LEMMA OpenMpBoxKeeps ==
    ASSUME Proper(inv), NEW e \in Held(inv), ~ astray', OpenMpBox(e), NEW w, w = inv'
    PROVE  Proper(w) /\ (Counted(inv) => Counted(w))
<1>1. e.kind # Coupon /\ w = Deleted(inv, e)
  BY KindFacts DEF OpenMpBox, UsedUp
<1>2. QED
  BY <1>1, DeletedKeeps

LEMMA UseExpansionKeeps ==
    ASSUME Proper(inv), NEW e \in Held(inv), ~ astray', UseExpansion(e), NEW w, w = inv'
    PROVE  Proper(w) /\ (Counted(inv) => Counted(w))
<1> DEFINE v == Expanded(inv)
<1>1. e.kind # Coupon /\ w = Deleted(v, e)
  BY KindFacts DEF UseExpansion, UsedUp
<1>2. Proper(v) /\ (Counted(inv) => Counted(v)) /\ v.bag = inv.bag /\ v.worn = inv.worn
  BY ExpandedKeeps
<1> HIDE DEF v
<1>3. e \in Held(v)
  BY <1>2 DEF Held
<1>4. QED
  BY <1>1, <1>2, <1>3, DeletedKeeps

LEMMA OpenCouponBoxKeeps ==
    ASSUME Proper(inv), NEW e \in Held(inv), ~ astray', OpenCouponBox(e), NEW w, w = inv'
    PROVE  Proper(w) /\ (Counted(inv) => Counted(w))
<1>1. PICK v \in CouponGiven(inv, TRUE) : UsedUp(v, e)
  BY DEF OpenCouponBox
<1>2. e.kind # Coupon /\ w = Deleted(v, e)
  BY <1>1, KindFacts DEF OpenCouponBox, UsedUp
<1>3. Proper(v) /\ (Counted(inv) => Counted(v)) /\ e \in Held(v)
  BY <1>2, CouponGivenKeeps
<1>4. QED
  BY <1>2, <1>3, DeletedKeeps

-----------------------------------------------------------------------------
(* The theorems.                                                           *)

\* A new account has nothing.
LEMMA InitProper == Init => IInv
<1> SUFFICES ASSUME Init PROVE IInv
  OBVIOUS
<1>1. /\ inv.bag = {} /\ inv.worn = {} /\ inv.count = 0 /\ inv.coupons = 0
      /\ inv.space \in 1 .. MaxSpace /\ inv.rows = {} /\ inv.equipped = {}
      /\ inv \in Inv
  <2>1. inv \in [bag : {{}}, worn : {{}}, count : {0}, coupons : {0},
                 space : 1 .. MaxSpace, rows : {{}}, equipped : {{}}]
    BY DEF Init
  <2>2. MaxSpace \in Nat
    BY InventoryAssumption
  <2>3. QED
    BY <2>1, <2>2 DEF Inv
<1>2. Held(inv) = {} /\ CouponItems(inv) = {} /\ Nums(inv.worn) = {}
  BY <1>1 DEF Held, CouponItems, Nums
<1>3. IsFiniteSet({}) /\ Cardinality({}) = 0
  BY FS_EmptySet
<1>4. Numbered({}) /\ Unstocked({}) /\ Outfit({})
  BY <1>3 DEF Numbered, Unstocked, Outfit
<1>5. Proper(inv)
  BY <1>1, <1>2, <1>3, <1>4 DEF Proper
<1>6. Counted(inv)
  <2>1. Free(inv) >= 0
    BY <1>1, <1>3 DEF Free
  <2>2. QED
    BY <1>1, <1>2, <1>3, <2>1 DEF Counted
<1>7. QED
  BY <1>5, <1>6 DEF IInv

\* Whatever the step, an account that no deletion goes astray for stays proper,
\* and its counts right as long as m_couponItems is.
LEMMA StepKeeps ==
    ASSUME Proper(inv), ~ uncounted => Counted(inv), Next, ~ astray', NEW w, w = inv'
    PROVE  Proper(w) /\ (~ uncounted' => Counted(w))
<1>1. CASE \E k \in Kind, n \in 1 .. 2 : Buy(k, n) \/ Spin(n, k)
  <2>1. PICK k \in Kind, n \in 1 .. 2 : Buy(k, n) \/ Spin(n, k)
    BY <1>1
  <2>2. uncounted' = uncounted
    BY <2>1 DEF Buy, Spin
  <2>3. QED
    BY <2>1, <2>2, BuyKeeps, SpinKeeps
<1>2. CASE \E k \in Kind : Receive(k)
  <2>1. PICK k \in Kind : Receive(k)
    BY <1>2
  <2>2. uncounted' = uncounted
    BY <2>1 DEF Receive
  <2>3. QED
    BY <2>1, <2>2, ReceiveKeeps
<1>3. CASE \E k \in Kind, e \in Held(inv) : BuyWithCoupons(k, e) \/ Gamble(e, k)
  <2>1. PICK k \in Kind, e \in Held(inv) : BuyWithCoupons(k, e) \/ Gamble(e, k)
    BY <1>3
  <2>2. CASE BuyWithCoupons(k, e)
    <3>1. Proper(w) /\ (e.stock # 1 /\ Counted(inv) => Counted(w))
      BY <2>2, BuyWithCouponsKeeps
    <3>2. ~ uncounted' => ~ uncounted /\ e.stock # 1
      BY <2>2 DEF BuyWithCoupons
    <3>3. QED
      BY <3>1, <3>2
  <2>3. CASE Gamble(e, k)
    <3>1. uncounted' = uncounted
      BY <2>3 DEF Gamble
    <3>2. QED
      BY <2>3, <3>1, GambleKeeps
  <2>4. QED
    BY <2>1, <2>2, <2>3
<1>4. CASE LeavePenalty
  BY <1>4 DEF LeavePenalty
<1>5. ASSUME NEW e \in Held(inv),
             \/ Prolong(e) \/ Delete(e) \/ Sell(e)
             \/ EquippedItemSwitch(e) \/ AddEnergy(e) \/ Upgrade(e)
             \/ UseInstantRespawn(e) \/ UseNoPenalty(e) \/ UseExpansion(e) \/ OpenMpBox(e) \/ OpenCouponBox(e)
      PROVE  Proper(w) /\ (~ uncounted' => Counted(w))
  <2>1. CASE Prolong(e)
    BY <2>1 DEF Prolong
  <2>2. CASE Delete(e)
    <3>1. Proper(w) /\ (e.kind # Coupon /\ Counted(inv) => Counted(w))
      BY <2>2, DeleteKeeps DEF Delete
    <3>2. ~ uncounted' => ~ uncounted /\ e.kind # Coupon
      BY <2>2 DEF Delete
    <3>3. QED
      BY <3>1, <3>2
  <2>3. CASE Sell(e)
    <3>1. Proper(w) /\ (e.kind # Coupon /\ Counted(inv) => Counted(w))
      BY <2>3, DeleteKeeps DEF Sell
    <3>2. ~ uncounted' => ~ uncounted /\ e.kind # Coupon
      BY <2>3 DEF Sell
    <3>3. QED
      BY <3>1, <3>2
  <2>4. CASE EquippedItemSwitch(e)
    <3>1. uncounted' = uncounted
      BY <2>4 DEF EquippedItemSwitch, Equip, Unequip
    <3>2. QED
      BY <2>4, <3>1, EquipKeeps, UnequipKeeps DEF EquippedItemSwitch
  <2>5. CASE AddEnergy(e)
    <3>1. uncounted' = uncounted /\ w = EnergyAdded(inv, e)
      BY <2>5 DEF AddEnergy
    <3>2. QED
      BY <3>1, EnergyAddedKeeps
  <2>6. CASE Upgrade(e)
    <3>1. uncounted' = uncounted
      BY <2>6 DEF Upgrade
    <3>2. QED
      BY <2>6, <3>1, UpgradeKeeps
  <2>7. CASE UseInstantRespawn(e) \/ UseNoPenalty(e)
    <3>1. uncounted' = uncounted
      BY <2>7 DEF UseInstantRespawn, UseNoPenalty
    <3>2. QED
      BY <2>7, <3>1, UseKeeps
  <2>8. CASE UseExpansion(e)
    <3>1. uncounted' = uncounted
      BY <2>8 DEF UseExpansion
    <3>2. QED
      BY <2>8, <3>1, UseExpansionKeeps
  <2>9. CASE OpenMpBox(e)
    <3>1. uncounted' = uncounted
      BY <2>9 DEF OpenMpBox
    <3>2. QED
      BY <2>9, <3>1, OpenMpBoxKeeps
  <2>10. CASE OpenCouponBox(e)
    <3>1. uncounted' = uncounted
      BY <2>10 DEF OpenCouponBox
    <3>2. QED
      BY <2>10, <3>1, OpenCouponBoxKeeps
  <2>11. QED
    BY <1>5, <2>1, <2>2, <2>3, <2>4, <2>5, <2>6, <2>7, <2>8, <2>9, <2>10
<1>6. CASE \E e, u \in Held(inv) : ResetUpgrade(e, u)
  <2>1. PICK e \in Held(inv), u \in Held(inv) : ResetUpgrade(e, u)
    BY <1>6
  <2>2. uncounted' = uncounted
    BY <2>1 DEF ResetUpgrade
  <2>3. QED
    BY <2>1, <2>2, ResetUpgradeKeeps
<1>7. CASE \E e \in Held(inv) : e.kind \in DOMAIN Wins /\ \E won \in Wins[e.kind] : OpenBox(e, won)
  <2>1. PICK e \in Held(inv) : \E won \in Wins[e.kind] : OpenBox(e, won)
    BY <1>7
  <2>2. PICK won \in Wins[e.kind] : OpenBox(e, won)
    BY <2>1
  <2>3. uncounted' = uncounted
    BY <2>2 DEF OpenBox
  <2>4. QED
    BY <2>2, <2>3, OpenBoxKeeps
<1>8. CASE GiveCoupon \/ ConvertToCoupon
  <2>1. w \in CouponGiven(inv, FALSE) /\ (~ uncounted' => ~ uncounted /\ CouponItems(inv) # {})
    BY <1>8 DEF GiveCoupon, ConvertToCoupon
  <2>2. FALSE \in BOOLEAN
    OBVIOUS
  <2>3. Proper(w) /\ (CouponItems(inv) # {} => (Counted(inv) => Counted(w)))
    BY <2>1, <2>2, CouponGivenKeeps
  <2>4. QED
    BY <2>1, <2>3
<1>9. CASE Relogin
  <2>1. uncounted' = uncounted
    BY <1>9 DEF Relogin
  <2>2. QED
    BY <1>9, <2>1, ReloginKeeps
<1>10. QED
  BY <1>1, <1>2, <1>3, <1>4, <1>5, <1>6, <1>7, <1>8, <1>9 DEF Next

\* A deletion that went astray stays so.
LEMMA AstrayStays == ASSUME [Next]_vars, ~ astray' PROVE ~ astray
<1>1. CASE UNCHANGED vars
  BY <1>1 DEF vars
<1>2. CASE Next
  <2>1. astray' = astray \/ astray' = TRUE
    BY <1>2 DEF Next, Buy, Spin, Receive, BuyWithCoupons, Gamble, LeavePenalty, Prolong, Delete, Sell,
                EquippedItemSwitch, Equip, Unequip, AddEnergy, Upgrade, UseInstantRespawn, UseNoPenalty,
                UseExpansion, OpenMpBox, OpenCouponBox, UsedUp, UseSome, ResetUpgrade, OpenBox,
                GiveCoupon, ConvertToCoupon, Relogin
  <2>2. QED
    BY <2>1
<1>3. QED
  BY <1>1, <1>2

\* Every step keeps the invariant.
LEMMA NextProper == IInv /\ [Next]_vars => IInv'
<1> SUFFICES ASSUME IInv, [Next]_vars, ~ astray'
             PROVE  Proper(inv') /\ (~ uncounted' => Counted(inv'))
  BY DEF IInv
<1>1. Proper(inv) /\ (~ uncounted => Counted(inv))
  BY AstrayStays DEF IInv
<1>2. CASE UNCHANGED vars
  BY <1>1, <1>2 DEF vars
<1>3. CASE Next
  BY <1>1, <1>3, StepKeeps
<1>4. QED
  BY <1>2, <1>3

\* The invariant holds at every moment: of every handler that changes items,
\* boxes, coupons or what is worn, and of every login.
THEOREM InventoryCorrect == Spec => []IInv
<1>1. Init => IInv
  BY InitProper
<1>2. IInv /\ [Next]_vars => IInv'
  BY NextProper
<1>3. QED
  BY <1>1, <1>2, PTL DEF Spec

\* The session's items (Player) and the rows the handlers' writes leave in
\* UserItems are the same, each under a number of its own, as long as no deletion
\* was queued under a number that was read from freed memory.
THEOREM RowsAreHeld == Spec => []ItemsMatchRows
<1>1. IInv => ItemsMatchRows
  <2>1. CASE astray
    BY <2>1 DEF ItemsMatchRows
  <2>2. CASE ~ astray
    BY <2>2, Matching DEF IInv
  <2>3. QED
    BY <2>1, <2>2
<1>2. QED
  BY <1>1, InventoryCorrect, PTL

\* Player::hasEnoughInventorySpace lets no more items in than there is space for,
\* as long as m_couponItems is told of every coupon item.
THEOREM SpaceKept == Spec => []SpaceRespected
<1>1. IInv => SpaceRespected
  <2>1. CASE astray \/ uncounted
    BY <2>1 DEF SpaceRespected
  <2>2. CASE ~ astray /\ ~ uncounted
    BY <2>2, Respecting DEF IInv
  <2>3. QED
    BY <2>1, <2>2
<1>2. QED
  BY <1>1, InventoryCorrect, PTL

-----------------------------------------------------------------------------
(* Sanctions. *)


\* The row of an account has the end of the last ban a moderator was told of.
PromisesWritten == \A a \in Account : until["ban"][a] = promised[a]

SanctionsIInv == SanctionsTypeOK /\ SanctionsBind /\ PromisesWritten

-----------------------------------------------------------------------------
(* Rows and flags. *)

\* Writing one term changes that term only.
LEMMA TermWritten ==
    ASSUME SanctionsTypeOK, NEW k \in Kinds, NEW t \in Account, NEW u \in Nat,
           until' = [until EXCEPT ![k][t] = u]
    PROVE  /\ until' \in [Kinds -> [Account -> Nat]]
           /\ until'[k][t] = u
           /\ \A j \in Flags, a \in Account : j # k \/ a # t => until'[j][a] = until[j][a]
BY DEF SanctionsTypeOK

\* Setting or clearing a flag of an account changes that flag only.
LEMMA FlagSet ==
    ASSUME SanctionsTypeOK, NEW k \in Flags, NEW t, Flag(k, t)
    PROVE  /\ t \in Account
           /\ flags' \in [Flags -> SUBSET Account]
           /\ t \in flags'[k]
           /\ \A j \in Flags, a \in Account : j # k \/ a # t => (a \in flags'[j] <=> a \in flags[j])
           /\ missed' = missed \ {<<k, t>>} /\ missed' \subseteq Flags \X Account
BY DEF SanctionsTypeOK, Flag

LEMMA FlagCleared ==
    ASSUME SanctionsTypeOK, NEW k \in Flags, NEW t, Unflag(k, t)
    PROVE  /\ t \in Account
           /\ flags' \in [Flags -> SUBSET Account]
           /\ t \notin flags'[k]
           /\ \A j \in Flags, a \in Account : j # k \/ a # t => (a \in flags'[j] <=> a \in flags[j])
           /\ missed' = missed \ {<<k, t>>} /\ missed' \subseteq Flags \X Account
BY DEF SanctionsTypeOK, Unflag

\* A session that is not found: what it is not told of is remembered while it is there.
LEMMA PassedBy ==
    ASSUME SanctionsTypeOK, NEW k \in Flags, NEW t \in Account, Offline(k, t)
    PROVE  /\ flags' = flags /\ missed' \subseteq Flags \X Account
           /\ t \in online => <<k, t>> \in missed'
           /\ \A j \in Flags, a \in Account : j # k \/ a # t =>
                  (<<j, a>> \in missed' <=> <<j, a>> \in missed)
BY DEF SanctionsTypeOK, Offline

\* A session that goes takes its flags along.
LEMMA SessionRemoved ==
    ASSUME SanctionsTypeOK, NEW t \in Account, Removed(t)
    PROVE  /\ online' = online \ {t} /\ cheater' \subseteq Account
           /\ flags' \in [Flags -> SUBSET Account]
           /\ \A j \in Flags, a \in Account : a # t => (a \in flags'[j] <=> a \in flags[j])
           /\ missed' \subseteq Flags \X Account
           /\ \A j \in Flags, a \in Account : a # t => (<<j, a>> \in missed' <=> <<j, a>> \in missed)
BY DEF SanctionsTypeOK, Removed

\* What a login loads is what the rows say.
LEMMA FlagsLoaded ==
    ASSUME SanctionsTypeOK, NEW t \in Account
    PROVE  /\ Loaded(t) \in [Flags -> SUBSET Account]
           /\ \A j \in Flags : t \in Loaded(t)[j] <=> Runs(j, t)
           /\ \A j \in Flags, a \in Account : a # t => (a \in Loaded(t)[j] <=> a \in flags[j])
<1>0. \A f \in BOOLEAN : Bound(t, f) \in SUBSET {t} /\ (t \in Bound(t, f) <=> f)
  BY DEF Bound
<1>1. ASSUME NEW j \in Flags
      PROVE  \E B \in SUBSET {t} : Loaded(t)[j] = (flags[j] \ {t}) \cup B /\ (t \in B <=> Runs(j, t))
  <2>1. CASE j = "mute"
    <3>1. Loaded(t)[j] = (flags[j] \ {t}) \cup Bound(t, IsMuted(t))
      BY <2>1 DEF Loaded, Flags
    <3>2. IsMuted(t) \in BOOLEAN /\ IsMuted(t) = Runs(j, t)
      BY <2>1 DEF IsMuted, Runs
    <3>3. QED
      BY <1>0, <3>1, <3>2
  <2>2. CASE j = "rooms"
    <3>1. Loaded(t)[j] = (flags[j] \ {t}) \cup Bound(t, IsRoomCreationDisabled(t))
      BY <2>2 DEF Loaded, Flags
    <3>2. IsRoomCreationDisabled(t) \in BOOLEAN /\ IsRoomCreationDisabled(t) = Runs(j, t)
      BY <2>2 DEF IsRoomCreationDisabled, Runs
    <3>3. QED
      BY <1>0, <3>1, <3>2
  <2>3. CASE j = "votekick"
    <3>1. Loaded(t)[j] = (flags[j] \ {t}) \cup Bound(t, IsVotekickDisabled(t))
      BY <2>3 DEF Loaded, Flags
    <3>2. IsVotekickDisabled(t) \in BOOLEAN /\ IsVotekickDisabled(t) = Runs(j, t)
      BY <2>3 DEF IsVotekickDisabled, Runs
    <3>3. QED
      BY <1>0, <3>1, <3>2
  <2>4. QED
    BY <2>1, <2>2, <2>3 DEF Flags
<1> USE DEF SanctionsTypeOK, Flags
<1>2. DOMAIN Loaded(t) = Flags /\ Loaded(t) = [j \in Flags |-> Loaded(t)[j]]
  BY DEF Loaded
<1>3. \A j \in Flags : Loaded(t)[j] \in SUBSET Account
  BY <1>1
<1>4. QED
  BY <1>1, <1>2, <1>3

-----------------------------------------------------------------------------
(* Sanctions bind. *)

\* How one account's flags and rows fit.
Fits(a) ==
    \A k \in Flags : <<k, a>> \notin missed =>
        /\ Runs(k, a) => a \in flags[k]
        /\ a \in flags[k] => until[k][a] > 0 \/ (k = "mute" /\ a \in unwritten)

\* A step that is about one account leaves the others as they are.
LEMMA OthersFit ==
    ASSUME SanctionsIInv, NEW t \in Account,
           today' = today,
           online' \subseteq online \cup {t},
           unwritten \ {t} \subseteq unwritten',
           \A j \in Flags, a \in Account : a # t =>
               /\ until'[j][a] = until[j][a] /\ (a \in flags'[j] <=> a \in flags[j])
               /\ <<j, a>> \in missed => <<j, a>> \in missed',
           t \in online' => Fits(t)'
    PROVE  SanctionsBind'
<1> SUFFICES ASSUME NEW a \in online', a # t PROVE Fits(a)'
  BY DEF SanctionsBind, Fits
<1>1. a \in online /\ a \in Account
  BY DEF SanctionsIInv, SanctionsTypeOK
<1>2. Fits(a)
  BY <1>1 DEF SanctionsIInv, SanctionsBind, Fits
<1>3. QED
  BY <1>1, <1>2 DEF Fits, Runs

\* A term is written for an account, and its session's flag is set: with a term
\* that lies ahead, they fit.
LEMMA FlagAndTerm ==
    ASSUME SanctionsIInv, NEW k \in Flags, NEW t \in Account, NEW u \in Nat, u > 0,
           until' = [until EXCEPT ![k][t] = u],
           Offline(k, t) \/ Flag(k, t),
           UNCHANGED <<today, online, unwritten>>
    PROVE  /\ flags' \in [Flags -> SUBSET Account] /\ missed' \subseteq Flags \X Account
           /\ SanctionsBind'
<1> USE DEF SanctionsIInv
<1>0. SanctionsTypeOK /\ k \in Kinds
  BY DEF Kinds
<1>1. /\ until'[k][t] = u
      /\ \A j \in Flags, a \in Account : j # k \/ a # t => until'[j][a] = until[j][a]
  <2>1. \A j \in Flags : j \in Kinds
    BY DEF Kinds
  <2>2. QED
    BY <1>0, <2>1 DEF SanctionsTypeOK
<1>2. ASSUME t \in online PROVE Fits(t)
  BY <1>2 DEF SanctionsBind, Fits
<1>3. CASE Offline(k, t)
  <2>1. /\ flags' = flags /\ missed' \subseteq Flags \X Account
        /\ t \in online => <<k, t>> \in missed'
        /\ \A j \in Flags, a \in Account : j # k \/ a # t =>
               (<<j, a>> \in missed' <=> <<j, a>> \in missed)
    BY <1>0, <1>3, PassedBy
  <2>2. ASSUME t \in online, NEW j \in Flags, <<j, t>> \notin missed'
        PROVE  /\ Runs(j, t)' => t \in flags'[j]
               /\ t \in flags'[j] => until'[j][t] > 0 \/ (j = "mute" /\ t \in unwritten')
    BY <1>1, <1>2, <2>1, <2>2 DEF Fits, Runs
  <2>3. t \in online' => Fits(t)'
    BY <2>2 DEF Fits
  <2>4. QED
    BY <1>1, <2>1, <2>3, OthersFit DEF SanctionsTypeOK
<1>4. CASE Flag(k, t)
  <2>1. /\ flags' \in [Flags -> SUBSET Account] /\ missed' \subseteq Flags \X Account
        /\ t \in flags'[k] /\ missed' = missed \ {<<k, t>>} /\ t \in online
        /\ \A j \in Flags, a \in Account : j # k \/ a # t => (a \in flags'[j] <=> a \in flags[j])
    BY <1>0, <1>4, FlagSet DEF Flag
  <2>2. ASSUME NEW j \in Flags, <<j, t>> \notin missed'
        PROVE  /\ Runs(j, t)' => t \in flags'[j]
               /\ t \in flags'[j] => until'[j][t] > 0 \/ (j = "mute" /\ t \in unwritten')
    BY <1>0, <1>1, <1>2, <2>1, <2>2 DEF Fits, Runs
  <2>3. Fits(t)'
    BY <2>2 DEF Fits
  <2>4. QED
    BY <1>1, <2>1, <2>3, OthersFit
<1>5. QED
  BY <1>3, <1>4

\* A term is lifted and the flag cleared; only a mute may have been unwritten.
LEMMA FlagAndTermLifted ==
    ASSUME SanctionsIInv, NEW k \in Flags, NEW t \in Account,
           until' = [until EXCEPT ![k][t] = 0],
           Offline(k, t) \/ Unflag(k, t),
           UNCHANGED <<today, online>>,
           unwritten \ {t} \subseteq unwritten',
           k # "mute" => unwritten' = unwritten
    PROVE  /\ flags' \in [Flags -> SUBSET Account] /\ missed' \subseteq Flags \X Account
           /\ SanctionsBind'
<1> USE DEF SanctionsIInv
<1>0. SanctionsTypeOK /\ k \in Kinds
  BY DEF Kinds
<1>1. /\ until'[k][t] = 0
      /\ \A j \in Flags, a \in Account : j # k \/ a # t => until'[j][a] = until[j][a]
  <2>1. \A j \in Flags : j \in Kinds
    BY DEF Kinds
  <2>2. QED
    BY <1>0, <2>1 DEF SanctionsTypeOK
<1>2. ASSUME t \in online PROVE Fits(t)
  BY <1>2 DEF SanctionsBind, Fits
<1>3. CASE Offline(k, t)
  <2>1. /\ flags' = flags /\ missed' \subseteq Flags \X Account
        /\ t \in online => <<k, t>> \in missed'
        /\ \A j \in Flags, a \in Account : j # k \/ a # t =>
               (<<j, a>> \in missed' <=> <<j, a>> \in missed)
    BY <1>0, <1>3, PassedBy
  <2>2. ASSUME t \in online, NEW j \in Flags, <<j, t>> \notin missed'
        PROVE  /\ Runs(j, t)' => t \in flags'[j]
               /\ t \in flags'[j] => until'[j][t] > 0 \/ (j = "mute" /\ t \in unwritten')
    BY <1>1, <1>2, <2>1, <2>2 DEF Fits, Runs
  <2>3. t \in online' => Fits(t)'
    BY <2>2 DEF Fits
  <2>4. QED
    BY <1>1, <2>1, <2>3, OthersFit DEF SanctionsTypeOK
<1>4. CASE Unflag(k, t)
  <2>1. /\ flags' \in [Flags -> SUBSET Account] /\ missed' \subseteq Flags \X Account
        /\ t \notin flags'[k] /\ missed' = missed \ {<<k, t>>} /\ t \in online
        /\ \A j \in Flags, a \in Account : j # k \/ a # t => (a \in flags'[j] <=> a \in flags[j])
    BY <1>0, <1>4, FlagCleared DEF Unflag
  <2>2. ASSUME NEW j \in Flags, <<j, t>> \notin missed'
        PROVE  /\ Runs(j, t)' => t \in flags'[j]
               /\ t \in flags'[j] => until'[j][t] > 0 \/ (j = "mute" /\ t \in unwritten')
    BY <1>0, <1>1, <1>2, <2>1, <2>2 DEF Fits, Runs, SanctionsTypeOK
  <2>3. Fits(t)'
    BY <2>2 DEF Fits
  <2>4. QED
    BY <1>1, <2>1, <2>3, OthersFit
<1>5. QED
  BY <1>3, <1>4

\* A session goes, whatever is written of its ban.
LEMMA GoneFits ==
    ASSUME SanctionsIInv, NEW t \in Account, Removed(t),
           UNCHANGED <<today, unwritten>>,
           \A j \in Flags : until'[j] = until[j]
    PROVE  SanctionsBind'
<1>0. SanctionsTypeOK
  BY DEF SanctionsIInv
<1>1. /\ online' = online \ {t}
      /\ \A j \in Flags, a \in Account : a # t => (a \in flags'[j] <=> a \in flags[j])
      /\ \A j \in Flags, a \in Account : a # t => (<<j, a>> \in missed' <=> <<j, a>> \in missed)
  BY <1>0, SessionRemoved
<1>2. \A j \in Flags, a \in Account : until'[j][a] = until[j][a]
  OBVIOUS
<1>3. SUFFICES ASSUME NEW a \in online' PROVE Fits(a)'
  BY DEF SanctionsBind, Fits
<1>4. a \in online /\ a \in Account /\ a # t
  BY <1>1 DEF SanctionsIInv, SanctionsTypeOK
<1>5. Fits(a)
  BY <1>4 DEF SanctionsIInv, SanctionsBind, Fits
<1>6. ASSUME NEW j \in Flags, <<j, a>> \notin missed'
      PROVE  /\ Runs(j, a)' => a \in flags'[j]
             /\ a \in flags'[j] => until'[j][a] > 0 \/ (j = "mute" /\ a \in unwritten')
  <2>1. <<j, a>> \notin missed
    BY <1>1, <1>4, <1>6
  <2>2. a \in flags'[j] <=> a \in flags[j]
    BY <1>1, <1>4
  <2>3. QED
    BY <1>2, <1>4, <1>5, <2>1, <2>2 DEF Fits, Runs
<1>7. QED
  BY <1>6 DEF Fits

\* What is written of a ban is no sanction of the session.
LEMMA BanFits ==
    ASSUME SanctionsIInv, UNCHANGED <<today, online, flags, missed, unwritten>>,
           \A j \in Flags : until'[j] = until[j]
    PROVE  SanctionsBind'
BY DEF SanctionsIInv, SanctionsBind, Runs

-----------------------------------------------------------------------------
(* Every step preserves the invariant. *)

LEMMA Initially == SanctionsInit => SanctionsIInv
<1> SUFFICES ASSUME SanctionsInit PROVE SanctionsIInv
  OBVIOUS
<1>1. SanctionsTypeOK
  BY DEF SanctionsInit, SanctionsTypeOK, Kinds
<1>2. SanctionsBind
  BY DEF SanctionsInit, SanctionsBind
<1>3. PromisesWritten
  BY DEF SanctionsInit, PromisesWritten, Kinds
<1>4. QED
  BY <1>1, <1>2, <1>3 DEF SanctionsIInv

\* A day passes: terms run out, flags stay.
LEMMA NextDayStep == ASSUME SanctionsIInv, NextDay PROVE SanctionsIInv'
<1> USE DEF SanctionsIInv, NextDay, rows, logins, sessions, told
<1>1. SanctionsTypeOK'
  BY DEF SanctionsTypeOK
<1>2. SanctionsBind'
  <2>1. ASSUME NEW k \in Kinds, NEW a \in Account PROVE Runs(k, a)' => Runs(k, a)
    BY DEF Runs, SanctionsTypeOK
  <2>2. QED
    BY <2>1 DEF SanctionsBind, SanctionsTypeOK, Kinds
<1>3. PromisesWritten'
  BY DEF PromisesWritten
<1>4. QED
  BY <1>1, <1>2, <1>3

\* The Auth server changes nothing but keys and half-done logins.
LEMMA AuthStep ==
    ASSUME SanctionsIInv, NEW a \in Account,
           Password(a) \/ PasswordFirst(a) \/ Token(a, TRUE) \/ Token(a, FALSE)
    PROVE  SanctionsIInv'
<1>1. /\ UNCHANGED <<today, until, marked, online, flags, missed, cheater, promised, unwritten>>
      /\ key' \subseteq Account /\ loginOk' \subseteq Account
  <2>1. CASE Password(a)
    BY <2>1 DEF Password, GivesKey, SanctionsIInv, SanctionsTypeOK, rows, sessions, told
  <2>2. CASE PasswordFirst(a)
    BY <2>2 DEF PasswordFirst, SanctionsIInv, SanctionsTypeOK, rows, sessions, told
  <2>3. ASSUME NEW right \in BOOLEAN, Token(a, right)
        PROVE  /\ UNCHANGED <<today, until, marked, online, flags, missed, cheater, promised, unwritten>>
               /\ key' \subseteq Account /\ loginOk' \subseteq Account
    BY <2>3 DEF Token, GivesKey, SanctionsIInv, SanctionsTypeOK, rows, sessions, told
  <2>4. QED
    BY <2>1, <2>2, <2>3
<1>2. QED
  BY <1>1 DEF SanctionsIInv, SanctionsTypeOK, SanctionsBind, PromisesWritten, Runs

\* A login loads every flag from its row.
LEMMA LoginStep == ASSUME SanctionsIInv, NEW t \in Account, Login(t) PROVE SanctionsIInv'
<1> USE DEF SanctionsIInv
<1>1. /\ flags' = Loaded(t) /\ online' = online \cup {t} /\ unwritten' = unwritten \ {t}
      /\ missed' = missed \ (Flags \X {t})
      /\ UNCHANGED <<today, until, key, loginOk, promised>>
      /\ cheater' \subseteq Account /\ marked' \subseteq Account
  BY DEF Login, SanctionsTypeOK, logins
<1>2. SanctionsTypeOK'
  BY <1>1, FlagsLoaded DEF SanctionsTypeOK
<1>3. Fits(t)'
  BY <1>1, FlagsLoaded DEF Fits, Runs, SanctionsTypeOK, Kinds
<1>4. SanctionsBind'
  BY <1>1, <1>3, FlagsLoaded, OthersFit
<1>5. PromisesWritten'
  BY <1>1 DEF PromisesWritten
<1>6. QED
  BY <1>2, <1>4, <1>5

\* A session ends and no row is written.
LEMMA RemovedStep ==
    ASSUME SanctionsIInv, NEW t \in Account, Removed(t), UNCHANGED <<today, rows, logins, told>>
    PROVE  SanctionsIInv'
<1> USE DEF SanctionsIInv, rows, logins, told
<1>1. SanctionsTypeOK'
  BY SessionRemoved DEF SanctionsTypeOK
<1>2. SanctionsBind'
  BY GoneFits
<1>3. PromisesWritten'
  BY DEF PromisesWritten
<1>4. QED
  BY <1>1, <1>2, <1>3

\* The end of a ban is written for an account, and promised.
LEMMA BanWritten ==
    ASSUME SanctionsIInv, NEW t \in Account, NEW u \in Nat,
           until' = [until EXCEPT !["ban"][t] = u],
           promised' = [promised EXCEPT ![t] = u]
    PROVE  /\ until' \in [Kinds -> [Account -> Nat]] /\ promised' \in [Account -> Nat]
           /\ \A j \in Flags : until'[j] = until[j]
           /\ PromisesWritten'
BY DEF SanctionsIInv, SanctionsTypeOK, PromisesWritten, Kinds, Flags

LEMMA BanStep ==
    ASSUME SanctionsIInv, NEW s \in Account, NEW t \in Account, NEW d \in Days, Ban(s, t, d)
    PROVE  SanctionsIInv'
<1> USE DEF SanctionsIInv, rows, logins, sessions
<1> DEFINE u == today + d
<1>1. u \in Nat
  BY SanctionsAssumption DEF SanctionsTypeOK
<1>2. CASE UNCHANGED sessions
  <2>1. /\ until' = [until EXCEPT !["ban"][t] = u] /\ promised' = [promised EXCEPT ![t] = u]
        /\ marked' \subseteq Account
        /\ UNCHANGED <<today, key, loginOk, online, flags, missed, cheater, unwritten>>
    <3>1. ~(t \in online /\ Removed(t))
      BY <1>2 DEF Removed
    <3>2. QED
      BY <1>2, <3>1 DEF Ban, UpdateSuspension, SanctionsTypeOK
  <2>2. QED
    BY <1>1, <2>1, BanWritten, BanFits DEF SanctionsTypeOK
<1>3. CASE t \in online /\ Removed(t) /\ Grade[t] < MOD
  <2>1. /\ until' = [until EXCEPT !["ban"][t] = u] /\ promised' = [promised EXCEPT ![t] = u]
        /\ marked' \subseteq Account
        /\ Removed(t)
        /\ UNCHANGED <<today, key, loginOk, unwritten>>
    <3>1. online' # online
      BY <1>3 DEF Removed
    <3>2. QED
      BY <1>3, <3>1 DEF Ban, BanAccount, UpdateSuspension, SanctionsTypeOK
  <2>2. /\ until' \in [Kinds -> [Account -> Nat]] /\ promised' \in [Account -> Nat]
        /\ \A j \in Flags : until'[j] = until[j]
        /\ PromisesWritten'
    BY <1>1, <2>1, BanWritten
  <2>3. SanctionsBind'
    BY <2>1, <2>2, GoneFits
  <2>4. SanctionsTypeOK'
    BY <2>1, <2>2, SessionRemoved DEF SanctionsTypeOK
  <2>5. QED
    BY <2>2, <2>3, <2>4
<1>4. CASE t \in online /\ Removed(t) /\ ~(Grade[t] < MOD)
  <2>1. Removed(t) /\ UNCHANGED <<today, rows, logins, told>>
    <3>1. online' # online
      BY <1>4 DEF Removed
    <3>2. QED
      BY <1>4, <3>1 DEF Ban, told
  <2>2. QED
    BY <2>1, RemovedStep
<1>5. QED
  BY <1>2, <1>3, <1>4 DEF Ban

LEMMA UnbanStep ==
    ASSUME SanctionsIInv, NEW s \in Account, NEW t \in Account, Unban(s, t)
    PROVE  SanctionsIInv'
<1> USE DEF SanctionsIInv, logins, sessions
<1>1. /\ until' = [until EXCEPT !["ban"][t] = 0] /\ promised' = [promised EXCEPT ![t] = 0]
      /\ marked' \subseteq Account
      /\ UNCHANGED <<today, key, loginOk, online, flags, missed, cheater, unwritten>>
  BY DEF Unban, UnbanPlayer, SanctionsTypeOK
<1>2. QED
  BY <1>1, BanWritten, BanFits DEF SanctionsTypeOK

\* A session is marked as a cheater's, and its row where the grade allows it.
LEMMA MatchBanStep ==
    ASSUME SanctionsIInv, NEW t \in Account, MatchBanAccount(t),
           promised' = IF Grade[t] < MOD THEN [promised EXCEPT ![t] = today + Forever] ELSE promised,
           UNCHANGED <<today, logins, online, flags, missed, unwritten>>
    PROVE  SanctionsIInv'
<1> USE DEF SanctionsIInv, logins, rows
<1>1. today + Forever \in Nat /\ cheater' \subseteq Account
  BY SanctionsAssumption DEF SanctionsTypeOK, MatchBanAccount
<1>2. CASE Grade[t] < MOD
  <2>1. /\ until' = [until EXCEPT !["ban"][t] = today + Forever]
        /\ promised' = [promised EXCEPT ![t] = today + Forever]
        /\ marked' \subseteq Account
    BY <1>2 DEF MatchBanAccount, UpdateSuspension, SanctionsTypeOK
  <2>2. QED
    BY <1>1, <2>1, BanWritten, BanFits DEF SanctionsTypeOK
<1>3. CASE ~(Grade[t] < MOD)
  <2>1. UNCHANGED <<until, marked, promised>>
    BY <1>3 DEF MatchBanAccount
  <2>2. QED
    BY <1>1, <2>1, BanFits DEF SanctionsTypeOK, PromisesWritten
<1>4. QED
  BY <1>2, <1>3

LEMMA CheatBanStep ==
    ASSUME SanctionsIInv, NEW s \in Account, NEW t \in Account, CheatBan(s, t)
    PROVE  SanctionsIInv'
<1>1. CASE /\ UpdateSuspension(t, 0, TRUE, Grade[s]) /\ UNCHANGED sessions
           /\ promised' = [promised EXCEPT ![t] = 0]
  <2> USE DEF SanctionsIInv, logins, sessions
  <2>1. /\ until' = [until EXCEPT !["ban"][t] = 0] /\ promised' = [promised EXCEPT ![t] = 0]
        /\ marked' \subseteq Account
        /\ UNCHANGED <<today, key, loginOk, online, flags, missed, cheater, unwritten>>
    BY <1>1 DEF CheatBan, UpdateSuspension, SanctionsTypeOK
  <2>2. QED
    BY <2>1, BanWritten, BanFits DEF SanctionsTypeOK
<1>2. CASE /\ MatchBanAccount(t)
           /\ IF Grade[t] < MOD THEN promised' = [promised EXCEPT ![t] = today + Forever]
                                ELSE UNCHANGED promised
           /\ UNCHANGED <<online, flags, missed>>
  <2>1. /\ promised' = IF Grade[t] < MOD THEN [promised EXCEPT ![t] = today + Forever] ELSE promised
        /\ UNCHANGED <<today, logins, online, flags, missed, unwritten>>
    BY <1>2 DEF CheatBan
  <2>2. QED
    BY <1>2, <2>1, MatchBanStep
<1>3. QED
  BY <1>1, <1>2 DEF CheatBan

\* What the commands about mutes, rooms and votekicks do: a term and its flag.
LEMMA TermStep ==
    ASSUME SanctionsIInv, NEW k \in Flags, NEW t \in Account, NEW u \in Nat,
           until' = [until EXCEPT ![k][t] = u],
           \/ u > 0 /\ (Offline(k, t) \/ Flag(k, t)) /\ unwritten' = unwritten
           \/ /\ u = 0 /\ (Offline(k, t) \/ Unflag(k, t))
              /\ unwritten' = unwritten \/ (k = "mute" /\ unwritten' = unwritten \ {t}),
           UNCHANGED <<today, marked, logins, online, cheater, promised>>
    PROVE  SanctionsIInv'
<1> USE DEF SanctionsIInv, logins
<1>1. /\ flags' \in [Flags -> SUBSET Account] /\ missed' \subseteq Flags \X Account
      /\ SanctionsBind'
  <2>1. CASE u > 0 /\ (Offline(k, t) \/ Flag(k, t)) /\ unwritten' = unwritten
    BY <2>1, FlagAndTerm
  <2>2. CASE u = 0 /\ (Offline(k, t) \/ Unflag(k, t))
    BY <2>2, FlagAndTermLifted
  <2>3. QED
    BY <2>1, <2>2
<1>2. until' \in [Kinds -> [Account -> Nat]] /\ until'["ban"] = until["ban"]
  BY DEF SanctionsTypeOK, Kinds, Flags
<1>3. SanctionsTypeOK'
  BY <1>1, <1>2 DEF SanctionsTypeOK
<1>4. PromisesWritten'
  BY <1>2 DEF PromisesWritten
<1>5. QED
  BY <1>1, <1>3, <1>4

LEMMA MuteStep ==
    ASSUME SanctionsIInv, NEW s \in Account, NEW t \in Account,
           Unmute(s, t) \/ \E d \in Days : Mute(s, t, d)
    PROVE  SanctionsIInv'
<1>1. CASE Unmute(s, t)
  <2>1. /\ until' = [until EXCEPT !["mute"][t] = 0]
        /\ Offline("mute", t) \/ Unflag("mute", t)
        /\ unwritten' = unwritten \ {t}
        /\ UNCHANGED <<today, marked, logins, online, cheater, promised>>
    BY <1>1 DEF Unmute, UnmuteAccount
  <2>2. QED
    BY <2>1, TermStep DEF Flags
<1>2. ASSUME NEW d \in Days, Mute(s, t, d) PROVE SanctionsIInv'
  <2>1. /\ until' = [until EXCEPT !["mute"][t] = today + d]
        /\ Offline("mute", t) \/ Flag("mute", t)
        /\ unwritten' = unwritten
        /\ UNCHANGED <<today, marked, logins, online, cheater, promised>>
    BY <1>2 DEF Mute, MuteAccount, UpdateMute, told
  <2>2. today + d \in Nat /\ today + d > 0
    BY SanctionsAssumption DEF SanctionsIInv, SanctionsTypeOK
  <2>3. QED
    BY <2>1, <2>2, TermStep DEF Flags
<1>3. QED
  BY <1>1, <1>2

LEMMA RoomCreationStep ==
    ASSUME SanctionsIInv, NEW s \in Account, NEW t \in Account,
           EnableRoomCreationFor(s, t) \/ \E d \in Days : DisableRoomCreationFor(s, t, d)
    PROVE  SanctionsIInv'
<1>1. CASE EnableRoomCreationFor(s, t)
  <2>1. /\ until' = [until EXCEPT !["rooms"][t] = 0]
        /\ Offline("rooms", t) \/ Unflag("rooms", t)
        /\ unwritten' = unwritten
        /\ UNCHANGED <<today, marked, logins, online, cheater, promised>>
    BY <1>1 DEF EnableRoomCreationFor, ResetRoomCreation, told
  <2>2. QED
    BY <2>1, TermStep DEF Flags
<1>2. ASSUME NEW d \in Days, DisableRoomCreationFor(s, t, d) PROVE SanctionsIInv'
  <2>1. /\ until' = [until EXCEPT !["rooms"][t] = today + d]
        /\ Offline("rooms", t) \/ Flag("rooms", t)
        /\ unwritten' = unwritten
        /\ UNCHANGED <<today, marked, logins, online, cheater, promised>>
    BY <1>2 DEF DisableRoomCreationFor, DisableRoomCreation, UpdateRoomCreation, told
  <2>2. today + d \in Nat /\ today + d > 0
    BY SanctionsAssumption DEF SanctionsIInv, SanctionsTypeOK
  <2>3. QED
    BY <2>1, <2>2, TermStep DEF Flags
<1>3. QED
  BY <1>1, <1>2

LEMMA VotekickStep ==
    ASSUME SanctionsIInv, NEW s \in Account, NEW t \in Account,
           EnableVotekickFor(s, t) \/ \E d \in Days : DisableVotekickFor(s, t, d)
    PROVE  SanctionsIInv'
<1>1. CASE EnableVotekickFor(s, t)
  <2>1. /\ until' = [until EXCEPT !["votekick"][t] = 0]
        /\ Offline("votekick", t) \/ Unflag("votekick", t)
        /\ unwritten' = unwritten
        /\ UNCHANGED <<today, marked, logins, online, cheater, promised>>
    BY <1>1 DEF EnableVotekickFor, ResetVotekick, told
  <2>2. QED
    BY <2>1, TermStep DEF Flags
<1>2. ASSUME NEW d \in Days, DisableVotekickFor(s, t, d) PROVE SanctionsIInv'
  <2>1. /\ until' = [until EXCEPT !["votekick"][t] = today + d]
        /\ Offline("votekick", t) \/ Flag("votekick", t)
        /\ unwritten' = unwritten
        /\ UNCHANGED <<today, marked, logins, online, cheater, promised>>
    BY <1>2 DEF DisableVotekickFor, DisableVotekick, UpdateVotekick, told
  <2>2. today + d \in Nat /\ today + d > 0
    BY SanctionsAssumption DEF SanctionsIInv, SanctionsTypeOK
  <2>3. QED
    BY <2>1, <2>2, TermStep DEF Flags
<1>3. QED
  BY <1>1, <1>2

\* The interface mutes a session: from now on the flag needs no term.
LEMMA HttpMuteStep == ASSUME SanctionsIInv, NEW t \in Account, HttpMute(t) PROVE SanctionsIInv'
<1> USE DEF SanctionsIInv
<1>1. /\ Flag("mute", t) /\ unwritten' = unwritten \cup {t}
      /\ UNCHANGED <<today, until, marked, key, loginOk, online, cheater, promised>>
  BY DEF HttpMute, rows, logins
<1>2. /\ flags' \in [Flags -> SUBSET Account] /\ t \in flags'["mute"]
      /\ missed' = missed \ {<<"mute", t>>} /\ missed' \subseteq Flags \X Account
      /\ \A j \in Flags, a \in Account : j # "mute" \/ a # t => (a \in flags'[j] <=> a \in flags[j])
  BY <1>1, FlagSet DEF Flags
<1>3. SanctionsTypeOK'
  BY <1>1, <1>2 DEF SanctionsTypeOK
<1>4. SanctionsBind'
  <2>1. Fits(t)
    BY <1>1 DEF Flag, SanctionsBind, Fits
  <2>2. Fits(t)'
    BY <1>1, <1>2, <2>1 DEF Fits, Runs
  <2>3. QED
    BY <1>1, <1>2, <2>2, OthersFit
<1>5. PromisesWritten'
  BY <1>1 DEF PromisesWritten
<1>6. QED
  BY <1>3, <1>4, <1>5

LEMMA HandleRequestStep ==
    ASSUME SanctionsIInv, NEW role \in Roles, NEW t \in Account, HandleRequest(role, t)
    PROVE  SanctionsIInv'
<1>1. CASE HttpBan(t) \/ HttpDisconnect(t)
  BY <1>1, RemovedStep DEF HttpBan, HttpDisconnect
<1>2. CASE HttpCheatBan(t)
  BY <1>2, MatchBanStep DEF HttpCheatBan
<1>3. CASE HttpMute(t)
  BY <1>3, HttpMuteStep
<1>4. QED
  BY <1>1, <1>2, <1>3 DEF HandleRequest

LEMMA InvariantStep == SanctionsIInv /\ [SanctionsNext]_sanctionsVars => SanctionsIInv'
<1> SUFFICES ASSUME SanctionsIInv, [SanctionsNext]_sanctionsVars PROVE SanctionsIInv'
  OBVIOUS
<1>1. CASE NextDay
  BY <1>1, NextDayStep
<1>2. ASSUME NEW a \in Account,
             Password(a) \/ PasswordFirst(a) \/ Token(a, TRUE) \/ Token(a, FALSE)
      PROVE  SanctionsIInv'
  BY <1>2, AuthStep
<1>3. ASSUME NEW a \in Account, Login(a) \/ Logout(a) PROVE SanctionsIInv'
  BY <1>3, LoginStep, RemovedStep DEF Logout
<1>4. ASSUME NEW s \in Account, NEW t \in Account, NEW d \in Days,
             \/ Ban(s, t, d) \/ Mute(s, t, d)
             \/ DisableRoomCreationFor(s, t, d) \/ DisableVotekickFor(s, t, d)
      PROVE  SanctionsIInv'
  BY <1>4, BanStep, MuteStep, RoomCreationStep, VotekickStep
<1>5. ASSUME NEW s \in Account, NEW t \in Account,
             \/ Unban(s, t) \/ CheatBan(s, t) \/ Unmute(s, t)
             \/ EnableRoomCreationFor(s, t) \/ EnableVotekickFor(s, t)
      PROVE  SanctionsIInv'
  BY <1>5, UnbanStep, CheatBanStep, MuteStep, RoomCreationStep, VotekickStep
<1>6. ASSUME NEW s \in Account, NEW t \in Account, Disconnect(s, t) PROVE SanctionsIInv'
  BY <1>6, RemovedStep DEF Disconnect
<1>7. ASSUME NEW role \in Roles, NEW t \in Account, HandleRequest(role, t) PROVE SanctionsIInv'
  BY <1>7, HandleRequestStep
<1>8. CASE UNCHANGED sanctionsVars
  BY <1>8 DEF SanctionsIInv, SanctionsTypeOK, SanctionsBind, PromisesWritten, Runs,
              sanctionsVars, rows, logins, sessions, told
<1>9. QED
  BY <1>1, <1>2, <1>3, <1>4, <1>5, <1>6, <1>7, <1>8 DEF SanctionsNext

THEOREM Invariant == SanctionsSpec => []SanctionsIInv
BY Initially, InvariantStep, PTL DEF SanctionsSpec

\* Types of rows, sessions and history.
THEOREM TypeCorrect == SanctionsSpec => []SanctionsTypeOK
<1>1. SanctionsIInv => SanctionsTypeOK
  BY DEF SanctionsIInv
<1>2. QED
  BY <1>1, Invariant, PTL

\* Whatever the two dozen functions that change flags and rows are called with, a
\* running term binds the session and a bound session has a term or a mute of the
\* administration interface.
THEOREM SessionsBound == SanctionsSpec => []SanctionsBind
<1>1. SanctionsIInv => SanctionsBind
  BY DEF SanctionsIInv
<1>2. QED
  BY <1>1, Invariant, PTL

\* A ban that a moderator was told of stands in the row that the Auth server reads.
THEOREM PromisesKept == SanctionsSpec => []BansStand
<1>1. SanctionsIInv => BansStand
  BY DEF SanctionsIInv, PromisesWritten, BansStand, Runs
<1>2. QED
  BY <1>1, Invariant, PTL

-----------------------------------------------------------------------------
(* Grades. *)

\* Nothing is held against the account: no longer ban or mute, and no session ends.
Spared(t) ==
    /\ \A k \in {"ban", "mute"} : until'[k][t] <= until[k][t]
    /\ t \in online => t \in online'

\* The other ways a step may treat an account.
Justified(t) ==
    \/ \E s \in Account : Commands(s) /\ Outranks(s, t)
    \/ Logout(t) \/ HttpDisconnect(t) \/ HttpBan(t) \/ HttpCheatBan(t)

\* A term of one account is written, if at all, and no other session ends.
LEMMA OthersSpared ==
    ASSUME SanctionsTypeOK, NEW k \in Kinds, NEW t \in Account, NEW u,
           until' = until \/ until' = [until EXCEPT ![k][t] = u],
           online \ {t} \subseteq online'
    PROVE  \A a \in Account : a # t => Spared(a)
<1>1. ASSUME NEW a \in Account, a # t, NEW j \in {"ban", "mute"}
      PROVE  until'[j][a] = until[j][a] /\ until[j][a] \in Nat
  <2>1. j \in Kinds
    BY DEF Kinds, Flags
  <2>2. QED
    BY <1>1, <2>1 DEF SanctionsTypeOK
<1>2. ASSUME NEW a \in Account, a # t PROVE until'["ban"][a] <= until["ban"][a] /\ until'["mute"][a] <= until["mute"][a]
  BY <1>1, <1>2
<1>3. QED
  BY <1>2 DEF Spared

\* A term is lowered, or one that is neither a ban nor a mute is written.
LEMMA TargetSpared ==
    ASSUME SanctionsTypeOK, NEW k \in Kinds, NEW t \in Account, NEW u \in Nat,
           until' = [until EXCEPT ![k][t] = u],
           u = 0 \/ k \notin {"ban", "mute"},
           online \subseteq online'
    PROVE  \A a \in Account : Spared(a)
<1>1. ASSUME NEW a \in Account, NEW j \in {"ban", "mute"}
      PROVE  until'[j][a] <= until[j][a]
  <2>1. j \in Kinds
    BY DEF Kinds, Flags
  <2>2. until[j][a] \in Nat
    BY <2>1 DEF SanctionsTypeOK
  <2>3. until'[j][a] = until[j][a] \/ until'[j][a] = 0
    BY <2>1 DEF SanctionsTypeOK
  <2>4. QED
    BY <2>2, <2>3
<1>2. QED
  BY <1>1 DEF Spared

LEMMA UntouchedSpared ==
    ASSUME SanctionsTypeOK, UNCHANGED until, online \subseteq online'
    PROVE  \A a \in Account : Spared(a)
BY DEF SanctionsTypeOK, Spared, Kinds, Flags

\* Commands that ban, mute or disconnect come from staff of a higher grade.
LEMMA HarmfulCommands ==
    ASSUME SanctionsTypeOK, NEW s \in Account, NEW t \in Account,
           \/ \E d \in Days : Ban(s, t, d) \/ Mute(s, t, d)
           \/ CheatBan(s, t) \/ Disconnect(s, t)
    PROVE  \A a \in Account : Spared(a) \/ Justified(a)
<1>1. Commands(s) /\ Outranks(s, t)
  BY DEF Ban, Mute, CheatBan, Disconnect, UpdateSuspension, UpdateMute, Outranks
<1>2. /\ \E k \in {"ban", "mute"}, u \in Nat : until' = until \/ until' = [until EXCEPT ![k][t] = u]
      /\ online \ {t} \subseteq online'
  <2>1. ASSUME NEW d \in Days
        PROVE today + d \in Nat
    BY SanctionsAssumption DEF SanctionsTypeOK
  <2>2. today + Forever \in Nat /\ 0 \in Nat
    BY SanctionsAssumption DEF SanctionsTypeOK
  <2>3. CASE \E d \in Days : Ban(s, t, d)
    BY <2>1, <2>3 DEF Ban, BanAccount, UpdateSuspension, Removed, sessions, rows
  <2>4. CASE \E d \in Days : Mute(s, t, d)
    BY <2>1, <2>4 DEF Mute, MuteAccount, UpdateMute
  <2>5. CASE CheatBan(s, t)
    BY <2>2, <2>5 DEF CheatBan, MatchBanAccount, UpdateSuspension, sessions, rows
  <2>6. CASE Disconnect(s, t)
    BY <2>2, <2>6 DEF Disconnect, Removed, rows
  <2>7. QED
    BY <2>3, <2>4, <2>5, <2>6
<1>3. \A a \in Account : a # t => Spared(a)
  <2>1. PICK k \in {"ban", "mute"}, u \in Nat : until' = until \/ until' = [until EXCEPT ![k][t] = u]
    BY <1>2
  <2>2. k \in Kinds
    BY DEF Kinds, Flags
  <2>3. QED
    BY <1>2, <2>1, <2>2, OthersSpared
<1>4. QED
  BY <1>1, <1>3 DEF Justified

\* The other commands hold nothing against anybody.
LEMMA HarmlessCommands ==
    ASSUME SanctionsTypeOK, NEW s \in Account, NEW t \in Account,
           \/ \E d \in Days : DisableRoomCreationFor(s, t, d) \/ DisableVotekickFor(s, t, d)
           \/ Unban(s, t) \/ Unmute(s, t)
           \/ EnableRoomCreationFor(s, t) \/ EnableVotekickFor(s, t)
    PROVE  \A a \in Account : Spared(a)
<1>1. /\ \E k \in Kinds, u \in Nat : /\ until' = [until EXCEPT ![k][t] = u]
                                     /\ u = 0 \/ k \notin {"ban", "mute"}
      /\ online' = online
  <2> USE DEF Kinds, Flags
  <2>1. ASSUME NEW d \in Days
        PROVE today + d \in Nat
    BY SanctionsAssumption DEF SanctionsTypeOK
  <2>2. CASE \E d \in Days : DisableRoomCreationFor(s, t, d)
    BY <2>1, <2>2 DEF DisableRoomCreationFor, DisableRoomCreation, UpdateRoomCreation
  <2>3. CASE \E d \in Days : DisableVotekickFor(s, t, d)
    BY <2>1, <2>3 DEF DisableVotekickFor, DisableVotekick, UpdateVotekick
  <2>4. CASE Unban(s, t)
    BY <2>4 DEF Unban, UnbanPlayer, sessions
  <2>5. CASE Unmute(s, t)
    BY <2>5 DEF Unmute, UnmuteAccount
  <2>6. CASE EnableRoomCreationFor(s, t)
    BY <2>6 DEF EnableRoomCreationFor, ResetRoomCreation
  <2>7. CASE EnableVotekickFor(s, t)
    BY <2>7 DEF EnableVotekickFor, ResetVotekick
  <2>8. QED
    BY <2>2, <2>3, <2>4, <2>5, <2>6, <2>7
<1>2. QED
  BY <1>1, TargetSpared

\* Any step but a command.
LEMMA NoCommand ==
    ASSUME SanctionsTypeOK, NEW t \in Account,
           \/ NextDay \/ UNCHANGED sanctionsVars
           \/ Password(t) \/ PasswordFirst(t) \/ Token(t, TRUE) \/ Token(t, FALSE)
           \/ Login(t) \/ Logout(t)
           \/ \E role \in Roles : HandleRequest(role, t)
    PROVE  \A a \in Account : Spared(a) \/ Justified(a)
<1>1. CASE \/ NextDay \/ UNCHANGED sanctionsVars
           \/ Password(t) \/ PasswordFirst(t) \/ Token(t, TRUE) \/ Token(t, FALSE)
           \/ Login(t) \/ HttpMute(t)
  <2>1. UNCHANGED until /\ online \subseteq online'
    BY <1>1 DEF NextDay, Password, PasswordFirst, Token, Login, HttpMute,
                sanctionsVars, rows, sessions
  <2>2. QED
    BY <2>1, UntouchedSpared
<1>2. CASE Logout(t) \/ HttpBan(t) \/ HttpDisconnect(t)
  <2>1. UNCHANGED until /\ online \ {t} \subseteq online'
    BY <1>2 DEF Logout, HttpBan, HttpDisconnect, Removed, rows
  <2>2. \A a \in Account : a # t => Spared(a)
    BY <2>1, OthersSpared DEF Kinds
  <2>3. QED
    BY <1>2, <2>2 DEF Justified
<1>3. CASE HttpCheatBan(t)
  <2>1. /\ until' = until \/ until' = [until EXCEPT !["ban"][t] = today + Forever]
        /\ online' = online
    BY <1>3 DEF HttpCheatBan, MatchBanAccount, UpdateSuspension, rows
  <2>2. \A a \in Account : a # t => Spared(a)
    BY <2>1, OthersSpared DEF Kinds
  <2>3. QED
    BY <1>3, <2>2 DEF Justified
<1>4. QED
  BY <1>1, <1>2, <1>3 DEF HandleRequest

LEMMA EveryoneTreatedRight ==
    ASSUME SanctionsIInv, [SanctionsNext]_sanctionsVars
    PROVE  \A a \in Account : Spared(a) \/ Justified(a)
<1> USE DEF SanctionsIInv
<1>1. ASSUME NEW t \in Account,
             \/ Password(t) \/ PasswordFirst(t) \/ Token(t, TRUE) \/ Token(t, FALSE)
             \/ Login(t) \/ Logout(t)
             \/ \E role \in Roles : HandleRequest(role, t)
      PROVE  \A a \in Account : Spared(a) \/ Justified(a)
  BY <1>1, NoCommand
<1>2. CASE NextDay \/ UNCHANGED sanctionsVars
  BY <1>2, NoCommand
<1>3. ASSUME NEW s \in Account, NEW t \in Account,
             \/ \E d \in Days : Ban(s, t, d) \/ Mute(s, t, d)
             \/ CheatBan(s, t) \/ Disconnect(s, t)
      PROVE  \A a \in Account : Spared(a) \/ Justified(a)
  BY <1>3, HarmfulCommands
<1>4. ASSUME NEW s \in Account, NEW t \in Account,
             \/ \E d \in Days : DisableRoomCreationFor(s, t, d) \/ DisableVotekickFor(s, t, d)
             \/ Unban(s, t) \/ Unmute(s, t)
             \/ EnableRoomCreationFor(s, t) \/ EnableVotekickFor(s, t)
      PROVE  \A a \in Account : Spared(a) \/ Justified(a)
  BY <1>4, HarmlessCommands
<1>5. QED
  BY <1>1, <1>2, <1>3, <1>4 DEF SanctionsNext

\* In the game only staff of a higher grade suspends, mutes or disconnects.
THEOREM StaffOutranks == SanctionsSpec => GradesRespected
<1>1. SanctionsIInv /\ [SanctionsNext]_sanctionsVars =>
          [\A t \in Account :
              \/ /\ \A k \in {"ban", "mute"} : until'[k][t] <= until[k][t]
                 /\ t \in online => t \in online'
              \/ \E s \in Account : Commands(s) /\ Outranks(s, t)
              \/ Logout(t) \/ HttpDisconnect(t) \/ HttpBan(t) \/ HttpCheatBan(t)]_sanctionsVars
  BY EveryoneTreatedRight DEF Spared, Justified
<1>2. QED
  BY <1>1, Invariant, PTL DEF SanctionsSpec, GradesRespected
=============================================================================
