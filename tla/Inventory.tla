----------------------------- MODULE Inventory ------------------------------
(***************************************************************************)
(* The items and micro points of one account: the shop, boxes, upgrades,   *)
(* the gamble, the capsule machine, coupons, and what is worn              *)
(* (include/Handlers/Item, Classes/Player.cpp, Network/MainSession.cpp).   *)
(*                                                                         *)
(* A handler changes the session's copy of the items and queues the same   *)
(* change for the database, where it is made by the item's number.  The    *)
(* queue keeps the order (module Scheduler), so rows is what UserItems     *)
(* holds once it is written, which a login waits for (OfflineIsWritten of  *)
(* module Accounts).  One character is played.  Durability, expiration and *)
(* seals are left out; rock totens and coins go the way of micro points.   *)
(***************************************************************************)
EXTENDS Integers, Sequences, FiniteSets, FiniteSetsExt

CONSTANTS
    Kind,         \* item ids
    Coupon,       \* the item id of coupons, 1000000
    Set,          \* the type of a costume, which covers other types
    Covered,      \* the types a costume covers (SetItemInfo)
    TypeOf,       \* the type of the kinds that can be worn
    Upgraded,     \* the next kind of a weapon that can be upgraded
    Glue, Refund, \* kinds that make an upgrade succeed, or a failure cheap
    Stocked,      \* kinds used up one by one in matches
    Expansion,    \* the kind that expands the inventory
    Wins,         \* what the kinds that are boxes can hold: sets of sequences
    MpBox,        \* the kind that is a box of micro points
    LuckyBoxes    \* what a lucky spin can win (5336503, 5336504)

CONSTANTS         \* limits and amounts
    MaxMp,        \* the largest balance (0x7FFFFFFF)
    MaxSpace,     \* the largest inventory space (1000)
    MaxStock,     \* the largest stock of a coupon item (250)
    Lucky         \* lucky points that make a spin free (1000)

\* What the constant databases say of the kinds: coupons are of a kind of their
\* own, which no box of items holds (itempackageinfo.cdb, gachaponpackageinfo.cdb),
\* and what can be worn or upgraded does not run out: its stock is 0 here.
ASSUME InventoryAssumption ==
    /\ Coupon \in Kind \ (DOMAIN TypeOf \cup DOMAIN Upgraded \cup DOMAIN Wins \cup Stocked)
    /\ {Glue, Refund, Expansion, MpBox} \cup LuckyBoxes \subseteq Kind \ {Coupon}
    /\ Set \notin Covered
    /\ DOMAIN TypeOf \subseteq Kind /\ DOMAIN Wins \subseteq Kind /\ Stocked \subseteq Kind
    /\ \A k \in DOMAIN Upgraded : {k, Upgraded[k]} \subseteq Kind \ {Coupon}
    /\ Stocked \cap (DOMAIN TypeOf \cup DOMAIN Upgraded \cup {Upgraded[k] : k \in DOMAIN Upgraded}) = {}
    /\ \A k \in DOMAIN Wins : \A won \in Wins[k] : won \in Seq(Kind \ {Coupon})
    /\ {MaxMp, MaxSpace, MaxStock} \subseteq Nat /\ Lucky \in Nat \ {0, 1}

VARIABLES
    inv,        \* what the session holds of items, and their rows
    mp, battery, lucky,
    astray,     \* a deletion was queued under a number read from freed memory
    uncounted   \* a coupon item came or went without m_couponItems

vars == <<inv, mp, battery, lucky, astray, uncounted>>

Entry == [num : Nat, kind : Kind, stock : Nat, energy : Nat]

Inv == [bag : SUBSET Entry,    \* m_itemsByItemNumber
        worn : SUBSET Entry,   \* m_equippedItemByCharacter: what has a number
        count : Nat,           \* m_totalEquippedItems
        coupons : Nat,         \* the size of m_couponItems
        space : 0 .. MaxSpace, \* inventorySpace
        rows : SUBSET Entry,   \* UserItems ...
        equipped : SUBSET Nat] \* ... and the numbers of those with IsEquipped set

TypeOK ==
    /\ inv \in Inv
    /\ \A d, e \in inv.worn : TypeOf[d.kind] = TypeOf[e.kind] => d = e
    /\ mp \in 0 .. MaxMp /\ battery \in Nat /\ lucky \in Nat
    /\ astray \in BOOLEAN /\ uncounted \in BOOLEAN

-----------------------------------------------------------------------------
(* The rows (PersistentDatabase), which are found by their numbers. *)

AddPlayerItems(v, es) == [v EXCEPT !.rows = @ \cup es]

RemovePlayerItem(v, n) ==
    [v EXCEPT !.rows = {r \in @ : r.num # n}, !.equipped = @ \ {n}]

UpdateItemStock(v, n, s) ==
    [v EXCEPT !.rows = {[r EXCEPT !.stock = IF r.num = n THEN s ELSE @] : r \in @}]

InsertEnergyToItem(v, n, x) ==
    [v EXCEPT !.rows = {[r EXCEPT !.energy = IF r.num = n THEN x ELSE @] : r \in @}]

\* Seeded fault: the row keeps its energy.
ReplaceItemResetEnergy_Keeps(v, n, k) ==
    [v EXCEPT !.rows = {[r EXCEPT !.kind = IF r.num = n THEN k ELSE @] : r \in @}]

ReplaceItemResetEnergy(v, n, k) ==
    [v EXCEPT !.rows = {IF r.num = n THEN [r EXCEPT !.kind = k, !.energy = 0] ELSE r : r \in @}]

EquipRow(v, n) == [v EXCEPT !.equipped = @ \cup {n}]
UnequipRows(v, ns) == [v EXCEPT !.equipped = @ \ ns]
SwapRows(v, off, on) == [v EXCEPT !.equipped = (@ \cup {on}) \ {off}]

-----------------------------------------------------------------------------
(* The session's copy (Player). *)

Held(v) == v.bag \cup v.worn
Nums(es) == {e.num : e \in es}

Free(v) == v.space - v.count + v.coupons - Cardinality(v.bag)

\* Seeded fault: one item more than there is space for.
HasSpace_OneMore(v, n) == Free(v) < 0 \/ Free(v) + 1 >= n

\* hasEnoughInventorySpace: the sum is unsigned, so that an inventory which is
\* over-full has room for everything.
HasSpace(v, n) == Free(v) < 0 \/ Free(v) >= n

\* getLatestItemNumber
Latest(v) == Max({0} \cup Nums(Held(v)))

Kept(v, es) == [v EXCEPT !.bag = @ \cup es]

\* deleteItemBasic: a worn item leaves its slot and stays counted.
Erased(v, e) == [v EXCEPT !.bag = @ \ {e}, !.worn = @ \ {e}]

\* An item gets other contents where it is, in the bag or worn.
Edited(v, e, new) ==
    [v EXCEPT !.bag = IF e \in @ THEN (@ \ {e}) \cup {new} ELSE @,
              !.worn = IF e \in @ THEN (@ \ {e}) \cup {new} ELSE @]

-----------------------------------------------------------------------------
(* Both at once (Session). *)

Fresh(n, k) == [num |-> n, kind |-> k, energy |-> 0,
                stock |-> IF k \in Stocked THEN 2 ELSE 0]

\* Items that come in are numbered from the latest on.
Arrivals(v, ks) == {Fresh(Latest(v) + i, ks[i]) : i \in DOMAIN ks}

Added(v, es) == Kept(AddPlayerItems(v, es), es)

Deleted(v, e) == RemovePlayerItem(Erased(v, e), e.num)

\* A stock changes, of coupons or of what is used up in matches.
Restocked(v, e, s) == UpdateItemStock(Edited(v, e, [e EXCEPT !.stock = s]), e.num, s)

\* replaceItem: the number stays, the energy goes.  A worn item moves to the
\* bag; it stays counted as worn, and its row equipped.
Replaced(v, e, k) ==
    IF HasSpace(v, 1)
    THEN ReplaceItemResetEnergy(Kept(Erased(v, e), {Fresh(e.num, k)}), e.num, k)
    ELSE v

\* setAccountMicroPoints refuses what is above the largest balance, and so also
\* what is below zero and wraps around.
Balance(m) == IF m \in 0 .. MaxMp THEN m ELSE mp

-----------------------------------------------------------------------------
Init ==
    /\ inv \in [bag : {{}}, worn : {{}}, count : {0}, coupons : {0},
                space : 1 .. MaxSpace, rows : {{}}, equipped : {{}}]
    /\ mp = MaxMp
    /\ battery = 1 /\ lucky = 0
    /\ astray = FALSE /\ uncounted = FALSE

(* The shop. *)

\* handleBoughtItem, of n items of one kind.
Buy(k, n) ==
    /\ k # Coupon
    /\ mp >= n /\ HasSpace(inv, n)
    /\ inv' = Added(inv, Arrivals(inv, [i \in 1 .. n |-> k]))
    /\ mp' = Balance(mp - n)
    /\ UNCHANGED <<battery, lucky, astray, uncounted>>

\* prolongItems: the new duration goes to the row alone, and the micro points.
Prolong(e) ==
    /\ e.kind # Coupon /\ mp >= 1
    /\ mp' = Balance(mp - 1)
    /\ UNCHANGED <<inv, battery, lucky, astray, uncounted>>

\* Player::tryRemoveCoupons, of one coupon from the coupon item c.
HasCoupons(v, c) == c \in v.bag /\ c.kind = Coupon /\ c.stock >= 1

\* Session::tryRemoveCoupons; m_couponItems is not told when the item goes.
CouponsRemoved(v, c) ==
    IF c.stock = 1 THEN Deleted(v, c) ELSE Restocked(v, c, c.stock - 1)

\* handleCouponBoughtItem: the coupons go first, and if there is no space for
\* the item then, it does not come.
BuyWithCoupons(k, c) ==
    /\ k # Coupon /\ HasCoupons(inv, c)
    /\ LET v == CouponsRemoved(inv, c)
       IN  inv' = IF HasSpace(v, 1) THEN Added(v, Arrivals(inv, <<k>>)) ELSE v
    /\ uncounted' = (uncounted \/ c.stock = 1)
    /\ UNCHANGED <<mp, battery, lucky, astray>>

\* handleItemDelete
Delete(e) ==
    /\ inv' = Deleted(inv, e)
    /\ uncounted' = (uncounted \/ e.kind = Coupon)
    /\ UNCHANGED <<mp, battery, lucky, astray>>

\* Seeded fault: the deletion is not queued.
Sell_NotStored(e) ==
    /\ inv' = [Deleted(inv, e) EXCEPT !.rows = inv.rows, !.equipped = inv.equipped]
    /\ mp' \in 0 .. MaxMp
    /\ uncounted' = (uncounted \/ e.kind = Coupon)
    /\ UNCHANGED <<battery, lucky, astray>>

\* refundItem: the client says what the item brings (mpToAdd), and nobody compares
\* it with the price.  The sum is unsigned and wraps around, so that every balance
\* can come of it; what setAccountMicroPoints refuses leaves the old one.
Sell(e) ==
    /\ inv' = Deleted(inv, e)
    /\ mp' \in 0 .. MaxMp
    /\ uncounted' = (uncounted \/ e.kind = Coupon)
    /\ UNCHANGED <<battery, lucky, astray>>

-----------------------------------------------------------------------------
(* What is worn. *)

\* What an item of type t takes off before it is put on: a costume what it
\* covers, and what a costume covers the costume.
Conflicting(t) ==
    {w \in inv.worn : \/ t = Set /\ TypeOf[w.kind] \in Covered
                      \/ t \in Covered /\ TypeOf[w.kind] = Set}

\* unequipItemImpl, of some of the worn items.
TakenOff(v, es) ==
    UnequipRows([v EXCEPT !.bag = @ \cup es, !.worn = @ \ es, !.count = @ - Cardinality(es)], Nums(es))

\* equipItem, the end of it: an item of the same type is swapped in one call of
\* the database, and the count stays.
PutOn(v, e) ==
    LET same == {w \in v.worn : TypeOf[w.kind] = TypeOf[e.kind]}
        u == [v EXCEPT !.bag = (@ \ {e}) \cup same, !.worn = (@ \ same) \cup {e}]
    IN  IF same = {} THEN EquipRow([u EXCEPT !.count = @ + 1], e.num)
        ELSE SwapRows(u, (CHOOSE w \in same : TRUE).num, e.num)

\* equipItem, also of a switch that finds the item not worn.
Equip(e) ==
    /\ e \in inv.bag /\ e.kind \in DOMAIN TypeOf
    /\ inv' = PutOn(TakenOff(inv, Conflicting(TypeOf[e.kind])), e)
    /\ UNCHANGED <<mp, battery, lucky, astray, uncounted>>

\* unequipItem of its type, or switchItemEquip, of an item that is worn.
Unequip(e) ==
    /\ e \in inv.worn
    /\ inv' = TakenOff(inv, {e})
    /\ UNCHANGED <<mp, battery, lucky, astray, uncounted>>

\* handleEquippedItemSwitch, item by item.
EquippedItemSwitch(e) == Equip(e) \/ Unequip(e)

-----------------------------------------------------------------------------
(* Weapons. *)

EnergyAdded(v, e) ==
    InsertEnergyToItem(Edited(v, e, [e EXCEPT !.energy = @ + 1]), e.num, e.energy + 1)

\* addEnergyToItem; the client does not offer more than the battery has.
AddEnergy(e) ==
    /\ battery >= 1
    /\ inv' = EnergyAdded(inv, e)
    /\ battery' = battery - 1
    /\ UNCHANGED <<mp, lucky, astray, uncounted>>

\* What upgradeWeapon can make of an item: a failure is a new item of the same
\* kind, or, with a refund, the item as it was.
Outcomes(e, helper) ==
    {Replaced(inv, e, Upgraded[e.kind])} \cup
        IF helper = Glue THEN {}
        ELSE IF helper = Refund THEN {inv} ELSE {Replaced(inv, e, e.kind)}

\* handleItemUpgrade: the price is taken before the item is replaced, which
\* needs space; the item used with it is deleted in any case.
Upgrade(e) ==
    /\ e.kind \in DOMAIN Upgraded
    /\ mp >= 1 /\ e.energy >= 1
    /\ \/ inv' \in Outcomes(e, e.kind)
       \/ \E u \in Held(inv) \ {e} :
            /\ u.kind \in {Glue, Refund}
            /\ inv' \in {Deleted(v, u) : v \in Outcomes(e, u.kind)}
    /\ mp' = Balance(mp - 1)
    /\ UNCHANGED <<battery, lucky, astray, uncounted>>

\* resetUpgrade: the item that is used is deleted before the weapon is replaced.
ResetUpgrade(e, u) ==
    /\ e # u /\ u.kind # Coupon
    /\ \E base \in DOMAIN Upgraded :
         /\ Upgraded[base] = e.kind
         /\ inv' = Replaced(Deleted(inv, u), e, base)
    /\ UNCHANGED <<mp, battery, lucky, astray, uncounted>>

\* handleGambleItem: paid for only if the item was replaced.
Gamble(e, k) ==
    /\ {e.kind, k} \subseteq DOMAIN TypeOf /\ TypeOf[e.kind] = TypeOf[k]
    /\ mp >= 1 /\ HasSpace(inv, 1)
    /\ inv' = Replaced(inv, e, k)
    /\ mp' = Balance(mp - 1)
    /\ UNCHANGED <<battery, lucky, astray, uncounted>>

-----------------------------------------------------------------------------
(* Items that are used (handleGeneralItem). *)

\* The item is deleted through a reference into itself: the number its row is
\* deleted by is read after the item was freed, and may be no item's.
UsedUp(v, e) ==
    \/ inv' = Deleted(v, e) /\ UNCHANGED astray
    \/ /\ inv' = [Deleted(v, e) EXCEPT !.rows = v.rows, !.equipped = v.equipped]
       /\ astray' = TRUE

\* What is left of the stock; the last of it is deleted by those who use it.
UseSome(e) ==
    /\ e.stock > 1
    /\ inv' = Restocked(inv, e, e.stock - 1)
    /\ UNCHANGED astray

Usable(e) == e \in inv.bag /\ e.kind \in Stocked /\ e.stock >= 1

UseInstantRespawn(e) ==
    /\ Usable(e)
    /\ UseSome(e) \/ (e.stock = 1 /\ UsedUp(inv, e))
    /\ UNCHANGED <<mp, battery, lucky, uncounted>>

\* Of a player who leaves a match: the item is named by the packet, and not by a
\* reference into it.
UseNoPenalty(e) ==
    /\ Usable(e)
    /\ UseSome(e) \/ (e.stock = 1 /\ inv' = Deleted(inv, e) /\ UNCHANGED astray)
    /\ UNCHANGED <<mp, battery, lucky, uncounted>>

\* handleMatchLeave of a player without such an item: a penalty, as far as the
\* micro points go.
LeavePenalty ==
    /\ mp' = Balance(IF mp <= 1 THEN 0 ELSE mp - 1)
    /\ UNCHANGED <<inv, battery, lucky, astray, uncounted>>

\* expandInventory, of the session and then of its row, which refuses what the
\* session has refused.
Expanded(v) == [v EXCEPT !.space = IF @ < MaxSpace THEN @ + 1 ELSE @]

\* The item is used up even if the limit is reached.
UseExpansion(e) ==
    /\ e \in inv.bag /\ e.kind = Expansion
    /\ UsedUp(Expanded(inv), e)
    /\ UNCHANGED <<mp, battery, lucky, uncounted>>

\* A box of items (addItems of box items): what is in it needs space while it
\* is still there, and is numbered before it goes.
OpenBox(e, won) ==
    /\ e \in inv.bag /\ e.kind \in DOMAIN Wins /\ won \in Wins[e.kind]
    /\ HasSpace(inv, Len(won))
    /\ inv' = Added(Deleted(inv, e), Arrivals(inv, won))
    /\ UNCHANGED <<mp, battery, lucky, astray, uncounted>>

\* openCashBox: the box is used up even if the balance refuses what is in it.
OpenMpBox(e) ==
    /\ e \in inv.bag /\ e.kind = MpBox
    /\ UsedUp(inv, e)
    /\ mp' = Balance(mp + 1)
    /\ UNCHANGED <<battery, lucky, uncounted>>

-----------------------------------------------------------------------------
(* What the server gives. *)

CouponItems(v) == {c \in v.bag : c.kind = Coupon}

\* addCoupon, to one of the coupon items there are, if its stock allows it.
CouponAdded(v) ==
    {IF c.stock \in 1 .. MaxStock - 1 THEN Restocked(v, c, c.stock + 1) ELSE v :
        c \in CouponItems(v)}

\* spawnCouponCommon, of one coupon.  A new coupon item needs no space, and is in
\* m_couponItems only if the coupon came from a box.
CouponGiven(v, fromBox) ==
    IF CouponItems(v) # {} THEN CouponAdded(v)
    ELSE {[Added(v, {[Fresh(Latest(v) + 1, Coupon) EXCEPT !.stock = 1]})
             EXCEPT !.coupons = IF fromBox THEN @ + 1 ELSE @]}

\* spawnCouponImmediate
GiveCoupon ==
    /\ inv' \in CouponGiven(inv, FALSE)
    /\ uncounted' = (uncounted \/ CouponItems(inv) = {})
    /\ UNCHANGED <<mp, battery, lucky, astray>>

\* The command rt2coupons, of the price of one coupon: paid if it was given.
ConvertToCoupon ==
    /\ mp >= 1
    /\ inv' \in CouponGiven(inv, FALSE)
    /\ mp' = IF inv' = inv THEN mp ELSE Balance(mp - 1)
    /\ uncounted' = (uncounted \/ CouponItems(inv) = {})
    /\ UNCHANGED <<battery, lucky, astray>>

\* openCashBox of coupons
OpenCouponBox(e) ==
    /\ e \in inv.bag /\ e.kind = MpBox
    /\ \E v \in CouponGiven(inv, TRUE) : UsedUp(v, e)
    /\ UNCHANGED <<mp, battery, lucky, uncounted>>

\* spawnItemCommand, of rewards and of gifts that are accepted.
Receive(k) ==
    /\ k # Coupon /\ HasSpace(inv, 1)
    /\ inv' = Added(inv, Arrivals(inv, <<k>>))
    /\ UNCHANGED <<mp, battery, lucky, astray, uncounted>>

\* itemSelectionAlgorithm: a lucky spin wins a lucky box, another one what the
\* capsule holds.
ItemSelection(k, isLucky) == IF isLucky THEN LuckyBoxes ELSE {k}

\* removeCurrencyByCapsuleType, once for every spin that is paid.
Charged(m, spins) == IF spins >= m THEN 0 ELSE m - spins

\* handleCapsuleSpin, of n spins: when the lucky points are full, the next spin
\* is free and does not count, so one item more than there is surely space for
\* may come; the last spin then fails, and is not paid for.
Spin(n, k) ==
    LET free == lucky + n > Lucky \/ lucky >= Lucky
        want == IF ~free THEN n ELSE IF n = 1 THEN 1 ELSE n + 1
        got == IF HasSpace(inv, want) THEN want ELSE n
        paid == IF free THEN got - 1 ELSE got
        toGo == IF lucky >= Lucky THEN 0 ELSE Lucky - lucky
    IN  /\ k # Coupon
        /\ mp >= n /\ HasSpace(inv, n)
        /\ \E won \in [1 .. got -> {k} \cup LuckyBoxes] :
             /\ \A i \in 1 .. got : won[i] \in ItemSelection(k, free /\ i = toGo + 1)
             /\ inv' = Added(inv, Arrivals(inv, won))
        /\ mp' = Balance(Charged(mp, paid))
        /\ lucky' = IF free THEN paid - toGo ELSE lucky + paid
        /\ UNCHANGED <<battery, astray, uncounted>>

-----------------------------------------------------------------------------
(* A login. *)

\* getPlayerItems numbers the rows from 1 and unequips all but the first row of
\* a type; the session counts what it reads.
Relogin ==
    LET rank(n) == Cardinality({r \in inv.rows : r.num <= n})
        first(r) == \A q \in inv.rows :
                        q.num \in inv.equipped /\ q.num < r.num
                          /\ {q.kind, r.kind} \subseteq DOMAIN TypeOf
                          => TypeOf[q.kind] # TypeOf[r.kind]
        wears == {r \in inv.rows : r.num \in inv.equipped /\ r.kind \in DOMAIN TypeOf /\ first(r)}
        renumbered(es) == {[e EXCEPT !.num = rank(@)] : e \in es}
    IN  /\ inv' = [bag |-> renumbered(inv.rows \ wears),
                   worn |-> renumbered(wears),
                   count |-> Cardinality(wears),
                   coupons |-> Cardinality({r \in inv.rows \ wears : r.kind = Coupon}),
                   space |-> inv.space,
                   rows |-> renumbered(inv.rows),
                   equipped |-> Nums(renumbered(wears))]
        /\ UNCHANGED <<mp, battery, lucky, astray, uncounted>>

Next ==
    \/ \E k \in Kind, n \in 1 .. 2 : Buy(k, n) \/ Spin(n, k)
    \/ \E k \in Kind : Receive(k)
    \/ \E k \in Kind, e \in Held(inv) : BuyWithCoupons(k, e) \/ Gamble(e, k)
    \/ LeavePenalty
    \/ \E e \in Held(inv) :
         \/ Prolong(e) \/ Delete(e) \/ Sell(e)
         \/ EquippedItemSwitch(e) \/ AddEnergy(e) \/ Upgrade(e)
         \/ UseInstantRespawn(e) \/ UseNoPenalty(e) \/ UseExpansion(e) \/ OpenMpBox(e) \/ OpenCouponBox(e)
    \/ \E e, u \in Held(inv) : ResetUpgrade(e, u)
    \/ \E e \in Held(inv) : e.kind \in DOMAIN Wins /\ \E won \in Wins[e.kind] : OpenBox(e, won)
    \/ GiveCoupon \/ ConvertToCoupon
    \/ Relogin

Spec == Init /\ [][Next]_vars

-----------------------------------------------------------------------------
(* Properties. *)

\* What the session holds is what the database will hold, item by item, each
\* under a number of its own, and what is worn now is stored as equipped: the
\* two are changed by separate code, the rows by numbers that are reused.
\* Excepted is an account that a deletion went astray for.
ItemsMatchRows ==
    ~astray =>
        /\ inv.rows = Held(inv)
        /\ Cardinality(Nums(Held(inv))) = Cardinality(Held(inv))
        /\ Nums(inv.worn) \subseteq inv.equipped

\* No more items than there is space for, in the count that leaves out coupon
\* items, in spite of the free lucky spin, the boxes that are opened before they
\* go and the items that are replaced; as long as m_couponItems is right and no
\* deletion went astray, after which the next login brings back what was deleted.
SpaceRespected ==
    ~uncounted /\ ~astray =>
        Cardinality({e \in inv.bag : e.kind # Coupon}) + Cardinality(inv.worn) <= inv.space

\* What an account has: items, coupons and micro points, an item being worth
\* what it costs.
Wealth ==
    mp + Cardinality({e \in Held(inv) : e.kind # Coupon})
       + MapThenSumSet(LAMBDA c : c.stock, CouponItems(inv))

\* An item goes and nothing but micro points comes for it.
Sold == \E e \in Held(inv) : Held(inv') = Held(inv) \ {e}

\* Nothing comes from nothing: items and micro points are exchanged for each
\* other, and more of them come only as rewards, from boxes, by the free lucky
\* spin, one each, and as micro points for an item that goes: what a sale brings
\* is the client's word.  No item is there twice or comes back with a login, and
\* what a handler pays for in several steps it pays for whichever step fails.
NothingFromNothing ==
    [][Wealth' > Wealth /\ ~astray =>
         \/ GiveCoupon
         \/ \E k \in Kind : Receive(k)
         \/ \E e \in inv.bag : e.kind \in DOMAIN Wins /\ e \notin Held(inv')
         \/ Wealth' = Wealth + 1 /\ lucky' < lucky
         \/ Sold]_vars
=============================================================================
