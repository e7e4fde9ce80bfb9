---------------------------- MODULE MCInventory -----------------------------
(***************************************************************************)
(* Instances of Inventory for TLC.                                         *)
(***************************************************************************)
EXTENDS Inventory, TLC

CONSTANTS rifle, rifle2, hat, suit, coupon, box

MCTypeOf == rifle :> "weapon" @@ rifle2 :> "weapon" @@ hat :> "head" @@ suit :> "set"
MCUpgraded == rifle :> rifle2
MCWins == box :> {<<hat, hat>>}

\* Bounds: item numbers grow until the next login, the count of worn items with
\* every one that is replaced, and that of coupon items with every one that is
\* used up; an account that was given coupons past the space it has keeps to one
\* item besides them.  Nothing is asked of an account whose rows went astray.
Bounded ==
    /\ ~astray
    /\ \A e \in Held(inv) : e.num <= 3
    /\ inv.count <= 2 /\ inv.coupons <= 1
    /\ uncounted => Cardinality(Held(inv)) <= 2
=============================================================================
