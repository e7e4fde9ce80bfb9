------------------------------ MODULE Exchange ------------------------------
(***************************************************************************)
(* What trading promises, without sessions, windows or packets: an item    *)
(* has one owner at any time, two players swap what each of them offers in *)
(* one step, and otherwise an item only ever leaves the game.              *)
(***************************************************************************)
CONSTANTS
    Player, Item,
    Nobody     \* no player

VARIABLE owner    \* who has the item

OwnedBy(p) == {i \in Item : owner[i] = p}

Init == owner \in [Item -> Player \cup {Nobody}]

Swap(p, q, gives, takes) ==
    /\ owner' = [i \in Item |-> IF i \in gives THEN q
                                ELSE IF i \in takes THEN p ELSE owner[i]]

Discard(i) == owner' = [owner EXCEPT ![i] = Nobody]

Next ==
    \/ \E p \in Player : \E q \in Player \ {p} :
         \E gives \in SUBSET OwnedBy(p), takes \in SUBSET OwnedBy(q) : Swap(p, q, gives, takes)
    \/ \E i \in Item : Discard(i)

Spec == Init /\ [][Next]_owner
=============================================================================
