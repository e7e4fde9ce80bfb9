------------------------------ MODULE MCTrade -------------------------------
(***************************************************************************)
(* Instances of Trade for TLC.                                             *)
(***************************************************************************)
EXTENDS Trade, TLC

CONSTANTS alice, bob, carol

\* Bob is a friend of both others.
MCFriends == {<<alice, bob>>, <<bob, alice>>, <<bob, carol>>, <<carol, bob>>}

\* Carol has room for one item, the others for both.
MCSpace == alice :> 2 @@ bob :> 2 @@ carol :> 1

MCSymmetry == Permutations(Item)

\* Bounds: item numbers grow with every trade until the next login; one
\* request at a time is on a screen, and it is to a friend; two thirds of the
\* money in the game are not spent, and nothing follows on Carol's spending.
Bounded ==
    /\ \A p \in Player : \A e \in bag[p] : e.num <= Cardinality(Item)
    /\ mp[carol] = MaxMp /\ mp[alice] + mp[bob] >= MaxMp
    /\ Cardinality(asked) <= 1 /\ asked \subseteq Friends
=============================================================================
