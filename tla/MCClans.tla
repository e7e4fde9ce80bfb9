------------------------------ MODULE MCClans -------------------------------
(***************************************************************************)
(* Instances of Clans for TLC.                                             *)
(***************************************************************************)
EXTENDS Clans

CONSTANTS a1, a2, b1, b2

\* Two of clan "A", and the rest of clan "B".
MCClanOf == [s \in Session |-> IF s \in {a1, a2} THEN "A" ELSE "B"]

SymmetryA == Permutations({a1, a2})
SymmetryAB == {f @@ g : f \in Permutations({a1, a2}), g \in Permutations({b1, b2})}

\* Bounds: a server is followed while it has fresh numbers left (see Rooms) and
\* its rooms are in order.
Bounded == NumbersLeft /\ RoomsInOrder
=============================================================================
