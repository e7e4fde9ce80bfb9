------------------------------ MODULE MCRooms ------------------------------
(***************************************************************************)
(* Instances of Rooms for TLC.                                             *)
(***************************************************************************)
EXTENDS Rooms, TLC

\* Sessions are alike when both are staff or neither is, and likewise voters.
Symmetry == Permutations(Session \ (Staff \cup Voters)) \cup Permutations(Voters \ Staff)

\* What a room is beyond a waiting room.
Features(r) ==
    {f \in {"watched", "started", "kicked", "voted"} :
        CASE f = "watched" -> r.observers # <<>> \/ r.obsOn
          [] f = "started" -> r.started
          [] f = "kicked"  -> r.kicked # {}
          [] f = "voted"   -> r.vkTarget # NoSession \/ r.vkYes > 0}

InLobby == {s \in Session : pstate[s] = "LOBBY"}

\* Bound: a room has at most two of these at once, with one name on its kick
\* list, and none while somebody is in the lobby or once the server has spent
\* its numbers.  One session at a time is in the lobby.
PlainAfterwards ==
    /\ Cardinality(InLobby) <= 1
    /\ \A n \in DOMAIN rooms :
        /\ Cardinality(Features(rooms[n])) <=
              IF NumbersLeft /\ InLobby = {} THEN 2 ELSE 0
        /\ Cardinality(rooms[n].kicked) <= 1
=============================================================================
