----------------------------- MODULE MCSanctions -----------------------------
(***************************************************************************)
(* Instances of Sanctions for TLC.                                         *)
(***************************************************************************)
EXTENDS Sanctions, TLC

CONSTANTS u, m, g    \* a player and a moderator of one machine, and a game master

MCGrade == u :> 1 @@ m :> 3 @@ g :> 7
MCMachine == u :> "a" @@ m :> "a" @@ g :> "b"

\* Bound: sanctions in force or over, sessions passed by, and logins between password
\* and token.
Terms == Cardinality({p \in Kinds \X Account : until[p[1]][p[2]] > 0})
Bounded ==
    /\ Terms + Cardinality(marked \cup unwritten) + Cardinality(missed) <= 2
    /\ Cardinality(loginOk) <= 1
=============================================================================
