------------------------------ MODULE MCSocial -------------------------------
(***************************************************************************)
(* Instances of Social for TLC.                                            *)
(***************************************************************************)
EXTENDS Social, TLC

CONSTANTS a, b, cc, g1, g2

Symmetry == Permutations(Player)

Total(rows) == Len(rows[a]) + Len(rows[b]) + Len(rows[cc])
Mails == Total([p \in Player |-> boxrows[p]["in"] \o boxrows[p]["out"]])
Gifts == Total([p \in Player |-> boxrows[p]["gift"]])

Blockers == {p \in Player : brows[p] # <<>>} \cup {w[1] : w \in tabled \cup freed}

\* Bounds: there are two pairs of friends, or two rows of one player's blocks, and who
\* is listed only by a session is listed while no request is shown; one deletion waits
\* in the queues, if it is one of a block with one row and no mail, if it is one of a
\* mail in its second; there is one request at a time; mails are sent by players
\* without friends, three rows in all or one mail and a block, and gifts to players
\* without either.
Bounded ==
    /\ Total(frows) <= 4 /\ Total(brows) <= 2 /\ Cardinality(tabled) <= 2
    /\ Total(brows) > 0 => Total(frows) = 0
    /\ Cardinality(Blockers) <= 1
    /\ Cardinality(freed) <= 1 /\ (freed # {} => Total(brows) <= 1)
    /\ Cardinality(asked \cup pending) <= 1
    /\ stale # {} => asked \cup pending = {} /\ freed = {} /\ Total(brows) <= 1
    /\ \A d \in wiped : d[3] = now
    /\ Cardinality(unheard) + Cardinality(twins) + Cardinality(wiped) <= 1
    /\ now > 1 \/ sent # {} \/ twins # {} \/ wiped # {} \/ Mails + Gifts > 0 =>
          /\ Total(frows) = 0 /\ stale = {} /\ asked \cup pending = {}
          /\ freed = {} /\ Total(brows) <= 1 /\ Cardinality(tabled) <= 1
          /\ Blockers # {} => now = 1 /\ wiped = {} /\ twins = {} /\ Mails <= 2
          /\ Mails + Gifts <= 3
    /\ sent # {} =>
          /\ Blockers = {} /\ Mails = 0
=============================================================================
