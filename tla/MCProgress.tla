----------------------------- MODULE MCProgress -----------------------------
(***************************************************************************)
(* An instance of Progress for TLC.                                        *)
(***************************************************************************)
EXTENDS Progress

\* A match won with worn weapons, and a clan match that brings nothing else.
MCOutcome ==
    {[gain |-> 1, kills |-> 1, won |-> 1, clan |-> 0, wear |-> TRUE],
     [gain |-> 0, kills |-> 0, won |-> 0, clan |-> 1, wear |-> FALSE]}

\* Bounds: the process ends between a reward and its date once for a day, and the
\* packets are those of the first day.
Bounded ==
    /\ \A c \in Calendar, d \in 1..MaxDay : db.gifts[c][d] <= 1
    /\ today > 1 => handled = 0
=============================================================================
