---------------------------- MODULE RoomNumbers ----------------------------
(***************************************************************************)
(* RoomNumberGenerator (include/Classes/RoomNumberManager.h): the room     *)
(* numbers 1..MaxNumber are handed out in order, and a released number is  *)
(* queued and handed out again before a fresh one.                         *)
(***************************************************************************)
EXTENDS Naturals, Sequences

CONSTANT MaxNumber    \* m_maxRoomNumber (600 in the server)

ASSUME MaxNumberAssumption == MaxNumber \in Nat \ {0}

Number == 1 .. MaxNumber

\* generate() answers std::nullopt when it has no number left, and the
\* constructor of Room turns that into 0 (value_or(0)).
NoNumber == 0

\* m_nextNumber and m_availableNumbers.
Generator == [next : 1 .. (MaxNumber + 1), free : Seq(Number)]

FreshGenerator == [next |-> 1, free |-> <<>>]

\* generate(): the number handed out, and the generator afterwards.
Generated(g) ==
    IF g.free # <<>> THEN Head(g.free)
    ELSE IF g.next <= MaxNumber THEN g.next ELSE NoNumber

\* Seeded fault: the queued number is read but not popped.
AfterGenerate_NotPopped(g) ==
    IF g.free # <<>> THEN g
    ELSE IF g.next <= MaxNumber THEN [g EXCEPT !.next = @ + 1] ELSE g

AfterGenerate(g) ==
    IF g.free # <<>> THEN [g EXCEPT !.free = Tail(@)]
    ELSE IF g.next <= MaxNumber THEN [g EXCEPT !.next = @ + 1] ELSE g

\* release(number): a number out of range is ignored; nothing checks that the
\* number was handed out, or that it is not queued already.
Released(g, n) ==
    IF n \in Number THEN [g EXCEPT !.free = Append(@, n)] ELSE g
=============================================================================
