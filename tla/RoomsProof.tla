----------------------------- MODULE RoomsProof -----------------------------
(***************************************************************************)
(* For every set of sessions and every limit: the rooms stay well typed,   *)
(* no number is free while a room carries it, the seats of the rooms and   *)
(* the sessions' room numbers say the same; and where no votekick runs no  *)
(* player's seat is a ghost's and the room knows of its fighters.  Each is *)
(* a property of the worlds that the handlers pass on to one another.      *)
(*                                                                         *)
(* First the operators of Room: a well-formed room stays one whatever a    *)
(* member function does, and a member function sends out the sessions it   *)
(* says it does and no other.  Then worlds of rooms, and Rooms itself.     *)
(***************************************************************************)
EXTENDS Clans, FiniteSetTheorems, WellFoundedInduction, TLAPS

Outcome == [room : RoomRecord, gone : SUBSET Session, close : BOOLEAN]

-----------------------------------------------------------------------------
(* Rearranging a sequence of seats. *)

\* Swapping two seats (changeHost) gives a sequence of seats again.
LEMMA SwapHostType ==
    ASSUME NEW q \in Seq(Seat), NEW i \in DOMAIN q
    PROVE  /\ SwapHost(q, i) \in Seq(Seat)
           /\ DOMAIN SwapHost(q, i) = DOMAIN q
           /\ Len(SwapHost(q, i)) = Len(q)
<1>1. /\ 1 \in DOMAIN q
      /\ Len(q) \in Nat
      /\ DOMAIN q = 1 .. Len(q)
      /\ \A j \in DOMAIN q : q[j] \in Seat
  OBVIOUS
<1>2. SwapHost(q, i) \in [1 .. Len(q) -> Seat]
  BY <1>1 DEF SwapHost
<1>3. QED
  BY <1>1, <1>2

\* Removing a seat by swapping it with the last one gives a sequence of seats.
LEMMA SwapRemoveType ==
    ASSUME NEW q \in Seq(Seat), NEW i \in DOMAIN q
    PROVE  SwapRemove(q, i) \in Seq(Seat)
<1>1. /\ Len(q) \in Nat \ {0}
      /\ DOMAIN q = 1 .. Len(q)
      /\ \A j \in 1 .. Len(q) : q[j] \in Seat
  OBVIOUS
<1>2. SwapRemove(q, i) \in [1 .. (Len(q) - 1) -> Seat]
  BY <1>1 DEF SwapRemove
<1>3. Len(q) - 1 \in Nat
  BY <1>1
<1>4. QED
  BY <1>2, <1>3

\* Erasing a seat gives a sequence of seats.
LEMMA EraseType ==
    ASSUME NEW q \in Seq(Seat), NEW i \in DOMAIN q
    PROVE  Erase(q, i) \in Seq(Seat)
<1>1. /\ Len(q) \in Nat \ {0}
      /\ DOMAIN q = 1 .. Len(q)
      /\ \A j \in 1 .. Len(q) : q[j] \in Seat
  OBVIOUS
<1>2. Erase(q, i) \in [1 .. (Len(q) - 1) -> Seat]
  BY <1>1 DEF Erase
<1>3. Len(q) - 1 \in Nat
  BY <1>1
<1>4. QED
  BY <1>2, <1>3

\* Setting states in place (setStateFor) gives a sequence of seats.
LEMMA SetStatesType ==
    ASSUME NEW q \in Seq(Seat), NEW who, NEW v \in State
    PROVE  SetStates(q, who, v) \in Seq(Seat)
<1>1. Len(q) \in Nat /\ DOMAIN q = 1 .. Len(q) /\ \A j \in 1 .. Len(q) : q[j] \in Seat
  OBVIOUS
<1>2. \A j \in 1 .. Len(q) : [q[j] EXCEPT !.state = v] \in Seat
  BY <1>1 DEF Seat
<1>3. SetStates(q, who, v) \in [1 .. Len(q) -> Seat]
  BY <1>1, <1>2 DEF SetStates
<1>4. QED
  BY <1>1, <1>3

\* A seat findPlayer found is a seat of the list, held by that live session.
LEMMA SeatOfType ==
    ASSUME NEW q, NEW s, Holds(q, s)
    PROVE  SeatOf(q, s) \in DOMAIN q /\ q[SeatOf(q, s)].live /\ q[SeatOf(q, s)].uid = s
BY DEF Holds, SeatsOf, SeatOf

\* The live sessions of a list are sessions.
LEMMA LiveInType ==
    ASSUME NEW q \in Seq(Seat)
    PROVE  LiveIn(q) \subseteq Session
<1>1. \A j \in DOMAIN q : q[j] \in Seat
  OBVIOUS
<1>2. QED
  BY <1>1 DEF LiveIn, Seat

-----------------------------------------------------------------------------
(* The fields of a room. *)

\* A room's fields, one by one.
LEMMA RoomFields ==
    ASSUME NEW r \in RoomRecord
    PROVE  /\ r.players \in Seq(Seat) /\ r.observers \in Seq(Seat)
           /\ r.started \in BOOLEAN /\ r.obsOn \in BOOLEAN
           /\ r.kicked \subseteq Session /\ r.vkStarters \subseteq Session
           /\ r.vkTarget \in Session \cup {NoSession} /\ r.vkYes \in Nat
BY DEF RoomRecord

\* Replacing a field by a value of its type keeps a room a room.
LEMMA RoomUpdates ==
    ASSUME NEW r \in RoomRecord
    PROVE  /\ \A q \in Seq(Seat) : [r EXCEPT !.players = q] \in RoomRecord
           /\ \A q \in Seq(Seat) : [r EXCEPT !.observers = q] \in RoomRecord
           /\ \A b \in BOOLEAN : [r EXCEPT !.started = b] \in RoomRecord
           /\ \A S \in SUBSET Session : [r EXCEPT !.kicked = S] \in RoomRecord
           /\ \A S \in SUBSET Session : [r EXCEPT !.vkStarters = S] \in RoomRecord
BY DEF RoomRecord

\* The sessions seated in a room, and its host, are sessions.
LEMMA MembersType ==
    ASSUME NEW r \in RoomRecord
    PROVE  Members(r) \subseteq Session /\ HostOf(r) \in Session \cup {NoSession}
<1>1. LiveIn(r.players) \subseteq Session /\ LiveIn(r.observers) \subseteq Session
  BY RoomFields, LiveInType
<1>2. r.players # <<>> => r.players[1] \in Seat
  BY RoomFields
<1>3. QED
  BY <1>1, <1>2 DEF Members, HostOf, Seat

\* The index the best-ping search answers is one of the players' seats, though
\* it counts the live seats only (getBestMsIndexExceptSelf).
LEMMA BestSeatsType ==
    ASSUME NEW r \in RoomRecord, NEW s, NEW fighting, NEW ps
    PROVE  BestSeats(r, s, fighting, ps) \subseteq DOMAIN r.players
<1> DEFINE q == r.players
           answered(i) == Cardinality({j \in 1 .. i : q[j].live})
<1>1. q \in Seq(Seat) /\ Len(q) \in Nat /\ DOMAIN q = 1 .. Len(q)
  BY RoomFields
<1>2. ASSUME NEW i \in DOMAIN q, q[i].live
      PROVE  answered(i) \in 1 .. i
  <2> DEFINE L == {j \in 1 .. i : q[j].live}
  <2>1. i \in Nat \ {0}
    BY <1>1
  <2>2. IsFiniteSet(1 .. i) /\ Cardinality(1 .. i) = i
    BY <2>1, FS_Interval
  <2>3. L \in SUBSET (1 .. i) /\ i \in L
    BY <1>2, <2>1
  <2>4. IsFiniteSet(L) /\ Cardinality(L) <= i
    BY <2>2, <2>3, FS_Subset
  <2>5. Cardinality(L) \in Nat
    BY <2>4, FS_CardinalityType
  <2>6. Cardinality(L) # 0
    BY <2>3, <2>4, FS_EmptySet
  <2>7. QED
    BY <2>1, <2>4, <2>5, <2>6
<1>3. ASSUME NEW i \in DOMAIN q, q[i].live
      PROVE  answered(i) \in DOMAIN q
  <2>1. answered(i) \in 1 .. i
    BY <1>2, <1>3
  <2> HIDE DEF answered
  <2>2. QED
    BY <1>1, <2>1
<1>4. QED
  BY <1>3 DEF BestSeats

-----------------------------------------------------------------------------
(* The member functions that remove a session. *)

\* Removing a player's seat (playerRoomLeaveNotification) leaves a room, and
\* tells a session to leave.
LEMMA RemovedType ==
    ASSUME NEW r \in RoomRecord, NEW i \in DOMAIN r.players
    PROVE  Removed(r, i) \in Outcome
<1>0. r.players \in Seq(Seat) /\ r.players[i] \in Seat
  BY RoomFields
<1>1. r.players \in Seq(Seat) /\ r.players[i].uid \in Session
  BY <1>0 DEF Seat
<1>2. [r EXCEPT !.players = SwapRemove(@, i)] \in RoomRecord
  BY <1>1, SwapRemoveType, RoomUpdates
<1>3. QED
  BY <1>1, <1>2 DEF Removed, Outcome

\* Dropping a demand to close the room leaves an outcome.
LEMMA IgnoreCloseType ==
    ASSUME NEW o \in Outcome
    PROVE  IgnoreClose(o) \in Outcome
BY DEF IgnoreClose, Outcome

\* removeHostFromMatch always leaves a room.
LEMMA RemoveHostFromMatchType ==
    ASSUME NEW r \in RoomRecord, NEW ps
    PROVE  RemoveHostFromMatch(r, ps) \subseteq Outcome
<1> DEFINE fighting == \E s \in LiveIn(r.players) : InMatch(ps[s])
           best == BestSeats(r, HostOf(r), fighting, ps)
<1>1. Stay(r) \in Outcome /\ MustClose(r) \in Outcome
  BY DEF Stay, MustClose, Outcome
<1>2. ASSUME NEW i \in best
      PROVE  IgnoreClose(Removed([r EXCEPT !.players = SwapHost(@, i),
                                           !.started = @ /\ fighting], i)) \in Outcome
  <2> DEFINE t == [r EXCEPT !.players = SwapHost(@, i), !.started = @ /\ fighting]
  <2>1. i \in DOMAIN r.players /\ r.players \in Seq(Seat)
    BY <1>2, BestSeatsType, RoomFields
  <2>2. /\ SwapHost(r.players, i) \in Seq(Seat)
        /\ DOMAIN SwapHost(r.players, i) = DOMAIN r.players
    BY <2>1, SwapHostType
  <2>3. (r.started /\ fighting) \in BOOLEAN
    OBVIOUS
  <2>4. t \in RoomRecord /\ t.players = SwapHost(r.players, i)
    BY <2>2, <2>3 DEF RoomRecord
  <2>5. QED
    BY <2>1, <2>2, <2>4, RemovedType, IgnoreCloseType
<1>3. QED
  BY <1>1, <1>2 DEF RemoveHostFromMatch

\* removePlayer always leaves a room.
LEMMA RemovePlayerType ==
    ASSUME NEW r \in RoomRecord, NEW s \in Session, NEW ps
    PROVE  RemovePlayer(r, s, ps) \subseteq Outcome
<1> DEFINE best == BestSeats(r, s, FALSE, ps)
<1>1. Stay(r) \in Outcome /\ MustClose(r) \in Outcome
  BY DEF Stay, MustClose, Outcome
<1>2. Holds(r.players, s) => Removed(r, SeatOf(r.players, s)) \in Outcome
  BY SeatOfType, RemovedType
<1>3. ASSUME Holds(r.players, s), NEW i \in best
      PROVE  LET t == [r EXCEPT !.players = SwapHost(@, i)]
             IN  Removed(t, SeatOf(t.players, s)) \in Outcome
  <2> DEFINE t == [r EXCEPT !.players = SwapHost(@, i)]
  <2>1. i \in DOMAIN r.players /\ r.players \in Seq(Seat)
    BY <1>3, BestSeatsType, RoomFields
  <2>2. /\ SwapHost(r.players, i) \in Seq(Seat)
        /\ DOMAIN SwapHost(r.players, i) = DOMAIN r.players
    BY <2>1, SwapHostType
  <2>3. t \in RoomRecord /\ t.players = SwapHost(r.players, i)
    BY <2>2 DEF RoomRecord
  <2>4. Holds(t.players, s)
    <3>1. PICK j \in DOMAIN r.players : r.players[j].live /\ r.players[j].uid = s
      BY <1>3 DEF Holds, SeatsOf
    <3>2. 1 \in DOMAIN r.players
      BY <2>1
    <3>3. \E k \in DOMAIN r.players : SwapHost(r.players, i)[k] = r.players[j]
      <4>1. CASE j = 1
        BY <4>1, <2>1, <3>2 DEF SwapHost
      <4>2. CASE j = i
        <5>1. CASE i = 1
          BY <4>2, <5>1, <2>1, <3>2 DEF SwapHost
        <5>2. CASE i # 1
          BY <4>2, <5>2, <2>1, <3>2 DEF SwapHost
        <5>3. QED
          BY <5>1, <5>2
      <4>3. CASE j # 1 /\ j # i
        BY <4>3, <2>1, <3>1 DEF SwapHost
      <4>4. QED
        BY <4>1, <4>2, <4>3
    <3>4. QED
      BY <3>1, <3>3, <2>2, <2>3 DEF Holds, SeatsOf
  <2>5. QED
    BY <2>3, <2>4, SeatOfType, RemovedType
<1>4. Holds(r.observers, s)
      => [room |-> [r EXCEPT !.observers = Erase(@, SeatOf(@, s))],
          gone |-> {s}, close |-> FALSE] \in Outcome
  <2> SUFFICES ASSUME Holds(r.observers, s)
               PROVE  [r EXCEPT !.observers = Erase(@, SeatOf(@, s))] \in RoomRecord
    BY DEF Outcome
  <2>1. QED
    BY SeatOfType, EraseType, RoomFields, RoomUpdates
<1>5. QED
  BY <1>1, <1>2, <1>3, <1>4 DEF RemovePlayer

\* A kick, by a moderator or a vote, always leaves a room.
LEMMA KickType ==
    ASSUME NEW r \in RoomRecord, NEW t \in Session, NEW ps
    PROVE  Kick(r, t, ps) \subseteq Outcome
<1>1. [r EXCEPT !.kicked = @ \cup {t}] \in RoomRecord
  BY RoomFields, RoomUpdates
<1>2. KickImpl([r EXCEPT !.kicked = @ \cup {t}], t, ps) \subseteq Outcome
  BY <1>1, RemoveHostFromMatchType, RemovePlayerType DEF KickImpl
<1>3. QED
  BY <1>2, IgnoreCloseType DEF Kick

\* votekickPlayer always leaves a room, whoever the target is.
LEMMA VotekickPlayerType ==
    ASSUME NEW r \in RoomRecord, NEW t, NEW ps
    PROVE  VotekickPlayer(r, t, ps) \subseteq Outcome
<1>1. Stay(r) \in Outcome
  BY DEF Stay, Outcome
<1>2. Holds(r.players, t) => t \in Session
  BY RoomFields, LiveInType, SeatOfType DEF LiveIn
<1>3. QED
  BY <1>1, <1>2, KickType DEF VotekickPlayer

-----------------------------------------------------------------------------
(* The member functions that only change the room. *)

\* The votekick's resets, setStateFor, startMatch, endMatch, the team moves, the
\* observer switch and the death of a session keep a room a room.
LEMMA ChangesType ==
    ASSUME NEW r \in RoomRecord
    PROVE  /\ ClearVote(r) \in RoomRecord
           /\ ResetVotekick(r) \in RoomRecord
           /\ \A who : \A v \in State : SetStateFor(r, who, v) \in RoomRecord
           /\ \A i \in DOMAIN r.players : MovedToObservers(r, i) \in RoomRecord
           /\ \A i \in DOMAIN r.observers : MovedToPlayers(r, i) \in RoomRecord
           /\ ObserversToggled(r) \in RoomRecord
           /\ \A s : Expired(r, s) \in RoomRecord
<1>1. ClearVote(r) \in RoomRecord
  BY DEF ClearVote, RoomRecord
<1>2. ResetVotekick(r) \in RoomRecord
  BY <1>1, RoomUpdates DEF ResetVotekick
<1>3. ASSUME NEW who, NEW v \in State
      PROVE  SetStateFor(r, who, v) \in RoomRecord
  BY RoomFields, SetStatesType DEF SetStateFor, RoomRecord
<1>4. ASSUME NEW i \in DOMAIN r.players
      PROVE  MovedToObservers(r, i) \in RoomRecord
  <2>1. SwapRemove(r.players, i) \in Seq(Seat)
    BY RoomFields, SwapRemoveType
  <2>2. r.players[i] \in Seat
    BY RoomFields
  <2>3. Append(r.observers, r.players[i]) \in Seq(Seat)
    BY <2>2, RoomFields
  <2>4. QED
    BY <2>1, <2>3 DEF MovedToObservers, RoomRecord
<1>5. ASSUME NEW i \in DOMAIN r.observers
      PROVE  MovedToPlayers(r, i) \in RoomRecord
  <2>1. Erase(r.observers, i) \in Seq(Seat)
    BY RoomFields, EraseType
  <2>2. r.observers[i] \in Seat
    BY RoomFields
  <2>3. Append(r.players, r.observers[i]) \in Seq(Seat)
    BY <2>2, RoomFields
  <2>4. QED
    BY <2>1, <2>3 DEF MovedToPlayers, RoomRecord
<1>6. ObserversToggled(r) \in RoomRecord
  <2>1. (IF r.obsOn THEN <<>> ELSE r.observers) \in Seq(Seat)
    BY RoomFields
  <2>2. QED
    BY <2>1 DEF ObserversToggled, RoomRecord
<1>7. ASSUME NEW s
      PROVE  Expired(r, s) \in RoomRecord
  <2> DEFINE expire(q) == [i \in DOMAIN q |-> IF q[i].uid = s
                                         THEN [q[i] EXCEPT !.live = FALSE] ELSE q[i]]
  <2>1. ASSUME NEW q \in Seq(Seat)
        PROVE  expire(q) \in Seq(Seat)
    <3>1. Len(q) \in Nat /\ DOMAIN q = 1 .. Len(q) /\ \A i \in 1 .. Len(q) : q[i] \in Seat
      OBVIOUS
    <3>2. \A i \in 1 .. Len(q) : [q[i] EXCEPT !.live = FALSE] \in Seat
      BY <3>1 DEF Seat
    <3>3. expire(q) \in [1 .. Len(q) -> Seat]
      BY <3>1, <3>2
    <3>4. QED
      BY <3>1, <3>3
  <2>2. expire(r.players) \in Seq(Seat) /\ expire(r.observers) \in Seq(Seat)
    BY <2>1, RoomFields
  <2>3. [r EXCEPT !.players = expire(@), !.observers = expire(@)] \in RoomRecord
    BY <2>2 DEF RoomRecord
  <2>4. QED
    BY <2>3 DEF Expired
<1>8. QED
  BY <1>1, <1>2, <1>3, <1>4, <1>5, <1>6, <1>7

\* startMatch and endMatch keep a room a room.
LEMMA MatchType ==
    ASSUME NEW r \in RoomRecord, NEW ps
    PROVE  StartedRoom(r) \in RoomRecord /\ EndedRoom(r, ps) \in RoomRecord
<1>1. [ResetVotekick(r) EXCEPT !.started = TRUE, !.vkStarters = {}] \in RoomRecord
  BY ChangesType DEF RoomRecord
<1>2. StartedRoom(r) \in RoomRecord
  BY <1>1, ChangesType DEF StartedRoom, State
<1>3. SetStateFor(ClearVote(r), Returning(r, ps), "WAITING") \in RoomRecord
  BY ChangesType DEF State
<1>4. EndedRoom(r, ps) \in RoomRecord
  BY <1>3, RoomUpdates DEF EndedRoom
<1>5. QED
  BY <1>2, <1>4

-----------------------------------------------------------------------------
(* Who sits where.  A live session has one seat of a room; what the member  *)
(* functions do to the seats, they do to the sessions that hold them.       *)

\* No live session has two seats of a list.
Distinct(q) == \A i, j \in DOMAIN q : q[i].live /\ q[j].live /\ q[i].uid = q[j].uid => i = j

\* No live session has two seats of a room.
SeatedOnce(r) ==
    /\ Distinct(r.players) /\ Distinct(r.observers)
    /\ LiveIn(r.players) \cap LiveIn(r.observers) = {}

SeatsIn(q) == {q[i] : i \in DOMAIN q}

\* No player of the room is a ghost, and none is the target of a votekick.
Alive(r) == r.vkTarget = NoSession /\ \A x \in SeatsIn(r.players) : x.live

\* A seat that says its session is in the match is right, and if it is a
\* player's the room knows of the match.
Told(r, ps) ==
    /\ \A x \in SeatsIn(r.players) \cup SeatsIn(r.observers) :
          x.live /\ InMatch(x.state) => InMatch(ps[x.uid])
    /\ \A x \in SeatsIn(r.players) : x.live /\ InMatch(x.state) => r.started

Holder(x) == IF x.live THEN {x.uid} ELSE {}

LEMMA LiveInDef ==
    ASSUME NEW q, NEW s
    PROVE  s \in LiveIn(q) <=> \E i \in DOMAIN q : q[i].live /\ q[i].uid = s
BY DEF LiveIn

LEMMA HoldsLive ==
    ASSUME NEW q, NEW s
    PROVE  Holds(q, s) <=> s \in LiveIn(q)
BY LiveInDef DEF Holds, SeatsOf

LEMMA ListFacts ==
    ASSUME NEW q \in Seq(Seat)
    PROVE  /\ Len(q) \in Nat /\ DOMAIN q = 1 .. Len(q)
           /\ \A i \in DOMAIN q : q[i] \in Seat /\ q[i].live \in BOOLEAN /\ q[i].uid \in Session
<1>1. \A i \in DOMAIN q : q[i] \in Seat
  OBVIOUS
<1>2. QED
  BY <1>1 DEF Seat

\* The seats of p are seats of q, each at most once: f says where they come from.
Draws(p, q, f) ==
    /\ \A i \in DOMAIN p : f[i] \in DOMAIN q /\ p[i] = q[f[i]]
    /\ \A i, j \in DOMAIN p : f[i] = f[j] => i = j

\* They are all of them but seat i.
Omits(p, q, f, i) ==
    /\ \A j \in DOMAIN p : f[j] # i
    /\ \A k \in DOMAIN q : k # i => \E j \in DOMAIN p : f[j] = k

\* A list made of seats of q has no session twice.
LEMMA Rearranged ==
    ASSUME NEW q, NEW p, NEW f, Distinct(q), Draws(p, q, f)
    PROVE  Distinct(p) /\ SeatsIn(p) \subseteq SeatsIn(q) /\ LiveIn(p) \subseteq LiveIn(q)
<1>1. Distinct(p)
  BY DEF Distinct, Draws
<1>2. SeatsIn(p) \subseteq SeatsIn(q)
  BY DEF SeatsIn, Draws
<1>3. LiveIn(p) \subseteq LiveIn(q)
  BY LiveInDef DEF Draws
<1>4. QED
  BY <1>1, <1>2, <1>3

\* changeHost moves the host's seat to i and changes nobody's session.
LEMMA SwapHostSeats ==
    ASSUME NEW q \in Seq(Seat), NEW i \in DOMAIN q, Distinct(q)
    PROVE  /\ Distinct(SwapHost(q, i)) /\ SeatsIn(SwapHost(q, i)) \subseteq SeatsIn(q)
           /\ LiveIn(SwapHost(q, i)) = LiveIn(q)
           /\ SwapHost(q, i)[i] = q[1] /\ 1 \in DOMAIN q
           /\ SwapHost(q, i)[1] = q[i]
<1> DEFINE p == SwapHost(q, i)
           f == [j \in DOMAIN q |-> IF j = i THEN 1 ELSE IF j = 1 THEN i ELSE j]
<1>1. /\ 1 \in DOMAIN q /\ DOMAIN p = DOMAIN q
      /\ \A j \in DOMAIN q : p[j] = q[f[j]]
  BY ListFacts, SwapHostType DEF SwapHost
<1>2. /\ \A j \in DOMAIN q : f[j] \in DOMAIN q
      /\ \A j, k \in DOMAIN q : f[j] = f[k] => j = k
      /\ \A j \in DOMAIN q : f[f[j]] = j
  BY <1>1
<1>3. p[i] = q[1] /\ p[1] = q[i]
  BY <1>1
<1> HIDE DEF p, f
<1>4. Distinct(p) /\ SeatsIn(p) \subseteq SeatsIn(q) /\ LiveIn(p) \subseteq LiveIn(q)
  <2>1. Draws(p, q, f)
    BY <1>1, <1>2 DEF Draws
  <2>2. QED
    BY <2>1, Rearranged
<1>5. ASSUME NEW s \in LiveIn(q) PROVE s \in LiveIn(p)
  <2>1. PICK j \in DOMAIN q : q[j].live /\ q[j].uid = s
    BY LiveInDef
  <2>2. f[j] \in DOMAIN p /\ p[f[j]] = q[f[f[j]]] /\ f[f[j]] = j
    BY <1>1, <1>2
  <2>3. f[j] \in DOMAIN p /\ p[f[j]].live /\ p[f[j]].uid = s
    BY <2>1, <2>2
  <2>4. QED
    BY <2>3, LiveInDef
<1>6. LiveIn(q) \subseteq LiveIn(p)
  BY <1>5
<1>7. QED
  BY <1>1, <1>3, <1>4, <1>6 DEF p

\* Taking seat i out of a list takes out the session that holds it.
LEMMA TakenOut ==
    ASSUME NEW q, NEW i \in DOMAIN q, NEW p, NEW f, Distinct(q),
           Draws(p, q, f), Omits(p, q, f, i)
    PROVE  /\ Distinct(p) /\ SeatsIn(p) \subseteq SeatsIn(q)
           /\ LiveIn(p) = LiveIn(q) \ Holder(q[i])
<1>1. Distinct(p) /\ SeatsIn(p) \subseteq SeatsIn(q) /\ LiveIn(p) \subseteq LiveIn(q)
  BY Rearranged
<1>2. ASSUME NEW s \in LiveIn(p) PROVE s \notin Holder(q[i])
  <2>1. PICK j \in DOMAIN p : p[j].live /\ p[j].uid = s
    BY LiveInDef
  <2>2. f[j] \in DOMAIN q /\ q[f[j]].live /\ q[f[j]].uid = s /\ f[j] # i
    BY <2>1 DEF Draws, Omits
  <2>3. QED
    BY <2>2 DEF Distinct, Holder
<1>3. ASSUME NEW s \in LiveIn(q), s \notin Holder(q[i]) PROVE s \in LiveIn(p)
  <2>1. PICK k \in DOMAIN q : q[k].live /\ q[k].uid = s
    BY LiveInDef
  <2>2. k # i
    BY <1>3, <2>1 DEF Holder
  <2>3. PICK j \in DOMAIN p : f[j] = k
    BY <2>2 DEF Omits
  <2>4. p[j].live /\ p[j].uid = s
    BY <2>1, <2>3 DEF Draws
  <2>5. QED
    BY <2>4, LiveInDef
<1>4. QED
  BY <1>1, <1>2, <1>3

LEMMA SwapRemoveSeats ==
    ASSUME NEW q \in Seq(Seat), NEW i \in DOMAIN q, Distinct(q)
    PROVE  /\ Distinct(SwapRemove(q, i)) /\ SeatsIn(SwapRemove(q, i)) \subseteq SeatsIn(q)
           /\ LiveIn(SwapRemove(q, i)) = LiveIn(q) \ Holder(q[i])
<1> DEFINE p == SwapRemove(q, i)
           f == [j \in 1 .. (Len(q) - 1) |-> IF j = i THEN Len(q) ELSE j]
<1>1. Len(q) \in Nat \ {0} /\ DOMAIN q = 1 .. Len(q) /\ DOMAIN p = 1 .. (Len(q) - 1)
  BY ListFacts DEF SwapRemove
<1>2. \A j \in DOMAIN p : f[j] \in DOMAIN q /\ p[j] = q[f[j]] /\ f[j] # i
  BY <1>1 DEF SwapRemove
<1>3. \A j, k \in DOMAIN p : f[j] = f[k] => j = k
  BY <1>1
<1>4. ASSUME NEW k \in DOMAIN q, k # i PROVE \E j \in DOMAIN p : f[j] = k
  <2>1. CASE k = Len(q)
    BY <1>1, <1>4, <2>1
  <2>2. CASE k # Len(q)
    BY <1>1, <1>4, <2>2
  <2>3. QED
    BY <2>1, <2>2
<1> HIDE DEF p, f
<1>5. Draws(p, q, f) /\ Omits(p, q, f, i)
  BY <1>2, <1>3, <1>4 DEF Draws, Omits
<1>6. QED
  BY <1>5, TakenOut DEF p

LEMMA EraseSeats ==
    ASSUME NEW q \in Seq(Seat), NEW i \in DOMAIN q, Distinct(q)
    PROVE  /\ Distinct(Erase(q, i)) /\ SeatsIn(Erase(q, i)) \subseteq SeatsIn(q)
           /\ LiveIn(Erase(q, i)) = LiveIn(q) \ Holder(q[i])
<1> DEFINE p == Erase(q, i)
           f == [j \in 1 .. (Len(q) - 1) |-> IF j < i THEN j ELSE j + 1]
<1>1. /\ Len(q) \in Nat \ {0} /\ DOMAIN q = 1 .. Len(q) /\ DOMAIN p = 1 .. (Len(q) - 1)
      /\ i \in 1 .. Len(q)
  BY ListFacts DEF Erase
<1>2. \A j \in DOMAIN p : f[j] \in DOMAIN q /\ p[j] = q[f[j]] /\ f[j] # i
  BY <1>1 DEF Erase
<1>3. \A j, k \in DOMAIN p : f[j] = f[k] => j = k
  BY <1>1
<1>4. ASSUME NEW k \in DOMAIN q, k # i PROVE \E j \in DOMAIN p : f[j] = k
  <2>1. CASE k < i
    BY <1>1, <1>4, <2>1
  <2>2. CASE ~(k < i)
    <3>1. k - 1 \in 1 .. (Len(q) - 1) /\ ~(k - 1 < i)
      BY <1>1, <1>4, <2>2
    <3>2. f[k - 1] = k
      BY <1>1, <3>1
    <3>3. QED
      BY <1>1, <3>1, <3>2
  <2>3. QED
    BY <2>1, <2>2
<1> HIDE DEF p, f
<1>5. Draws(p, q, f) /\ Omits(p, q, f, i)
  BY <1>2, <1>3, <1>4 DEF Draws, Omits
<1>6. QED
  BY <1>5, TakenOut DEF p

\* A seat at the end of a list seats its session.
LEMMA AppendSeats ==
    ASSUME NEW q \in Seq(Seat), NEW x \in Seat, Distinct(q),
           x.live => x.uid \notin LiveIn(q)
    PROVE  /\ Distinct(Append(q, x)) /\ SeatsIn(Append(q, x)) = SeatsIn(q) \cup {x}
           /\ LiveIn(Append(q, x)) = LiveIn(q) \cup Holder(x)
<1> DEFINE p == Append(q, x)
<1>1. /\ Len(q) \in Nat /\ DOMAIN q = 1 .. Len(q) /\ DOMAIN p = 1 .. (Len(q) + 1)
      /\ \A j \in DOMAIN q : j \in DOMAIN p /\ p[j] = q[j]
      /\ p[Len(q) + 1] = x /\ Len(q) + 1 \in DOMAIN p
      /\ \A j \in DOMAIN p : j = Len(q) + 1 \/ j \in DOMAIN q
  BY ListFacts
<1> HIDE DEF p
<1>2. SeatsIn(p) = SeatsIn(q) \cup {x}
  BY <1>1 DEF SeatsIn
<1>3. \A s : s \in LiveIn(p) <=> s \in LiveIn(q) \/ s \in Holder(x)
  BY <1>1, LiveInDef DEF Holder
<1>4. ASSUME NEW i \in DOMAIN p, NEW j \in DOMAIN p, p[i].live, p[j].live, p[i].uid = p[j].uid
      PROVE  i = j
  <2>1. CASE i \in DOMAIN q /\ j \in DOMAIN q
    BY <1>1, <1>4, <2>1 DEF Distinct
  <2>2. CASE i \in DOMAIN q /\ j = Len(q) + 1
    BY <1>1, <1>4, <2>2, LiveInDef
  <2>3. CASE j \in DOMAIN q /\ i = Len(q) + 1
    BY <1>1, <1>4, <2>3, LiveInDef
  <2>4. QED
    BY <1>1, <2>1, <2>2, <2>3
<1>5. Distinct(p)
  BY <1>4 DEF Distinct
<1>6. QED
  BY <1>2, <1>3, <1>5 DEF p

\* A list whose seats keep their sessions, some of them no longer alive.
LEMMA InPlace ==
    ASSUME NEW q, NEW p, DOMAIN p = DOMAIN q, Distinct(q),
           \A i \in DOMAIN q : p[i].uid = q[i].uid /\ (p[i].live => q[i].live)
    PROVE  Distinct(p) /\ LiveIn(p) \subseteq LiveIn(q)
<1>1. Distinct(p)
  BY DEF Distinct
<1>2. \A s : s \in LiveIn(p) => s \in LiveIn(q)
  BY LiveInDef
<1>3. QED
  BY <1>1, <1>2

LEMMA SetStatesSeats ==
    ASSUME NEW q \in Seq(Seat), NEW who, NEW v, Distinct(q)
    PROVE  /\ Distinct(SetStates(q, who, v)) /\ LiveIn(SetStates(q, who, v)) = LiveIn(q)
           /\ \A x \in SeatsIn(SetStates(q, who, v)) : \E y \in SeatsIn(q) :
                 /\ x.uid = y.uid /\ x.live = y.live
                 /\ x.state = IF y.live /\ y.uid \in who THEN v ELSE y.state
<1> DEFINE p == SetStates(q, who, v)
<1>1. /\ DOMAIN p = DOMAIN q
      /\ \A i \in DOMAIN q : /\ p[i].uid = q[i].uid /\ p[i].live = q[i].live
                             /\ p[i].state = IF q[i].live /\ q[i].uid \in who
                                             THEN v ELSE q[i].state
  <2>1. ASSUME NEW i \in DOMAIN q PROVE q[i] \in Seat
    OBVIOUS
  <2>2. QED
    BY <2>1 DEF SetStates, Seat
<1> HIDE DEF p
<1>2. Distinct(p)
  BY <1>1 DEF Distinct
<1>3. \A s : s \in LiveIn(p) <=> s \in LiveIn(q)
  BY <1>1, LiveInDef
<1>4. \A x \in SeatsIn(p) : \E y \in SeatsIn(q) :
         /\ x.uid = y.uid /\ x.live = y.live
         /\ x.state = IF y.live /\ y.uid \in who THEN v ELSE y.state
  BY <1>1 DEF SeatsIn
<1>5. QED
  BY <1>2, <1>3, <1>4 DEF p

\* The room t is what is left of r when the sessions G have gone.
Keeps(r, t, G) ==
    /\ SeatedOnce(t) /\ G \subseteq Members(r) /\ Members(t) = Members(r) \ G
    /\ Alive(r) => Alive(t)

\* What a member function leaves is a room, and its seats say no more than before.
Fair(r, o, ps) == Keeps(r, o.room, o.gone) /\ (Told(r, ps) => Told(o.room, ps))

LEMMA KeepsThen ==
    ASSUME NEW r, NEW t, NEW u, NEW G, Keeps(r, t, {}), Keeps(t, u, G)
    PROVE  Keeps(r, u, G)
BY DEF Keeps

\* A room whose seats are those of r, and the votekick gone or as it was.
LEMMA SameSeats ==
    ASSUME NEW r, NEW t, SeatedOnce(r), t.players = r.players, t.observers = r.observers,
           t.vkTarget \in {r.vkTarget, NoSession}
    PROVE  /\ Keeps(r, t, {})
           /\ \A ps : Told(r, ps) /\ (r.started => t.started) => Told(t, ps)
BY DEF Keeps, SeatedOnce, Members, Alive, Told

LEMMA StayFair ==
    ASSUME NEW r, NEW ps, SeatedOnce(r)
    PROVE  Fair(r, Stay(r), ps) /\ Fair(r, MustClose(r), ps)
BY DEF Fair, Keeps, Stay, MustClose

LEMMA IgnoreCloseFair ==
    ASSUME NEW r, NEW o \in Outcome, NEW ps, Fair(r, o, ps)
    PROVE  Fair(r, IgnoreClose(o), ps)
<1>1. IgnoreClose(o).room = o.room /\ IgnoreClose(o).gone = o.gone
  BY DEF IgnoreClose, Outcome
<1>2. QED
  BY <1>1 DEF Fair

\* playerRoomLeaveNotification: the session of the seat goes, nobody else.
LEMMA RemovedFair ==
    ASSUME NEW r \in RoomRecord, NEW i \in DOMAIN r.players, NEW ps, SeatedOnce(r)
    PROVE  Fair(r, Removed(r, i), ps)
<1> DEFINE t == [r EXCEPT !.players = SwapRemove(@, i)]
           G == Holder(r.players[i])
<1>1. /\ r.players \in Seq(Seat) /\ Distinct(r.players) /\ Distinct(r.observers)
      /\ LiveIn(r.players) \cap LiveIn(r.observers) = {}
  BY RoomFields DEF SeatedOnce
<1>2. /\ Distinct(SwapRemove(r.players, i)) /\ SeatsIn(SwapRemove(r.players, i)) \subseteq SeatsIn(r.players)
      /\ LiveIn(SwapRemove(r.players, i)) = LiveIn(r.players) \ G
  BY <1>1, SwapRemoveSeats
<1>3. /\ t.players = SwapRemove(r.players, i) /\ t.observers = r.observers
      /\ t.vkTarget = r.vkTarget /\ t.started = r.started
  BY DEF RoomRecord
<1>4. G \subseteq LiveIn(r.players)
  BY LiveInDef DEF Holder
<1>5. Removed(r, i).room = t /\ Removed(r, i).gone = G
  BY DEF Removed, Holder
<1> HIDE DEF t, G
<1>6. SeatedOnce(t)
  BY <1>1, <1>2, <1>3 DEF SeatedOnce
<1>7. G \subseteq Members(r) /\ Members(t) = Members(r) \ G
  BY <1>1, <1>2, <1>3, <1>4 DEF Members
<1>8. (Alive(r) => Alive(t)) /\ (Told(r, ps) => Told(t, ps))
  BY <1>2, <1>3 DEF Alive, Told
<1>9. QED
  BY <1>5, <1>6, <1>7, <1>8 DEF Fair, Keeps

\* changeHost: the seats are the same.
LEMMA SwappedKeeps ==
    ASSUME NEW r \in RoomRecord, NEW i \in DOMAIN r.players, SeatedOnce(r)
    PROVE  LET t == [r EXCEPT !.players = SwapHost(@, i)]
           IN  Keeps(r, t, {}) /\ \A ps : Told(r, ps) => Told(t, ps)
<1> DEFINE t == [r EXCEPT !.players = SwapHost(@, i)]
           p == SwapHost(r.players, i)
<1>1. r.players \in Seq(Seat) /\ Distinct(r.players)
  BY RoomFields DEF SeatedOnce
<1>2. Distinct(p) /\ SeatsIn(p) \subseteq SeatsIn(r.players) /\ LiveIn(p) = LiveIn(r.players)
  BY <1>1, SwapHostSeats
<1>3. /\ t.players = p /\ t.observers = r.observers
      /\ t.vkTarget = r.vkTarget /\ t.started = r.started
  BY DEF RoomRecord
<1> HIDE DEF t, p
<1>4. Keeps(r, t, {})
  BY <1>2, <1>3 DEF Keeps, SeatedOnce, Members, Alive
<1>5. \A ps : Told(r, ps) => Told(t, ps)
  BY <1>2, <1>3 DEF Told
<1>6. QED
  BY <1>4, <1>5 DEF t

\* removeHostFromMatch: when no player's session is in the match no player's seat
\* says so either, and the match is over.
LEMMA RemoveHostFair ==
    ASSUME NEW r \in RoomRecord, NEW ps, SeatedOnce(r), NEW o \in RemoveHostFromMatch(r, ps)
    PROVE  Fair(r, o, ps)
<1> DEFINE fighting == \E s \in LiveIn(r.players) : InMatch(ps[s])
           best == BestSeats(r, HostOf(r), fighting, ps)
           t(i) == [r EXCEPT !.players = SwapHost(@, i), !.started = @ /\ fighting]
<1>1. ASSUME NEW i \in best PROVE Fair(r, IgnoreClose(Removed(t(i), i)), ps)
  <2> DEFINE u == [r EXCEPT !.players = SwapHost(@, i)]
  <2>1. i \in DOMAIN r.players /\ r.players \in Seq(Seat)
    BY <1>1, BestSeatsType, RoomFields
  <2>2. /\ SwapHost(r.players, i) \in Seq(Seat)
        /\ DOMAIN SwapHost(r.players, i) = DOMAIN r.players
    BY <2>1, SwapHostType
  <2>3. (r.started /\ fighting) \in BOOLEAN
    OBVIOUS
  <2>4. Keeps(r, u, {}) /\ (Told(r, ps) => Told(u, ps))
    BY <2>1, SwappedKeeps
  <2>5. /\ t(i) \in RoomRecord /\ u \in RoomRecord
        /\ t(i).players = u.players /\ t(i).observers = u.observers
        /\ t(i).vkTarget = u.vkTarget /\ t(i).players = SwapHost(r.players, i)
        /\ u.observers = r.observers
        /\ t(i).started = (r.started /\ fighting) /\ u.started = r.started
    BY <2>2, <2>3 DEF RoomRecord
  <2>6. LiveIn(u.players) = LiveIn(r.players)
    BY <2>1, <2>5, SwapHostSeats DEF SeatedOnce
  <2> HIDE DEF u, t
  <2>7. Keeps(u, t(i), {})
    BY <2>4, <2>5, SameSeats DEF Keeps
  <2>8. Told(u, ps) => Told(t(i), ps)
    <3> SUFFICES ASSUME Told(u, ps) PROVE Told(t(i), ps)
      OBVIOUS
    <3>1. ASSUME NEW x \in SeatsIn(u.players), x.live, InMatch(x.state) PROVE t(i).started
      <4>1. x.uid \in LiveIn(u.players) /\ InMatch(ps[x.uid])
        BY <3>1, LiveInDef DEF Told, SeatsIn
      <4>2. fighting
        BY <4>1, <2>6
      <4>3. r.started
        BY <3>1, <2>5 DEF Told
      <4>4. QED
        BY <4>2, <4>3, <2>5
    <3>2. QED
      BY <3>1, <2>5 DEF Told
  <2>9. Keeps(r, t(i), {}) /\ SeatedOnce(t(i))
    BY <2>4, <2>7, KeepsThen DEF Keeps
  <2>10. i \in DOMAIN t(i).players
    BY <2>1, <2>2, <2>5
  <2>11. Fair(t(i), Removed(t(i), i), ps) /\ Removed(t(i), i) \in Outcome
    BY <2>5, <2>9, <2>10, RemovedFair, RemovedType
  <2>12. Fair(r, Removed(t(i), i), ps)
    BY <2>4, <2>8, <2>9, <2>11, KeepsThen DEF Fair
  <2>13. QED
    BY <2>11, <2>12, IgnoreCloseFair
<1>2. o \in {Stay(r), MustClose(r)} \/ \E i \in best : o = IgnoreClose(Removed(t(i), i))
  BY DEF RemoveHostFromMatch
<1> HIDE DEF best, t
<1>3. QED
  BY <1>1, <1>2, StayFair

\* removePlayer: a player that leaves is gone, or the room must close.
LEMMA RemovePlayerFair ==
    ASSUME NEW r \in RoomRecord, NEW s \in Session, NEW ps, SeatedOnce(r),
           NEW o \in RemovePlayer(r, s, ps)
    PROVE  Fair(r, o, ps) /\ (o.close \/ s \notin LiveIn(o.room.players))
<1> DEFINE best == BestSeats(r, s, FALSE, ps)
           t(i) == [r EXCEPT !.players = SwapHost(@, i)]
           w == [r EXCEPT !.observers = Erase(@, SeatOf(@, s))]
<1>0. MustClose(r).close /\ Stay(r).room = r
  BY DEF MustClose, Stay
<1>1. ASSUME NEW u \in RoomRecord, SeatedOnce(u), s \in LiveIn(u.players)
      PROVE  /\ Fair(u, Removed(u, SeatOf(u.players, s)), ps)
             /\ s \notin LiveIn(Removed(u, SeatOf(u.players, s)).room.players)
  <2>1. /\ SeatOf(u.players, s) \in DOMAIN u.players
        /\ u.players[SeatOf(u.players, s)].live /\ u.players[SeatOf(u.players, s)].uid = s
    BY <1>1, HoldsLive, SeatOfType
  <2>2. /\ Fair(u, Removed(u, SeatOf(u.players, s)), ps)
        /\ s \in Removed(u, SeatOf(u.players, s)).gone
    BY <2>1, <1>1, RemovedFair DEF Removed
  <2>3. QED
    BY <2>2 DEF Fair, Keeps, Members
<1>2. ASSUME s \in LiveIn(r.players), NEW i \in best
      PROVE  /\ Fair(r, Removed(t(i), SeatOf(t(i).players, s)), ps)
             /\ s \notin LiveIn(Removed(t(i), SeatOf(t(i).players, s)).room.players)
  <2>1. i \in DOMAIN r.players /\ r.players \in Seq(Seat)
    BY <1>2, BestSeatsType, RoomFields
  <2>2. SwapHost(r.players, i) \in Seq(Seat)
    BY <2>1, SwapHostType
  <2>3. t(i) \in RoomRecord /\ t(i).players = SwapHost(r.players, i)
    BY <2>2 DEF RoomRecord
  <2>4. Keeps(r, t(i), {}) /\ (Told(r, ps) => Told(t(i), ps))
    BY <2>1, SwappedKeeps
  <2>5. s \in LiveIn(t(i).players)
    BY <2>1, <2>3, <1>2, SwapHostSeats DEF SeatedOnce
  <2> HIDE DEF t
  <2>6. /\ Fair(t(i), Removed(t(i), SeatOf(t(i).players, s)), ps)
        /\ s \notin LiveIn(Removed(t(i), SeatOf(t(i).players, s)).room.players)
    BY <2>3, <2>4, <2>5, <1>1 DEF Keeps
  <2>7. QED
    BY <2>4, <2>6, KeepsThen DEF Fair
<1>3. ASSUME s \in LiveIn(r.observers)
      PROVE  Fair(r, [room |-> w, gone |-> {s}, close |-> FALSE], ps) /\ w.players = r.players
  <2> DEFINE k == SeatOf(r.observers, s)
             q == Erase(r.observers, k)
  <2>1. /\ k \in DOMAIN r.observers /\ r.observers[k].live /\ r.observers[k].uid = s
    BY <1>3, HoldsLive, SeatOfType
  <2>2. /\ r.observers \in Seq(Seat) /\ Distinct(r.players) /\ Distinct(r.observers)
        /\ LiveIn(r.players) \cap LiveIn(r.observers) = {}
    BY RoomFields DEF SeatedOnce
  <2> HIDE DEF k
  <2>3. /\ Distinct(q) /\ SeatsIn(q) \subseteq SeatsIn(r.observers)
        /\ LiveIn(q) = LiveIn(r.observers) \ {s}
    BY <2>1, <2>2, EraseSeats DEF Holder
  <2>4. /\ w.players = r.players /\ w.observers = q
        /\ w.vkTarget = r.vkTarget /\ w.started = r.started
    BY DEF RoomRecord, k
  <2> HIDE DEF q, w
  <2>5. Keeps(r, w, {s})
    BY <2>2, <2>3, <2>4, <1>3 DEF Keeps, SeatedOnce, Members, Alive
  <2>6. Told(r, ps) => Told(w, ps)
    BY <2>3, <2>4 DEF Told
  <2>7. QED
    BY <2>4, <2>5, <2>6 DEF Fair
<1>4. s \in LiveIn(r.players) => r.players # <<>>
  BY LiveInDef
<1>5. LiveIn(r.players) \cap LiveIn(r.observers) = {}
  BY DEF SeatedOnce
<1>6. \/ s \notin LiveIn(r.players) /\ o = Stay(r)
      \/ o = MustClose(r)
      \/ s \in LiveIn(r.players) /\ o = Removed(r, SeatOf(r.players, s))
      \/ /\ s \in LiveIn(r.players)
         /\ \E i \in best : o = Removed(t(i), SeatOf(t(i).players, s))
      \/ s \in LiveIn(r.observers) /\ o = [room |-> w, gone |-> {s}, close |-> FALSE]
  BY <1>4, HoldsLive DEF RemovePlayer
<1> HIDE DEF best, t, w
<1>7. CASE (s \notin LiveIn(r.players) /\ o = Stay(r)) \/ o = MustClose(r)
  BY <1>0, <1>7, StayFair
<1>8. CASE s \in LiveIn(r.players) /\ o = Removed(r, SeatOf(r.players, s))
  BY <1>1, <1>8
<1>9. CASE /\ s \in LiveIn(r.players)
           /\ \E i \in best : o = Removed(t(i), SeatOf(t(i).players, s))
  BY <1>2, <1>9
<1>10. CASE s \in LiveIn(r.observers) /\ o = [room |-> w, gone |-> {s}, close |-> FALSE]
  BY <1>3, <1>5, <1>10
<1>11. QED
  BY <1>6, <1>7, <1>8, <1>9, <1>10

LEMMA KickedKeeps ==
    ASSUME NEW r \in RoomRecord, NEW t \in Session, SeatedOnce(r)
    PROVE  LET u == [r EXCEPT !.kicked = @ \cup {t}]
           IN  /\ u \in RoomRecord /\ Keeps(r, u, {}) /\ \A ps : Told(r, ps) => Told(u, ps)
               /\ u.players = r.players
<1> DEFINE u == [r EXCEPT !.kicked = @ \cup {t}]
<1>1. u \in RoomRecord
  BY RoomFields, RoomUpdates
<1>2. /\ u.players = r.players /\ u.observers = r.observers
      /\ u.vkTarget = r.vkTarget /\ u.started = r.started
  BY DEF RoomRecord
<1> HIDE DEF u
<1>3. Keeps(r, u, {}) /\ \A ps : Told(r, ps) => Told(u, ps)
  BY <1>2, SameSeats
<1>4. QED
  BY <1>1, <1>2, <1>3 DEF u

\* kickPlayer and votekickPlayer.
LEMMA KickFair ==
    ASSUME NEW r \in RoomRecord, NEW t \in Session, NEW ps, SeatedOnce(r), NEW o \in Kick(r, t, ps)
    PROVE  Fair(r, o, ps)
<1> DEFINE u == [r EXCEPT !.kicked = @ \cup {t}]
<1>1. u \in RoomRecord /\ Keeps(r, u, {}) /\ (Told(r, ps) => Told(u, ps))
  BY KickedKeeps
<1>2. PICK x \in KickImpl(u, t, ps) : o = IgnoreClose(x)
  BY DEF Kick
<1> HIDE DEF u
<1>3. x \in Outcome /\ Fair(u, x, ps)
  BY <1>1, <1>2, RemoveHostFair, RemovePlayerFair, RemoveHostFromMatchType, RemovePlayerType
     DEF KickImpl, Keeps
<1>4. Fair(r, x, ps)
  BY <1>1, <1>3, KeepsThen DEF Fair
<1>5. QED
  BY <1>2, <1>3, <1>4, IgnoreCloseFair

LEMMA VotekickFair ==
    ASSUME NEW r \in RoomRecord, NEW t, NEW ps, SeatedOnce(r), NEW o \in VotekickPlayer(r, t, ps)
    PROVE  Fair(r, o, ps)
<1>1. Holds(r.players, t) => t \in Session
  BY RoomFields, LiveInType, HoldsLive
<1>2. QED
  BY <1>1, KickFair, StayFair DEF VotekickPlayer

-----------------------------------------------------------------------------
(* The member functions that seat nobody else. *)

\* What a seat says is not disturbed by sessions that are elsewhere, nor by one
\* that is told it fights.
LEMMA ToldStill ==
    ASSUME NEW r, NEW ps, NEW qs, Told(r, ps),
           \A s \in Members(r) : InMatch(ps[s]) => InMatch(qs[s])
    PROVE  Told(r, qs)
<1>1. ASSUME NEW x \in SeatsIn(r.players) \cup SeatsIn(r.observers), x.live
      PROVE  x.uid \in Members(r)
  BY <1>1, LiveInDef DEF SeatsIn, Members
<1>2. QED
  BY <1>1 DEF Told

LEMMA SetStateForKeeps ==
    ASSUME NEW r \in RoomRecord, NEW who, NEW v, SeatedOnce(r)
    PROVE  LET t == SetStateFor(r, who, v)
           IN  /\ Keeps(r, t, {}) /\ t.vkTarget = r.vkTarget
               /\ t.started = r.started /\ Members(t) = Members(r)
<1> DEFINE t == SetStateFor(r, who, v)
           p == SetStates(r.players, who, v)
           q == SetStates(r.observers, who, v)
<1>1. /\ r.players \in Seq(Seat) /\ r.observers \in Seq(Seat)
      /\ Distinct(r.players) /\ Distinct(r.observers)
  BY RoomFields DEF SeatedOnce
<1>2. /\ Distinct(p) /\ LiveIn(p) = LiveIn(r.players)
      /\ Distinct(q) /\ LiveIn(q) = LiveIn(r.observers)
      /\ \A x \in SeatsIn(p) : \E y \in SeatsIn(r.players) : x.live = y.live
  BY <1>1, SetStatesSeats
<1>3. /\ t.players = p /\ t.observers = q /\ t.vkTarget = r.vkTarget /\ t.started = r.started
  BY DEF SetStateFor, RoomRecord
<1> HIDE DEF t, p, q
<1>4. SeatedOnce(t) /\ Members(t) = Members(r)
  BY <1>2, <1>3 DEF SeatedOnce, Members
<1>5. Alive(r) => Alive(t)
  BY <1>2, <1>3 DEF Alive
<1>6. QED
  BY <1>3, <1>4, <1>5 DEF Keeps, t

\* setStateFor on the seats and the sessions behind them, while a match runs or
\* with a state outside it.
LEMMA SetStateForTold ==
    ASSUME NEW r \in RoomRecord, NEW who, NEW v, NEW ps, NEW qs, SeatedOnce(r), Told(r, ps),
           InMatch(v) => r.started,
           \A s \in Members(r) : qs[s] = IF s \in who THEN v ELSE ps[s]
    PROVE  Told(SetStateFor(r, who, v), qs)
<1> DEFINE t == SetStateFor(r, who, v)
           p == SetStates(r.players, who, v)
           q == SetStates(r.observers, who, v)
           Same(x, y) == /\ x.uid = y.uid /\ x.live = y.live
                         /\ x.state = IF y.live /\ y.uid \in who THEN v ELSE y.state
<1>1. /\ r.players \in Seq(Seat) /\ r.observers \in Seq(Seat)
      /\ Distinct(r.players) /\ Distinct(r.observers)
  BY RoomFields DEF SeatedOnce
<1>2. /\ \A x \in SeatsIn(p) : \E y \in SeatsIn(r.players) : Same(x, y)
      /\ \A x \in SeatsIn(q) : \E y \in SeatsIn(r.observers) : Same(x, y)
  BY <1>1, SetStatesSeats
<1>3. /\ t.players = p /\ t.observers = q /\ t.started = r.started
  BY DEF SetStateFor, RoomRecord
<1> HIDE DEF t, p, q
<1>4. ASSUME NEW y \in SeatsIn(r.players) \cup SeatsIn(r.observers), y.live
      PROVE  y.uid \in Members(r)
  BY <1>4, LiveInDef DEF SeatsIn, Members
<1>5. ASSUME NEW x \in SeatsIn(t.players) \cup SeatsIn(t.observers), x.live, InMatch(x.state)
      PROVE  InMatch(qs[x.uid])
  <2>1. PICK y \in SeatsIn(r.players) \cup SeatsIn(r.observers) : Same(x, y)
    <3> HIDE DEF Same
    <3>1. x \in SeatsIn(p) \/ x \in SeatsIn(q)
      BY <1>3, <1>5
    <3>2. QED
      BY <1>2, <3>1
  <2>2. y.uid \in Members(r) /\ y.live
    BY <1>4, <1>5, <2>1
  <2>3. CASE y.uid \in who
    BY <2>1, <2>2, <2>3, <1>5
  <2>4. CASE y.uid \notin who
    BY <2>1, <2>2, <2>4, <1>5 DEF Told
  <2>5. QED
    BY <2>3, <2>4
<1>6. ASSUME NEW x \in SeatsIn(t.players), x.live, InMatch(x.state)
      PROVE  t.started
  <2>1. PICK y \in SeatsIn(r.players) : Same(x, y)
    BY <1>2, <1>3, <1>6
  <2>2. CASE y.uid \in who
    BY <2>1, <2>2, <1>3, <1>6
  <2>3. CASE y.uid \notin who
    BY <2>1, <2>3, <1>3, <1>6 DEF Told
  <2>4. QED
    BY <2>2, <2>3
<1>7. QED
  BY <1>5, <1>6 DEF Told, t

LEMMA ClearVoteKeeps ==
    ASSUME NEW r \in RoomRecord, SeatedOnce(r)
    PROVE  /\ Keeps(r, ClearVote(r), {}) /\ \A ps : Told(r, ps) => Told(ClearVote(r), ps)
           /\ Keeps(r, ResetVotekick(r), {})
<1> DEFINE c == ClearVote(r)
           v == ResetVotekick(r)
<1>1. /\ c.players = r.players /\ c.observers = r.observers
      /\ c.vkTarget = NoSession /\ c.started = r.started
      /\ v.players = r.players /\ v.observers = r.observers /\ v.vkTarget = NoSession
  BY DEF ClearVote, ResetVotekick, RoomRecord
<1> HIDE DEF c, v
<1>2. QED
  BY <1>1, SameSeats DEF c, v

\* startMatch: the host and the ready enter a match the room knows of.
LEMMA StartedRoomFair ==
    ASSUME NEW r \in RoomRecord, SeatedOnce(r)
    PROVE  /\ Keeps(r, StartedRoom(r), {}) /\ Starters(r) \subseteq Members(r)
           /\ \A ps, qs : /\ Told(r, ps)
                          /\ \A s \in Members(r) :
                                qs[s] = IF s \in Starters(r) THEN "NORMAL" ELSE ps[s]
                          => Told(StartedRoom(r), qs)
<1> DEFINE u == [ResetVotekick(r) EXCEPT !.started = TRUE, !.vkStarters = {}]
<1>1. u \in RoomRecord
  BY ChangesType DEF RoomRecord
<1>2. /\ u.players = r.players /\ u.observers = r.observers
      /\ u.vkTarget = NoSession /\ u.started = TRUE
  BY DEF ResetVotekick, ClearVote, RoomRecord
<1>3. StartedRoom(r) = SetStateFor(u, Starters(r), "NORMAL")
  BY DEF StartedRoom
<1> HIDE DEF u
<1>4. Keeps(r, u, {}) /\ \A ps : Told(r, ps) => Told(u, ps)
  BY <1>2, SameSeats
<1>5. SeatedOnce(u) /\ Members(u) = Members(r)
  BY <1>4 DEF Keeps
<1>6. Keeps(r, StartedRoom(r), {})
  BY <1>1, <1>3, <1>4, <1>5, SetStateForKeeps, KeepsThen
<1>7. ASSUME NEW ps, NEW qs, Told(r, ps),
             \A s \in Members(r) : qs[s] = IF s \in Starters(r) THEN "NORMAL" ELSE ps[s]
      PROVE  Told(StartedRoom(r), qs)
  <2>1. Told(u, ps)
    BY <1>4, <1>7
  <2>2. \A s \in Members(u) : qs[s] = IF s \in Starters(r) THEN "NORMAL" ELSE ps[s]
    BY <1>5, <1>7
  <2>3. QED
    BY <1>1, <1>2, <1>3, <1>5, <2>1, <2>2, SetStateForTold
<1>8. Starters(r) \subseteq Members(r)
  BY DEF Starters
<1>9. QED
  BY <1>6, <1>7, <1>8

\* endMatch: no seat is left that says its session fights.
LEMMA EndedRoomFair ==
    ASSUME NEW r \in RoomRecord, NEW ps, SeatedOnce(r)
    PROVE  /\ Keeps(r, EndedRoom(r, ps), {}) /\ Returning(r, ps) \subseteq Members(r)
           /\ \A qs : Told(r, ps) => Told(EndedRoom(r, ps), qs)
<1> DEFINE c == ClearVote(r)
           who == Returning(r, ps)
           t == SetStateFor(c, who, "WAITING")
           e == EndedRoom(r, ps)
<1>1. c \in RoomRecord /\ Keeps(r, c, {}) /\ (Told(r, ps) => Told(c, ps))
  BY ChangesType, ClearVoteKeeps
<1>2. t \in RoomRecord
  BY <1>1, ChangesType DEF State
<1>3. /\ e.players = t.players /\ e.observers = t.observers /\ e.vkTarget = t.vkTarget
      /\ e = [t EXCEPT !.started = FALSE]
  BY <1>2 DEF EndedRoom, RoomRecord
<1>4. /\ t.players = SetStates(c.players, who, "WAITING")
      /\ t.observers = SetStates(c.observers, who, "WAITING")
  BY <1>1 DEF SetStateFor, RoomRecord
<1>5. c.players \in Seq(Seat) /\ c.observers \in Seq(Seat) /\ Members(c) = Members(r)
  BY <1>1, RoomFields DEF Keeps
<1>6. who = {s \in Members(r) : ps[s] \notin {"LOBBY", "SHOP", "WAITING"}}
  BY DEF Returning
<1> HIDE DEF c, who, t, e
<1>7. Keeps(r, t, {})
  BY <1>1, SetStateForKeeps, KeepsThen DEF t, Keeps
<1>8. Keeps(r, e, {})
  BY <1>3, <1>7, SameSeats, KeepsThen DEF Keeps
<1>9. ASSUME Told(r, ps), NEW x \in SeatsIn(e.players) \cup SeatsIn(e.observers), x.live
      PROVE  ~InMatch(x.state)
  <2>1. Distinct(c.players) /\ Distinct(c.observers)
    BY <1>1 DEF Keeps, SeatedOnce
  <2>2. PICK y \in SeatsIn(c.players) \cup SeatsIn(c.observers) :
           /\ x.uid = y.uid /\ x.live = y.live
           /\ x.state = IF y.live /\ y.uid \in who THEN "WAITING" ELSE y.state
    <3>1. CASE x \in SeatsIn(SetStates(c.players, who, "WAITING"))
      BY <1>5, <2>1, <3>1, SetStatesSeats
    <3>2. CASE x \in SeatsIn(SetStates(c.observers, who, "WAITING"))
      BY <1>5, <2>1, <3>2, SetStatesSeats
    <3>3. QED
      BY <1>3, <1>4, <1>9, <3>1, <3>2
  <2>3. y.uid \in Members(c)
    BY <1>9, <2>2, LiveInDef DEF SeatsIn, Members
  <2>4. InMatch(y.state) => InMatch(ps[y.uid])
    BY <1>1, <1>9, <2>2 DEF Told
  <2>5. InMatch(ps[y.uid]) => y.uid \in who
    BY <1>5, <1>6, <2>3 DEF InMatch
  <2>6. CASE y.uid \in who
    BY <1>9, <2>2, <2>6 DEF InMatch
  <2>7. CASE y.uid \notin who
    BY <2>2, <2>4, <2>5, <2>7
  <2>8. QED
    BY <2>6, <2>7
<1>10. QED
  BY <1>6, <1>8, <1>9 DEF Told, e, who

\* changePlayerTeam, to the observers and back.
LEMMA MovedFair ==
    ASSUME NEW r \in RoomRecord, SeatedOnce(r)
    PROVE  /\ \A i \in DOMAIN r.players : r.players[i].live =>
                /\ Keeps(r, MovedToObservers(r, i), {})
                /\ \A ps : Told(r, ps) => Told(MovedToObservers(r, i), ps)
           /\ \A i \in DOMAIN r.observers : r.observers[i].live =>
                /\ Keeps(r, MovedToPlayers(r, i), {})
                /\ \A ps : Told(r, ps) /\ ~InMatch(ps[r.observers[i].uid])
                           => Told(MovedToPlayers(r, i), ps)
<1>1. /\ r.players \in Seq(Seat) /\ r.observers \in Seq(Seat)
      /\ Distinct(r.players) /\ Distinct(r.observers)
      /\ LiveIn(r.players) \cap LiveIn(r.observers) = {}
  BY RoomFields DEF SeatedOnce
<1>2. ASSUME NEW i \in DOMAIN r.players, r.players[i].live
      PROVE  /\ Keeps(r, MovedToObservers(r, i), {})
             /\ \A ps : Told(r, ps) => Told(MovedToObservers(r, i), ps)
  <2> DEFINE p == SwapRemove(r.players, i)
             x == r.players[i]
             q == Append(r.observers, x)
             t == MovedToObservers(r, i)
  <2>1. x \in Seat /\ x \in SeatsIn(r.players) /\ x.uid \in LiveIn(r.players) /\ Holder(x) = {x.uid}
    BY <1>1, <1>2, LiveInDef DEF SeatsIn, Holder
  <2>2. /\ Distinct(p) /\ SeatsIn(p) \subseteq SeatsIn(r.players)
        /\ LiveIn(p) = LiveIn(r.players) \ Holder(x)
    BY <1>1, SwapRemoveSeats
  <2>3. /\ Distinct(q) /\ SeatsIn(q) = SeatsIn(r.observers) \cup {x}
        /\ LiveIn(q) = LiveIn(r.observers) \cup Holder(x)
    BY <1>1, <2>1, AppendSeats
  <2>4. /\ t.players = p /\ t.observers = q /\ t.vkTarget = r.vkTarget /\ t.started = r.started
    BY DEF MovedToObservers, RoomRecord
  <2> HIDE DEF p, q, t, x
  <2>5. Keeps(r, t, {})
    BY <1>1, <2>1, <2>2, <2>3, <2>4 DEF Keeps, SeatedOnce, Members, Alive
  <2>6. \A ps : Told(r, ps) => Told(t, ps)
    BY <2>1, <2>2, <2>3, <2>4 DEF Told
  <2>7. QED
    BY <2>5, <2>6 DEF t
<1>3. ASSUME NEW i \in DOMAIN r.observers, r.observers[i].live
      PROVE  /\ Keeps(r, MovedToPlayers(r, i), {})
             /\ \A ps : Told(r, ps) /\ ~InMatch(ps[r.observers[i].uid])
                        => Told(MovedToPlayers(r, i), ps)
  <2> DEFINE p == Erase(r.observers, i)
             x == r.observers[i]
             q == Append(r.players, x)
             t == MovedToPlayers(r, i)
  <2>1. /\ x \in Seat /\ x \in SeatsIn(r.observers) /\ x.uid \in LiveIn(r.observers)
        /\ Holder(x) = {x.uid} /\ x.live
    BY <1>1, <1>3, LiveInDef DEF SeatsIn, Holder
  <2>2. /\ Distinct(p) /\ SeatsIn(p) \subseteq SeatsIn(r.observers)
        /\ LiveIn(p) = LiveIn(r.observers) \ Holder(x)
    BY <1>1, EraseSeats
  <2>3. /\ Distinct(q) /\ SeatsIn(q) = SeatsIn(r.players) \cup {x}
        /\ LiveIn(q) = LiveIn(r.players) \cup Holder(x)
    BY <1>1, <2>1, AppendSeats
  <2>4. /\ t.players = q /\ t.observers = p /\ t.vkTarget = r.vkTarget /\ t.started = r.started
    BY DEF MovedToPlayers, RoomRecord
  <2> HIDE DEF p, q, t, x
  <2>5. Keeps(r, t, {})
    BY <1>1, <2>1, <2>2, <2>3, <2>4 DEF Keeps, SeatedOnce, Members, Alive
  <2>6. \A ps : Told(r, ps) /\ ~InMatch(ps[x.uid]) => Told(t, ps)
    BY <2>1, <2>2, <2>3, <2>4 DEF Told
  <2>7. QED
    BY <2>5, <2>6 DEF t, x
<1>4. QED
  BY <1>2, <1>3

\* SETTING_OBSERVER off sends the observers out.
LEMMA ObserversToggledFair ==
    ASSUME NEW r \in RoomRecord, SeatedOnce(r)
    PROVE  /\ Keeps(r, ObserversToggled(r), IF r.obsOn THEN LiveIn(r.observers) ELSE {})
           /\ \A ps : Told(r, ps) => Told(ObserversToggled(r), ps)
<1> DEFINE t == ObserversToggled(r)
<1>1. /\ t.players = r.players /\ t.observers = IF r.obsOn THEN <<>> ELSE r.observers
      /\ t.vkTarget = r.vkTarget /\ t.started = r.started
  BY DEF ObserversToggled, RoomRecord
<1>2. DOMAIN <<>> = {}
  OBVIOUS
<1>3. LiveIn(<<>>) = {} /\ Distinct(<<>>) /\ SeatsIn(<<>>) = {}
  BY <1>2, LiveInDef DEF Distinct, SeatsIn
<1> HIDE DEF t
<1>4. Keeps(r, t, IF r.obsOn THEN LiveIn(r.observers) ELSE {})
  BY <1>1, <1>3 DEF Keeps, SeatedOnce, Members, Alive
<1>5. \A ps : Told(r, ps) => Told(t, ps)
  BY <1>1, <1>3 DEF Told
<1>6. QED
  BY <1>4, <1>5 DEF t

\* The weak_ptrs of a session expire: its seats, if it has any, become ghosts.
LEMMA ExpiredSeats ==
    ASSUME NEW r \in RoomRecord, NEW s, SeatedOnce(r)
    PROVE  /\ SeatedOnce(Expired(r, s)) /\ Members(Expired(r, s)) = Members(r) \ {s}
           /\ Alive(r) /\ s \notin LiveIn(r.players) => Alive(Expired(r, s))
           /\ \A ps, qs : /\ Told(r, ps)
                          /\ \A t \in Members(r) : t # s => qs[t] = ps[t]
                          => Told(Expired(r, s), qs)
<1> DEFINE expire(q) == [i \in DOMAIN q |-> IF q[i].uid = s
                                            THEN [q[i] EXCEPT !.live = FALSE] ELSE q[i]]
           t == Expired(r, s)
           Same(x, y) == /\ x.uid = y.uid /\ x.state = y.state
                         /\ (x.live <=> y.live /\ y.uid # s)
<1>1. ASSUME NEW q \in Seq(Seat), Distinct(q)
      PROVE  /\ Distinct(expire(q)) /\ LiveIn(expire(q)) = LiveIn(q) \ {s}
             /\ \A x \in SeatsIn(expire(q)) : \E y \in SeatsIn(q) : Same(x, y)
  <2> DEFINE p == expire(q)
  <2>1. DOMAIN p = DOMAIN q /\ \A i \in DOMAIN q : Same(p[i], q[i])
    <3>1. \A i \in DOMAIN q : q[i] \in Seat
      OBVIOUS
    <3>2. QED
      BY <3>1 DEF Seat
  <2> HIDE DEF p
  <2>2. Distinct(p)
    BY <1>1, <2>1 DEF Distinct
  <2>3. \A u : u \in LiveIn(p) <=> u \in LiveIn(q) /\ u # s
    BY <2>1, LiveInDef
  <2>4. \A x \in SeatsIn(p) : \E y \in SeatsIn(q) : Same(x, y)
    BY <2>1 DEF SeatsIn
  <2>5. QED
    BY <2>2, <2>3, <2>4 DEF p
<1> DEFINE p == expire(r.players)
           q == expire(r.observers)
<1>2. /\ r.players \in Seq(Seat) /\ r.observers \in Seq(Seat)
      /\ Distinct(r.players) /\ Distinct(r.observers)
      /\ LiveIn(r.players) \cap LiveIn(r.observers) = {}
  BY RoomFields DEF SeatedOnce
<1>3. /\ t.players = p /\ t.observers = q /\ t.vkTarget = r.vkTarget /\ t.started = r.started
  BY DEF Expired, RoomRecord
<1> HIDE DEF expire
<1>4. /\ Distinct(p) /\ LiveIn(p) = LiveIn(r.players) \ {s}
      /\ \A x \in SeatsIn(p) : \E y \in SeatsIn(r.players) : Same(x, y)
      /\ Distinct(q) /\ LiveIn(q) = LiveIn(r.observers) \ {s}
      /\ \A x \in SeatsIn(q) : \E y \in SeatsIn(r.observers) : Same(x, y)
  BY <1>1, <1>2
<1> HIDE DEF p, q, t
<1>5. SeatedOnce(t) /\ Members(t) = Members(r) \ {s}
  BY <1>2, <1>3, <1>4 DEF SeatedOnce, Members
<1>6. ASSUME NEW y \in SeatsIn(r.players) \cup SeatsIn(r.observers), y.live
      PROVE  y.uid \in Members(r)
  BY <1>6, LiveInDef DEF SeatsIn, Members
<1>7. Alive(r) /\ s \notin LiveIn(r.players) => Alive(t)
  <2> SUFFICES ASSUME Alive(r), s \notin LiveIn(r.players), NEW x \in SeatsIn(p) PROVE x.live
    BY <1>3 DEF Alive
  <2>1. PICK y \in SeatsIn(r.players) : Same(x, y)
    BY <1>4
  <2>2. y.live /\ y.uid \in LiveIn(r.players)
    BY LiveInDef DEF Alive, SeatsIn
  <2>3. QED
    BY <2>1, <2>2
<1>8. ASSUME NEW ps, NEW qs, Told(r, ps), \A u \in Members(r) : u # s => qs[u] = ps[u]
      PROVE  Told(t, qs)
  <2>1. ASSUME NEW x \in SeatsIn(t.players) \cup SeatsIn(t.observers), x.live, InMatch(x.state)
        PROVE  InMatch(qs[x.uid])
    <3>1. PICK y \in SeatsIn(r.players) \cup SeatsIn(r.observers) : Same(x, y)
      BY <1>3, <1>4, <2>1
    <3>2. QED
      BY <1>6, <1>8, <2>1, <3>1 DEF Told
  <2>2. ASSUME NEW x \in SeatsIn(t.players), x.live, InMatch(x.state)
        PROVE  t.started
    <3>1. PICK y \in SeatsIn(r.players) : Same(x, y)
      BY <1>3, <1>4, <2>2
    <3>2. QED
      BY <1>3, <1>8, <2>2, <3>1 DEF Told
  <2>3. QED
    BY <2>1, <2>2 DEF Told
<1>9. QED
  BY <1>5, <1>7, <1>8 DEF t

\* A new seat for a session that has none.
LEMMA SeatTaken ==
    ASSUME NEW r \in RoomRecord, SeatedOnce(r), NEW s \in Session, s \notin Members(r),
           NEW t, \/ t = [r EXCEPT !.observers = Append(@, NewSeat(s))]
                  \/ t = [r EXCEPT !.players = Append(@, NewSeat(s))]
    PROVE  /\ SeatedOnce(t) /\ Members(t) = Members(r) \cup {s}
           /\ (Alive(r) => Alive(t)) /\ \A ps : Told(r, ps) => Told(t, ps)
<1> DEFINE x == NewSeat(s)
           p == Append(r.players, x)
           q == Append(r.observers, x)
<1>1. /\ r.players \in Seq(Seat) /\ r.observers \in Seq(Seat)
      /\ Distinct(r.players) /\ Distinct(r.observers)
      /\ LiveIn(r.players) \cap LiveIn(r.observers) = {}
      /\ s \notin LiveIn(r.players) /\ s \notin LiveIn(r.observers)
  BY RoomFields DEF SeatedOnce, Members
<1>2. /\ x \in Seat /\ Holder(x) = {s} /\ x.uid = s /\ x.live /\ ~InMatch(x.state)
  BY DEF NewSeat, Seat, Holder, InMatch, State
<1> HIDE DEF x
<1>3. /\ Distinct(p) /\ SeatsIn(p) = SeatsIn(r.players) \cup {x}
      /\ LiveIn(p) = LiveIn(r.players) \cup {s}
      /\ Distinct(q) /\ SeatsIn(q) = SeatsIn(r.observers) \cup {x}
      /\ LiveIn(q) = LiveIn(r.observers) \cup {s}
  BY <1>1, <1>2, AppendSeats
<1>4. /\ t.vkTarget = r.vkTarget /\ t.started = r.started
      /\ \/ t.players = p /\ t.observers = r.observers
         \/ t.players = r.players /\ t.observers = q
  BY DEF RoomRecord, x
<1> HIDE DEF p, q
<1>5. SeatedOnce(t) /\ Members(t) = Members(r) \cup {s}
  BY <1>1, <1>3, <1>4 DEF SeatedOnce, Members
<1>6. (Alive(r) => Alive(t)) /\ \A ps : Told(r, ps) => Told(t, ps)
  BY <1>2, <1>3, <1>4 DEF Alive, Told
<1>7. QED
  BY <1>5, <1>6

\* A new room has its creator for a player, and nobody else.
LEMMA NewRoomFair ==
    ASSUME NEW s \in Session, NEW b
    PROVE  /\ SeatedOnce(NewRoom(s, b)) /\ Members(NewRoom(s, b)) = {s}
           /\ Alive(NewRoom(s, b)) /\ \A ps : Told(NewRoom(s, b), ps)
<1> DEFINE x == NewSeat(s)
           r == NewRoom(s, b)
<1>1. x.uid = s /\ x.live /\ ~InMatch(x.state)
  BY DEF NewSeat, InMatch
<1>2. r.players = <<x>> /\ r.observers = <<>> /\ r.vkTarget = NoSession
  BY DEF NewRoom
<1> HIDE DEF x, r
<1>3. DOMAIN <<x>> = {1} /\ <<x>>[1] = x /\ DOMAIN <<>> = {}
  OBVIOUS
<1>4. Distinct(<<x>>) /\ Distinct(<<>>) /\ SeatsIn(<<x>>) = {x} /\ SeatsIn(<<>>) = {}
  BY <1>3 DEF Distinct, SeatsIn
<1>5. \A u : (u \in LiveIn(<<x>>) <=> u = s) /\ u \notin LiveIn(<<>>)
  BY <1>1, <1>3, LiveInDef
<1>6. QED
  BY <1>1, <1>2, <1>4, <1>5 DEF SeatedOnce, Members, Alive, Told, r

-----------------------------------------------------------------------------
(* Who is host after a step, and whom the step sends out. *)

First(q, h) == q # <<>> /\ q[1].live /\ q[1].uid = h

\* A host that is still among the players is still the first of them.
Stays(q, p) == \A h \in LiveIn(p) : First(q, h) => First(p, h)

\* Sessions leave, and none of those who stay is passed over.
Thins(q, p) == LiveIn(p) \subseteq LiveIn(q) /\ Stays(q, p)

\* A member function that takes session s out of the room, or nobody.
LetsGo(r, o, s) == Thins(r.players, o.room.players) /\ o.gone \subseteq {s}

LEMMA ThinsThen ==
    ASSUME NEW p, NEW q, NEW w, Thins(p, q), Thins(q, w)
    PROVE  Thins(p, w)
BY DEF Thins, Stays

LEMMA FirstHost ==
    ASSUME NEW r \in RoomRecord, NEW h, h # NoSession
    PROVE  HostOf(r) = h <=> First(r.players, h)
BY DEF HostOf, First

\* Nobody is passed over when the list loses its first seat, or another and the
\* first stays.
LEMMA SeatRemoved ==
    ASSUME NEW q \in Seq(Seat), NEW i \in DOMAIN q, Distinct(q)
    PROVE  Thins(q, SwapRemove(q, i))
<1> DEFINE p == SwapRemove(q, i)
<1>1. LiveIn(p) = LiveIn(q) \ Holder(q[i])
  BY SwapRemoveSeats
<1>2. /\ Len(q) \in Nat /\ DOMAIN q = 1 .. Len(q) /\ p \in Seq(Seat)
      /\ DOMAIN p = 1 .. (Len(q) - 1)
  BY ListFacts, SwapRemoveType DEF SwapRemove
<1>3. ASSUME i # 1 PROVE p[1] = q[1] /\ p # <<>>
  <2>1. 1 \in 1 .. (Len(q) - 1)
    BY <1>2, <1>3
  <2>2. p[1] = q[1]
    BY <1>3, <2>1 DEF SwapRemove
  <2> HIDE DEF p
  <2>3. QED
    BY <1>2, <2>1, <2>2
<1>4. ASSUME NEW h \in LiveIn(p), First(q, h) PROVE First(p, h)
  <2>1. i # 1
    BY <1>1, <1>4 DEF First, Holder
  <2>2. QED
    BY <1>3, <1>4, <2>1 DEF First
<1>5. QED
  BY <1>1, <1>4 DEF Thins, Stays

LEMMA HandedOver ==
    ASSUME NEW q \in Seq(Seat), NEW i \in DOMAIN q, Distinct(q)
    PROVE  LET p == SwapRemove(SwapHost(q, i), i)
           IN  /\ Thins(q, p) /\ LiveIn(p) = LiveIn(q) \ Holder(q[1])
               /\ i # 1 => p # <<>> /\ p[1] = q[i]
<1> DEFINE w == SwapHost(q, i)
           p == SwapRemove(w, i)
<1>1. /\ w \in Seq(Seat) /\ Distinct(w) /\ i \in DOMAIN w /\ LiveIn(w) = LiveIn(q)
      /\ w[i] = q[1] /\ w[1] = q[i] /\ DOMAIN w = DOMAIN q
  BY SwapHostSeats, SwapHostType
<1>2. LiveIn(p) = LiveIn(q) \ Holder(q[1])
  BY <1>1, SwapRemoveSeats
<1>3. ASSUME i # 1 PROVE p # <<>> /\ p[1] = q[i]
  <2>1. /\ Len(w) \in Nat /\ DOMAIN w = 1 .. Len(w) /\ p \in Seq(Seat)
        /\ DOMAIN p = 1 .. (Len(w) - 1)
    BY <1>1, ListFacts, SwapRemoveType DEF SwapRemove
  <2>2. 1 \in 1 .. (Len(w) - 1)
    BY <1>1, <1>3, <2>1
  <2> HIDE DEF w
  <2>3. p[1] = w[1]
    BY <1>3, <2>2 DEF SwapRemove
  <2> HIDE DEF p
  <2>4. QED
    BY <1>1, <2>1, <2>2, <2>3
<1>4. Thins(q, p)
  BY <1>2 DEF Thins, Stays, First, Holder
<1>5. QED
  BY <1>2, <1>3, <1>4

LEMMA StayLetsGo ==
    ASSUME NEW r, NEW s
    PROVE  LetsGo(r, Stay(r), s) /\ LetsGo(r, MustClose(r), s)
BY DEF LetsGo, Thins, Stays, Stay, MustClose

\* removeHostFromMatch sends the host out, and only it.
LEMMA RemoveHostLetsGo ==
    ASSUME NEW r \in RoomRecord, NEW ps, SeatedOnce(r), NEW s, IsHost(r, s),
           NEW o \in RemoveHostFromMatch(r, ps)
    PROVE  LetsGo(r, o, s)
<1> DEFINE fighting == \E t \in LiveIn(r.players) : InMatch(ps[t])
           best == BestSeats(r, HostOf(r), fighting, ps)
           t(i) == [r EXCEPT !.players = SwapHost(@, i), !.started = @ /\ fighting]
<1>1. ASSUME NEW i \in best PROVE LetsGo(r, IgnoreClose(Removed(t(i), i)), s)
  <2>1. i \in DOMAIN r.players /\ r.players \in Seq(Seat) /\ Distinct(r.players)
    BY <1>1, BestSeatsType, RoomFields DEF SeatedOnce
  <2>2. t(i).players = SwapHost(r.players, i)
    BY DEF RoomRecord
  <2>3. SwapHost(r.players, i)[i] = r.players[1]
    BY <2>1, SwapHostSeats
  <2> DEFINE u == t(i)
  <2> HIDE DEF t
  <2>4. /\ IgnoreClose(Removed(u, i)).room.players = SwapRemove(u.players, i)
        /\ IgnoreClose(Removed(u, i)).gone = Holder(u.players[i])
    <3>1. [u EXCEPT !.players = SwapRemove(@, i)].players = SwapRemove(u.players, i)
      BY DEF t, RoomRecord
    <3>2. QED
      BY <3>1 DEF IgnoreClose, Removed, Holder
  <2>5. Holder(r.players[1]) \subseteq {s}
    BY DEF IsHost, Holder
  <2>6. Thins(r.players, SwapRemove(SwapHost(r.players, i), i))
    BY <2>1, HandedOver
  <2>7. QED
    BY <2>2, <2>3, <2>4, <2>5, <2>6 DEF LetsGo
<1>2. o \in {Stay(r), MustClose(r)} \/ \E i \in best : o = IgnoreClose(Removed(t(i), i))
  BY DEF RemoveHostFromMatch
<1> HIDE DEF best, t
<1>3. QED
  BY <1>1, <1>2, StayLetsGo

\* removePlayer sends the leaver out, and only it; the host seat moves when the
\* leaver held it.
LEMMA RemovePlayerLetsGo ==
    ASSUME NEW r \in RoomRecord, NEW s \in Session, NEW ps, SeatedOnce(r),
           NEW o \in RemovePlayer(r, s, ps)
    PROVE  LetsGo(r, o, s)
<1> DEFINE best == BestSeats(r, s, FALSE, ps)
           t(i) == [r EXCEPT !.players = SwapHost(@, i)]
           w == [r EXCEPT !.observers = Erase(@, SeatOf(@, s))]
<1>0. r.players \in Seq(Seat) /\ Distinct(r.players)
  BY RoomFields DEF SeatedOnce
<1>1. ASSUME NEW u \in RoomRecord, SeatedOnce(u), s \in LiveIn(u.players)
      PROVE  /\ Thins(u.players, Removed(u, SeatOf(u.players, s)).room.players)
             /\ Removed(u, SeatOf(u.players, s)).gone = {s}
             /\ LiveIn(Removed(u, SeatOf(u.players, s)).room.players) = LiveIn(u.players) \ {s}
  <2> DEFINE k == SeatOf(u.players, s)
  <2>1. k \in DOMAIN u.players /\ u.players[k].live /\ u.players[k].uid = s
    BY <1>1, HoldsLive, SeatOfType
  <2> HIDE DEF k
  <2>2. u.players \in Seq(Seat) /\ Distinct(u.players)
    BY <1>1, RoomFields DEF SeatedOnce
  <2>3. Removed(u, k).room.players = SwapRemove(u.players, k) /\ Removed(u, k).gone = {s}
    BY <2>1 DEF Removed, RoomRecord
  <2>4. /\ Thins(u.players, SwapRemove(u.players, k))
        /\ LiveIn(SwapRemove(u.players, k)) = LiveIn(u.players) \ {s}
    BY <2>1, <2>2, SeatRemoved, SwapRemoveSeats DEF Holder
  <2>5. QED
    BY <2>3, <2>4 DEF k
<1>2. ASSUME s \in LiveIn(r.players), IsHost(r, s), NEW i \in best
      PROVE  LetsGo(r, Removed(t(i), SeatOf(t(i).players, s)), s)
  <2>1. i \in DOMAIN r.players
    BY <1>2, BestSeatsType
  <2>2. SwapHost(r.players, i) \in Seq(Seat)
    BY <1>0, <2>1, SwapHostType
  <2>3. t(i) \in RoomRecord /\ t(i).players = SwapHost(r.players, i)
    BY <2>2 DEF RoomRecord
  <2>4. SeatedOnce(t(i))
    BY <2>1, SwappedKeeps DEF Keeps
  <2>5. LiveIn(t(i).players) = LiveIn(r.players)
    BY <1>0, <2>1, <2>3, SwapHostSeats
  <2> HIDE DEF t
  <2>6. /\ Removed(t(i), SeatOf(t(i).players, s)).gone = {s}
        /\ LiveIn(Removed(t(i), SeatOf(t(i).players, s)).room.players) = LiveIn(r.players) \ {s}
    BY <2>3, <2>4, <2>5, <1>1, <1>2
  <2>7. \A h : First(r.players, h) => h = s
    BY <1>2 DEF First, IsHost
  <2>8. QED
    BY <2>6, <2>7 DEF LetsGo, Thins, Stays
<1>3. s \in LiveIn(r.players) => r.players # <<>>
  BY LiveInDef
<1>4. w.players = r.players
  BY DEF RoomRecord
<1>5. \/ o \in {Stay(r), MustClose(r)}
      \/ s \in LiveIn(r.players) /\ o = Removed(r, SeatOf(r.players, s))
      \/ /\ s \in LiveIn(r.players) /\ IsHost(r, s)
         /\ \E i \in best : o = Removed(t(i), SeatOf(t(i).players, s))
      \/ o = [room |-> w, gone |-> {s}, close |-> FALSE]
  BY <1>3, HoldsLive DEF RemovePlayer
<1> HIDE DEF best, t, w
<1>6. CASE o \in {Stay(r), MustClose(r)}
  BY <1>6, StayLetsGo
<1>7. CASE s \in LiveIn(r.players) /\ o = Removed(r, SeatOf(r.players, s))
  BY <1>1, <1>7 DEF LetsGo
<1>8. CASE /\ s \in LiveIn(r.players) /\ IsHost(r, s)
           /\ \E i \in best : o = Removed(t(i), SeatOf(t(i).players, s))
  BY <1>2, <1>8
<1>9. CASE o = [room |-> w, gone |-> {s}, close |-> FALSE]
  BY <1>4, <1>9 DEF LetsGo, Thins, Stays
<1>10. QED
  BY <1>5, <1>6, <1>7, <1>8, <1>9

\* The kicks.
LEMMA KickLetsGo ==
    ASSUME NEW r \in RoomRecord, NEW t \in Session, NEW ps, SeatedOnce(r), NEW o \in Kick(r, t, ps)
    PROVE  LetsGo(r, o, t) /\ ~o.close
<1> DEFINE u == [r EXCEPT !.kicked = @ \cup {t}]
<1>1. u \in RoomRecord /\ SeatedOnce(u) /\ u.players = r.players
  BY KickedKeeps DEF Keeps
<1>2. PICK p \in KickImpl(u, t, ps) : o = IgnoreClose(p)
  BY DEF Kick
<1> HIDE DEF u
<1>3. LetsGo(u, p, t) /\ p \in Outcome
  BY <1>1, <1>2, RemoveHostLetsGo, RemovePlayerLetsGo, RemoveHostFromMatchType, RemovePlayerType
     DEF KickImpl
<1>4. o.room = p.room /\ o.gone = p.gone /\ o.close = FALSE
  BY <1>2, <1>3 DEF IgnoreClose, Outcome
<1>5. QED
  BY <1>1, <1>3, <1>4 DEF LetsGo

LEMMA VotekickLetsGo ==
    ASSUME NEW r \in RoomRecord, NEW t, NEW ps, SeatedOnce(r), NEW o \in VotekickPlayer(r, t, ps)
    PROVE  LetsGo(r, o, t) /\ ~o.close
<1>1. CASE Holds(r.players, t) /\ t \notin Staff
  <2>1. t \in Session
    BY <1>1, HoldsLive, LiveInType, RoomFields
  <2>2. QED
    BY <1>1, <2>1, KickLetsGo DEF VotekickPlayer
<1>2. CASE ~(Holds(r.players, t) /\ t \notin Staff)
  <2>1. o = Stay(r) /\ ~Stay(r).close
    BY <1>2 DEF VotekickPlayer, Stay
  <2>2. QED
    BY <2>1, StayLetsGo
<1>3. QED
  BY <1>1, <1>2

\* What the seats show, and the seats that expire.
LEMMA InPlaceThins ==
    ASSUME NEW r \in RoomRecord, SeatedOnce(r)
    PROVE  /\ \A who, v : /\ Thins(r.players, SetStateFor(r, who, v).players)
                          /\ LiveIn(SetStateFor(r, who, v).players) = LiveIn(r.players)
           /\ \A s : /\ Thins(r.players, Expired(r, s).players)
                     /\ \A h : h # s /\ First(r.players, h) => First(Expired(r, s).players, h)
<1>1. r.players \in Seq(Seat) /\ Distinct(r.players)
  BY RoomFields DEF SeatedOnce
<1>2. r.players # <<>> => 1 \in DOMAIN r.players
  BY <1>1
<1>3. ASSUME NEW who, NEW v
      PROVE  /\ Thins(r.players, SetStateFor(r, who, v).players)
             /\ LiveIn(SetStateFor(r, who, v).players) = LiveIn(r.players)
  <2> DEFINE p == SetStates(r.players, who, v)
  <2>1. SetStateFor(r, who, v).players = p
    BY DEF SetStateFor, RoomRecord
  <2>2. LiveIn(p) = LiveIn(r.players)
    BY <1>1, SetStatesSeats
  <2>3. /\ DOMAIN p = DOMAIN r.players
        /\ \A i \in DOMAIN p : p[i].live = r.players[i].live /\ p[i].uid = r.players[i].uid
    BY <1>1, ListFacts DEF SetStates, Seat
  <2>4. \A h : First(r.players, h) => First(p, h)
    BY <1>2, <2>3 DEF First
  <2>5. QED
    BY <2>1, <2>2, <2>4 DEF Thins, Stays
<1>4. ASSUME NEW s
      PROVE  /\ Thins(r.players, Expired(r, s).players)
             /\ \A h : h # s /\ First(r.players, h) => First(Expired(r, s).players, h)
  <2> DEFINE p == Expired(r, s).players
  <2>1. /\ DOMAIN p = DOMAIN r.players
        /\ \A i \in DOMAIN p : /\ p[i].uid = r.players[i].uid
                               /\ p[i].live <=> r.players[i].live /\ r.players[i].uid # s
    <3>1. \A i \in DOMAIN r.players : r.players[i] \in Seat
      BY <1>1
    <3>2. p = [i \in DOMAIN r.players |-> IF r.players[i].uid = s
                        THEN [r.players[i] EXCEPT !.live = FALSE] ELSE r.players[i]]
      BY DEF Expired, RoomRecord
    <3> HIDE DEF p
    <3>3. QED
      BY <3>1, <3>2 DEF Seat
  <2> HIDE DEF p
  <2>2. LiveIn(p) = LiveIn(r.players) \ {s}
    BY <2>1, LiveInDef
  <2>3. \A h : h # s /\ First(r.players, h) => First(p, h)
    BY <1>2, <2>1 DEF First
  <2>4. QED
    BY <2>2, <2>3 DEF Thins, Stays, p
<1>5. QED
  BY <1>3, <1>4

-----------------------------------------------------------------------------
(* The two searches for a new host. *)

\* Two players or more, and nobody among them fights.
Waiting(r, ps) ==
    /\ \E a, b \in LiveIn(r.players) : a # b
    /\ \A s \in LiveIn(r.players) : ~InMatch(ps[s])

\* A search among seats of which one fits finds one.
LEMMA BestSeatsFinds ==
    ASSUME NEW r \in RoomRecord, NEW s, NEW fighting, NEW ps, NEW t \in LiveIn(r.players),
           t # s, InMatch(ps[t]) = fighting, NEW a \in LiveIn(r.players), a # t
    PROVE  BestSeats(r, s, fighting, ps) # {} /\ Len(r.players) > 1
<1> DEFINE q == r.players
           candidates == {i \in DOMAIN q : /\ q[i].live /\ q[i].uid # s
                                           /\ InMatch(ps[q[i].uid]) = fighting}
           answered(i) == Cardinality({j \in 1 .. i : q[j].live})
<1>1. Len(q) \in Nat /\ DOMAIN q = 1 .. Len(q)
  BY RoomFields, ListFacts
<1>2. PICK i \in DOMAIN q : q[i].live /\ q[i].uid = t
  BY LiveInDef
<1>3. PICK j \in DOMAIN q : q[j].live /\ q[j].uid = a
  BY LiveInDef
<1>4. i # j
  BY <1>2, <1>3
<1>5. Len(q) > 1
  BY <1>1, <1>4
<1>6. i \in candidates
  BY <1>2
<1>7. BestSeats(r, s, fighting, ps) = {answered(k) : k \in candidates}
  BY <1>1, <1>5 DEF BestSeats
<1> HIDE DEF candidates, answered
<1>8. QED
  BY <1>5, <1>6, <1>7

LEMMA WaitingFinds ==
    ASSUME NEW r \in RoomRecord, NEW ps, Waiting(r, ps), NEW s
    PROVE  BestSeats(r, s, FALSE, ps) # {} /\ Len(r.players) > 1
<1>1. PICK a \in LiveIn(r.players), b \in LiveIn(r.players) : a # b
  BY DEF Waiting
<1>2. InMatch(ps[a]) = FALSE /\ InMatch(ps[b]) = FALSE
  BY DEF Waiting, InMatch
<1>3. CASE a # s
  BY <1>1, <1>2, <1>3, BestSeatsFinds
<1>4. CASE a = s
  BY <1>1, <1>2, <1>4, BestSeatsFinds
<1>5. QED
  BY <1>3, <1>4

\* Neither way out closes a room of players who wait.
LEMMA WaitingStands ==
    ASSUME NEW r \in RoomRecord, NEW ps, Waiting(r, ps)
    PROVE  /\ \A s \in Session : \A o \in RemovePlayer(r, s, ps) : ~o.close
           /\ \A o \in RemoveHostFromMatch(r, ps) : ~o.close
<1>1. Stay(r).close = FALSE
  BY DEF Stay
<1>2. ASSUME NEW s \in Session, NEW o \in RemovePlayer(r, s, ps) PROVE ~o.close
  <2> DEFINE best == BestSeats(r, s, FALSE, ps)
             t(i) == [r EXCEPT !.players = SwapHost(@, i)]
             w == [r EXCEPT !.observers = Erase(@, SeatOf(@, s))]
  <2>1. best # {} /\ Len(r.players) > 1
    BY WaitingFinds
  <2>2. ASSUME NEW i \in best PROVE Len(t(i).players) = Len(r.players)
    BY BestSeatsType, RoomFields, SwapHostType DEF RoomRecord
  <2>3. \A u, k : Removed(u, k).close = (Len(u.players) = 1)
    BY DEF Removed
  <2>4. \/ o = Stay(r)
        \/ o = Removed(r, SeatOf(r.players, s))
        \/ \E i \in best : o = Removed(t(i), SeatOf(t(i).players, s))
        \/ o = [room |-> w, gone |-> {s}, close |-> FALSE]
    BY <2>1 DEF RemovePlayer
  <2> HIDE DEF best, t
  <2>5. CASE o = [room |-> w, gone |-> {s}, close |-> FALSE]
    BY <2>5
  <2>0. Len(r.players) # 1
    <3>1. Len(r.players) \in Nat
      BY RoomFields, ListFacts
    <3>2. \A m \in Nat : m > 1 => m # 1
      OBVIOUS
    <3>3. QED
      BY <2>1, <3>1, <3>2
  <2>6. CASE o = Removed(r, SeatOf(r.players, s))
    <3>1. Removed(r, SeatOf(r.players, s)).close = FALSE
      BY <2>0, <2>3
    <3>2. QED
      BY <2>6, <3>1
  <2>7. CASE \E i \in best : o = Removed(t(i), SeatOf(t(i).players, s))
    <3>1. PICK i \in best : o = Removed(t(i), SeatOf(t(i).players, s))
      BY <2>7
    <3>2. Removed(t(i), SeatOf(t(i).players, s)).close = FALSE
      BY <2>0, <2>2, <2>3
    <3>3. QED
      BY <3>1, <3>2
  <2>8. QED
    BY <1>1, <2>4, <2>5, <2>6, <2>7
<1>3. ASSUME NEW o \in RemoveHostFromMatch(r, ps) PROVE ~o.close
  <2> DEFINE fighting == \E s \in LiveIn(r.players) : InMatch(ps[s])
             t(i) == [r EXCEPT !.players = SwapHost(@, i), !.started = @ /\ fighting]
  <2>1. fighting = FALSE
    BY DEF Waiting
  <2>2. BestSeats(r, HostOf(r), FALSE, ps) # {}
    BY WaitingFinds
  <2>3. \/ o = Stay(r)
        \/ \E i \in BestSeats(r, HostOf(r), fighting, ps) : o = IgnoreClose(Removed(t(i), i))
    BY <2>1, <2>2 DEF RemoveHostFromMatch
  <2>4. \A u, i : IgnoreClose(Removed(u, i)).close = FALSE
    BY DEF IgnoreClose, Removed
  <2> HIDE DEF t
  <2>5. QED
    BY <1>1, <2>3, <2>4
<1>4. QED
  BY <1>2, <1>3

\* A session that fights is no player of a waiting room, and leaving the match
\* changes nothing there.
LEMMA OutsiderLeaves ==
    ASSUME NEW r \in RoomRecord, NEW ps, Waiting(r, ps), NEW s, InMatch(ps[s])
    PROVE  /\ \A o \in VotekickPlayer(r, s, ps) : o = Stay(r)
           /\ IsHost(r, s) => \A o \in RemoveHostFromMatch(r, ps) : o = Stay(r)
<1>1. s \notin LiveIn(r.players)
  BY DEF Waiting
<1>2. ~Holds(r.players, s)
  BY <1>1, HoldsLive
<1>3. IsHost(r, s) => HostOf(r) = NoSession
  <2>1. SUFFICES ASSUME IsHost(r, s), r.players[1].live PROVE FALSE
    BY DEF HostOf
  <2>2. 1 \in DOMAIN r.players
    BY <2>1, RoomFields DEF IsHost
  <2>3. QED
    BY <1>1, <2>1, <2>2, LiveInDef DEF IsHost
<1>4. QED
  BY <1>2, <1>3 DEF VotekickPlayer, RemoveHostFromMatch
-----------------------------------------------------------------------------
\* Where every player's seat is live, the search answers the seat it chose.
LEMMA BestSeatsExact ==
    ASSUME NEW r \in RoomRecord, NEW s, NEW ps, Alive(r),
           NEW i \in BestSeats(r, s, TRUE, ps)
    PROVE  /\ i \in DOMAIN r.players /\ r.players[i].live
           /\ r.players[i].uid # s /\ InMatch(ps[r.players[i].uid])
<1> DEFINE q == r.players
           candidates == {k \in DOMAIN q : /\ q[k].live /\ q[k].uid # s
                                           /\ InMatch(ps[q[k].uid]) = TRUE}
           answered(k) == Cardinality({j \in 1 .. k : q[j].live})
<1>1. Len(q) \in Nat /\ DOMAIN q = 1 .. Len(q)
  BY RoomFields, ListFacts
<1>2. PICK k \in candidates : i = answered(k)
  BY DEF BestSeats
<1>3. \A j \in DOMAIN q : q[j].live
  BY DEF Alive, SeatsIn
<1>4. k \in DOMAIN q /\ k \in Nat /\ {j \in 1 .. k : q[j].live} = 1 .. k
  BY <1>1, <1>3
<1>5. Cardinality(1 .. k) = k
  BY <1>4, FS_Interval
<1>6. i = k
  BY <1>2, <1>4, <1>5
<1>7. QED
  BY <1>2, <1>6

\* removeHostFromMatch, with another fighter there and no ghost: the new host is
\* such a fighter.
LEMMA SuccessorFound ==
    ASSUME NEW r \in RoomRecord, SeatedOnce(r), Alive(r), NEW ps, NEW s, HostOf(r) = s,
           InMatch(ps[s]), s \in Session,
           NEW a \in LiveIn(r.players) \ {s}, InMatch(ps[a]), NEW o \in RemoveHostFromMatch(r, ps)
    PROVE  /\ o.close = FALSE /\ s \in o.gone
           /\ \E t \in LiveIn(r.players) \ {s} : InMatch(ps[t]) /\ First(o.room.players, t)
<1> DEFINE fighting == \E k \in LiveIn(r.players) : InMatch(ps[k])
           t(i) == [r EXCEPT !.players = SwapHost(@, i), !.started = @ /\ fighting]
           q == r.players
<1>1. q \in Seq(Seat) /\ Distinct(q) /\ fighting = TRUE
  BY RoomFields DEF SeatedOnce
<1>2. s # NoSession /\ First(q, s)
  BY RoomAssumption, FirstHost
<1>3. 1 \in DOMAIN q /\ s \in LiveIn(q)
  <2>1. 1 \in DOMAIN q
    BY <1>1, <1>2 DEF First
  <2>2. QED
    BY <1>2, <2>1, LiveInDef DEF First
<1>4. BestSeats(r, s, TRUE, ps) # {}
  <2>1. InMatch(ps[a]) = TRUE
    BY DEF InMatch
  <2>2. QED
    BY <1>3, <2>1, BestSeatsFinds
<1>5. PICK i \in BestSeats(r, s, TRUE, ps) : o = IgnoreClose(Removed(t(i), i))
  BY <1>1, <1>2, <1>4 DEF RemoveHostFromMatch
<1>6. i \in DOMAIN q /\ q[i].live /\ q[i].uid # s /\ InMatch(ps[q[i].uid])
  <2>1. i \in BestSeats(r, s, TRUE, ps)
    OBVIOUS
  <2> HIDE DEF fighting, t, q
  <2>2. /\ i \in DOMAIN r.players /\ r.players[i].live
        /\ r.players[i].uid # s /\ InMatch(ps[r.players[i].uid])
    BY <2>1, BestSeatsExact
  <2>3. QED
    BY <2>2 DEF q
<1>7. t(i).players = SwapHost(q, i)
  BY DEF RoomRecord
<1> DEFINE u == t(i)
           p == SwapRemove(SwapHost(q, i), i)
<1>8. i # 1 /\ p # <<>> /\ p[1] = q[i]
  <2>1. i # 1
    BY <1>2, <1>6 DEF First
  <2> HIDE DEF q, p
  <2>2. QED
    BY <1>1, <1>6, <2>1, HandedOver DEF p
<1>9. SwapHost(q, i)[i] = q[1]
  BY <1>1, <1>6, SwapHostSeats
<1>10. o.close = FALSE /\ o.room.players = p /\ o.gone = Holder(q[1])
  <2>1. [u EXCEPT !.players = SwapRemove(@, i)].players = SwapRemove(u.players, i)
    BY DEF RoomRecord
  <2> HIDE DEF t
  <2>2. /\ o.close = FALSE /\ o.room.players = SwapRemove(u.players, i)
        /\ o.gone = Holder(u.players[i])
    BY <1>5, <2>1 DEF IgnoreClose, Removed, Holder
  <2>3. QED
    BY <1>7, <1>9, <2>2
<1>11. s \in Holder(q[1])
  BY <1>2 DEF First, Holder
<1>12. q[i].uid \in LiveIn(q) \ {s}
  BY <1>6, LiveInDef
<1>13. First(p, q[i].uid)
  BY <1>6, <1>8 DEF First
<1>14. QED
  BY <1>6, <1>10, <1>11, <1>12, <1>13
-----------------------------------------------------------------------------
(* Worlds: the rooms, their numbers and the sessions. *)

RoomTables == UNION {[D -> RoomRecord] : D \in SUBSET Slot}

World ==
    [rooms : RoomTables, gen : Generator, num : [Session -> Slot],
     ps : [Session -> State]]

\* NumbersConsistent, of a generator and the numbers in use.
Numbered(g, D) ==
    /\ \A i, j \in DOMAIN g.free : g.free[i] = g.free[j] => i = j
    /\ \A i \in DOMAIN g.free : g.free[i] < g.next /\ g.free[i] \notin D
    /\ \A n \in D : n < g.next

Good(x) == x \in World /\ Numbered(x.gen, DOMAIN x.rooms)

-----------------------------------------------------------------------------
(* The number generator. *)

\* generate() answers a number nobody uses, or 0, and stays consistent whether
\* or not the number is used.
LEMMA GenerateNumbered ==
    ASSUME NEW g \in Generator, NEW D \in SUBSET Slot, Numbered(g, D)
    PROVE  /\ Generated(g) \in Slot
           /\ AfterGenerate(g) \in Generator
           /\ Numbered(AfterGenerate(g), D \cup {Generated(g)})
           /\ Numbered(AfterGenerate(g), D)
<1>0. MaxNumber \in Nat \ {0}
  BY MaxNumberAssumption
<1>1. /\ g.next \in 1 .. (MaxNumber + 1) /\ g.free \in Seq(Number)
      /\ g.next \in Nat \ {0} /\ D \subseteq Nat
  BY <1>0 DEF Generator, Slot, NoNumber, Number
<1>2. CASE g.free # <<>>
  <2> DEFINE h == [g EXCEPT !.free = Tail(@)]
  <2>1. AfterGenerate(g) = h /\ Generated(g) = Head(g.free)
    BY <1>2 DEF AfterGenerate, Generated
  <2>2. /\ Tail(g.free) \in Seq(Number) /\ Len(Tail(g.free)) = Len(g.free) - 1
        /\ Head(g.free) = g.free[1] /\ 1 \in DOMAIN g.free
        /\ \A i \in DOMAIN Tail(g.free) : Tail(g.free)[i] = g.free[i + 1]
                                          /\ i + 1 \in DOMAIN g.free /\ i + 1 # 1
    BY <1>1, <1>2
  <2>3. Head(g.free) \in Number
    BY <1>1, <2>2
  <2>4. h \in Generator /\ h.next = g.next /\ h.free = Tail(g.free)
    BY <1>1, <2>2 DEF Generator
  <2>5. \A i, j \in DOMAIN h.free : h.free[i] = h.free[j] => i = j
    <3> SUFFICES ASSUME NEW i \in DOMAIN h.free, NEW j \in DOMAIN h.free,
                        h.free[i] = h.free[j]
                 PROVE  i = j
      OBVIOUS
    <3>1. i + 1 = j + 1
      BY <2>2, <2>4 DEF Numbered
    <3>2. i \in Nat /\ j \in Nat
      BY <2>2, <2>4
    <3>3. QED
      BY <3>1, <3>2
  <2>6. \A i \in DOMAIN h.free :
            h.free[i] < h.next /\ h.free[i] \notin D /\ h.free[i] # Head(g.free)
    BY <2>2, <2>4 DEF Numbered
  <2>7. \A n \in D \cup {Head(g.free)} : n < h.next
    BY <2>2, <2>4 DEF Numbered
  <2>8. QED
    BY <2>1, <2>3, <2>4, <2>5, <2>6, <2>7 DEF Numbered, Slot
<1>3. CASE g.free = <<>> /\ g.next <= MaxNumber
  <2> DEFINE h == [g EXCEPT !.next = @ + 1]
  <2>1. AfterGenerate(g) = h /\ Generated(g) = g.next
    BY <1>3 DEF AfterGenerate, Generated
  <2>2. h \in Generator /\ h.next = g.next + 1 /\ h.free = <<>>
    BY <1>0, <1>1, <1>3 DEF Generator
  <2>3. g.next \in Number
    BY <1>0, <1>1, <1>3 DEF Number
  <2>4. \A n \in D \cup {g.next} : n < g.next + 1
    BY <1>1 DEF Numbered
  <2>5. DOMAIN h.free = {}
    BY <2>2
  <2>6. QED
    BY <2>1, <2>2, <2>3, <2>4, <2>5 DEF Numbered, Slot
<1>4. CASE g.free = <<>> /\ ~(g.next <= MaxNumber)
  <2>1. AfterGenerate(g) = g /\ Generated(g) = NoNumber
    BY <1>4 DEF AfterGenerate, Generated
  <2>2. DOMAIN g.free = {}
    BY <1>4
  <2>3. NoNumber < g.next
    BY <1>1 DEF NoNumber
  <2>4. QED
    BY <2>1, <2>2, <2>3 DEF Numbered, Slot
<1>5. QED
  BY <1>2, <1>3, <1>4

\* release() of a number that was in use, and is not any more, keeps the
\* generator consistent.
LEMMA ReleaseNumbered ==
    ASSUME NEW g \in Generator, NEW D \in SUBSET Slot, Numbered(g, D), NEW n \in D
    PROVE  /\ Released(g, n) \in Generator
           /\ Numbered(Released(g, n), D \ {n})
<1>1. CASE n \notin Number
  BY <1>1 DEF Released, Numbered
<1>2. CASE n \in Number
  <2> DEFINE h == [g EXCEPT !.free = Append(@, n)]
  <2>1. Released(g, n) = h
    BY <1>2 DEF Released
  <2>2. g.free \in Seq(Number) /\ Len(g.free) \in Nat /\ DOMAIN g.free = 1 .. Len(g.free)
    BY DEF Generator
  <2>3. h \in Generator /\ h.next = g.next /\ h.free = Append(g.free, n)
    BY <1>2, <2>2 DEF Generator
  <2>4. /\ DOMAIN h.free = DOMAIN g.free \cup {Len(g.free) + 1}
        /\ \A i \in DOMAIN g.free : h.free[i] = g.free[i] /\ i # Len(g.free) + 1
        /\ h.free[Len(g.free) + 1] = n
    BY <1>2, <2>2, <2>3
  <2>5. \A i \in DOMAIN g.free : g.free[i] # n
    BY DEF Numbered
  <2>6. \A i, j \in DOMAIN h.free : h.free[i] = h.free[j] => i = j
    BY <2>4, <2>5 DEF Numbered
  <2>7. \A i \in DOMAIN h.free : h.free[i] < h.next /\ h.free[i] \notin D \ {n}
    BY <2>3, <2>4 DEF Numbered
  <2>8. QED
    BY <2>1, <2>3, <2>6, <2>7 DEF Numbered
<1>3. QED
  BY <1>1, <1>2

-----------------------------------------------------------------------------
(* Tables of rooms, and worlds. *)

\* Updating, dropping and adding rooms gives a table of rooms.
LEMMA TableType ==
    ASSUME NEW f \in RoomTables
    PROVE  /\ DOMAIN f \subseteq Slot
           /\ \A n \in DOMAIN f : f[n] \in RoomRecord
           /\ \A n \in DOMAIN f, r \in RoomRecord :
                 /\ [f EXCEPT ![n] = r] \in RoomTables
                 /\ DOMAIN [f EXCEPT ![n] = r] = DOMAIN f
           /\ \A S \in SUBSET DOMAIN f :
                 Restrict(f, S) \in RoomTables /\ DOMAIN Restrict(f, S) = S
<1>1. PICK D \in SUBSET Slot : f \in [D -> RoomRecord]
  BY DEF RoomTables
<1>2. DOMAIN f = D
  BY <1>1
<1>3. \A n \in D, r \in RoomRecord : [f EXCEPT ![n] = r] \in [D -> RoomRecord]
  BY <1>1
<1>4. \A S \in SUBSET D : Restrict(f, S) \in [S -> RoomRecord]
  BY <1>1 DEF Restrict
<1>5. QED
  BY <1>1, <1>2, <1>3, <1>4 DEF RoomTables

\* IsRoomTable, the type the invariant names, is membership in RoomTables.
LEMMA TableSet ==
    ASSUME NEW f
    PROVE  f \in RoomTables <=> IsRoomTable(f)
BY DEF RoomTables, IsRoomTable

\* Sending sessions to the lobby keeps the room numbers typed.
LEMMA UnhousedType ==
    ASSUME NEW num \in [Session -> Slot], NEW S
    PROVE  Unhoused(num, S) \in [Session -> Slot]
BY DEF Unhoused, Slot

\* A world's parts.
LEMMA WorldFields ==
    ASSUME NEW x \in World
    PROVE  /\ x.rooms \in RoomTables /\ x.gen \in Generator
           /\ x.num \in [Session -> Slot] /\ x.ps \in [Session -> State]
BY DEF World

\* Replacing one room of a good world leaves a good world.
LEMMA PutGood ==
    ASSUME NEW x, Good(x), NEW n \in DOMAIN x.rooms, NEW r \in RoomRecord
    PROVE  Good(Put(x, n, r)) /\ DOMAIN Put(x, n, r).rooms = DOMAIN x.rooms
<1>1. x \in World /\ x.rooms \in RoomTables
  BY WorldFields DEF Good
<1>2. /\ [x.rooms EXCEPT ![n] = r] \in RoomTables
      /\ DOMAIN [x.rooms EXCEPT ![n] = r] = DOMAIN x.rooms
  BY <1>1, TableType
<1>3. /\ Put(x, n, r) \in World /\ Put(x, n, r).gen = x.gen
      /\ Put(x, n, r).rooms = [x.rooms EXCEPT ![n] = r]
  BY <1>1, <1>2 DEF Put, World
<1>4. QED
  BY <1>2, <1>3 DEF Good

\* removeRoom leaves a good world: the number it releases was in use.
LEMMA CloseRoomGood ==
    ASSUME NEW x, Good(x), NEW n
    PROVE  Good(CloseRoom(x, n))
<1>1. /\ x \in World /\ x.rooms \in RoomTables /\ x.gen \in Generator
      /\ x.num \in [Session -> Slot] /\ DOMAIN x.rooms \in SUBSET Slot
  BY WorldFields, TableType DEF Good
<1>2. CASE n \notin DOMAIN x.rooms
  BY <1>2 DEF CloseRoom
<1>3. CASE n \in DOMAIN x.rooms
  <2> DEFINE f == Restrict(x.rooms, DOMAIN x.rooms \ {n})
             g == Released(x.gen, n)
             u == Unhoused(x.num, Members(x.rooms[n]))
             y == [x EXCEPT !.rooms = f, !.gen = g, !.num = u]
  <2>1. CloseRoom(x, n) = y
    BY <1>3 DEF CloseRoom
  <2>2. f \in RoomTables /\ DOMAIN f = DOMAIN x.rooms \ {n}
    BY <1>1, TableType
  <2>3. g \in Generator /\ Numbered(g, DOMAIN x.rooms \ {n})
    BY <1>1, <1>3, ReleaseNumbered DEF Good
  <2>4. u \in [Session -> Slot]
    BY <1>1, UnhousedType
  <2> HIDE DEF f, g, u
  <2>5. y \in World /\ y.rooms = f /\ y.gen = g
    BY <1>1, <2>2, <2>3, <2>4 DEF World
  <2>6. QED
    BY <2>1, <2>2, <2>3, <2>5 DEF Good
<1>4. QED
  BY <1>2, <1>3

\* Settling what a member function did leaves a good world.
LEMMA SettleGood ==
    ASSUME NEW x, Good(x), NEW n \in DOMAIN x.rooms, NEW o \in Outcome
    PROVE  Good(Settle(x, n, o))
<1> DEFINE p == Put(x, n, o.room)
           y == [p EXCEPT !.num = Unhoused(@, o.gone)]
<1>1. o.room \in RoomRecord /\ o.close \in BOOLEAN
  BY DEF Outcome
<1>2. Good(p)
  BY <1>1, PutGood
<1>3. p \in World /\ Unhoused(p.num, o.gone) \in [Session -> Slot]
  BY <1>2, WorldFields, UnhousedType DEF Good
<1> HIDE DEF p
<1>4. y \in World /\ y.rooms = p.rooms /\ y.gen = p.gen
  BY <1>3 DEF World
<1>5. Good(y)
  BY <1>2, <1>4 DEF Good
<1>6. Good(CloseRoom(y, n))
  BY <1>5, CloseRoomGood
<1>7. QED
  BY <1>5, <1>6 DEF Settle, p

\* setStateFor on a room of a good world leaves a good world.
LEMMA SetStateInGood ==
    ASSUME NEW x, Good(x), NEW n \in DOMAIN x.rooms, NEW who, NEW v \in State
    PROVE  Good(SetStateIn(x, n, who, v))
<1> DEFINE p == Put(x, n, SetStateFor(x.rooms[n], who, v))
           w == [s \in Session |->
                   IF s \in who \cap Members(x.rooms[n]) THEN v ELSE p.ps[s]]
           y == [p EXCEPT !.ps = w]
<1>1. x.rooms \in RoomTables
  BY WorldFields DEF Good
<1>2. x.rooms[n] \in RoomRecord
  BY <1>1, TableType
<1>3. SetStateFor(x.rooms[n], who, v) \in RoomRecord
  BY <1>2, ChangesType
<1>4. Good(p)
  BY <1>3, PutGood
<1>5. p \in World /\ p.ps \in [Session -> State]
  BY <1>4, WorldFields DEF Good
<1> HIDE DEF p
<1>6. w \in [Session -> State]
  BY <1>5
<1> HIDE DEF w
<1>7. y \in World /\ y.rooms = p.rooms /\ y.gen = p.gen
  BY <1>5, <1>6 DEF World
<1>8. Good(y)
  BY <1>4, <1>7 DEF Good
<1>9. QED
  BY <1>8 DEF SetStateIn, p, w

-----------------------------------------------------------------------------
(* The handlers as operators on worlds. *)

\* A votekick target that tries to leave: what is settled is an outcome.
LEMMA LeaveAsTargetGood ==
    ASSUME NEW x, Good(x), NEW n \in DOMAIN x.rooms, NEW s, NEW y \in LeaveAsTarget(x, n, s)
    PROVE  Good(y)
<1>1. x.rooms[n] \in RoomRecord
  BY WorldFields, TableType DEF Good
<1>2. PICK o \in VotekickPlayer(x.rooms[n], s, x.ps) :
          y = Settle(x, n, [o EXCEPT !.room = ResetVotekick(@)])
  BY DEF LeaveAsTarget
<1>3. o \in Outcome
  BY <1>1, <1>2, VotekickPlayerType
<1>4. ResetVotekick(o.room) \in RoomRecord
  BY <1>3, ChangesType DEF Outcome
<1>5. [o EXCEPT !.room = ResetVotekick(@)] \in Outcome
  BY <1>3, <1>4 DEF Outcome
<1>6. QED
  BY <1>2, <1>5, SettleGood

\* handleRoomLeave leaves a good world.
LEMMA RoomLeaveGood ==
    ASSUME NEW x, Good(x), NEW s \in Session, NEW y \in RoomLeave(x, s)
    PROVE  Good(y)
<1> DEFINE n == x.num[s]
<1>1. CASE n \notin DOMAIN x.rooms
  BY <1>1 DEF RoomLeave
<1>2. CASE n \in DOMAIN x.rooms /\ x.rooms[n].vkTarget = s
  BY <1>2, LeaveAsTargetGood DEF RoomLeave
<1>3. CASE n \in DOMAIN x.rooms /\ x.rooms[n].vkTarget # s
  <2>1. x.rooms[n] \in RoomRecord
    BY <1>3, WorldFields, TableType DEF Good
  <2>2. \E o \in RemovePlayer(x.rooms[n], s, x.ps) : y = Settle(x, n, o)
    BY <1>3 DEF RoomLeave
  <2>3. QED
    BY <1>3, <2>1, <2>2, RemovePlayerType, SettleGood
<1>4. QED
  BY <1>1, <1>2, <1>3

\* handleMatchLeave leaves a good world.
LEMMA MatchLeaveGood ==
    ASSUME NEW x, Good(x), NEW s \in Session, NEW y \in MatchLeave(x, s)
    PROVE  Good(y)
<1> DEFINE n == x.num[s]
<1>1. CASE n \notin DOMAIN x.rooms
  BY <1>1 DEF MatchLeave
<1>2. CASE n \in DOMAIN x.rooms /\ x.rooms[n].vkTarget = s
  BY <1>2, LeaveAsTargetGood DEF MatchLeave
<1>3. CASE n \in DOMAIN x.rooms /\ x.rooms[n].vkTarget # s
  <2>1. x.rooms[n] \in RoomRecord
    BY <1>3, WorldFields, TableType DEF Good
  <2>2. CASE IsHost(x.rooms[n], s)
    <3>1. \E o \in RemoveHostFromMatch(x.rooms[n], x.ps) : y = Settle(x, n, o)
      BY <1>3, <2>2 DEF MatchLeave
    <3>2. QED
      BY <1>3, <2>1, <3>1, RemoveHostFromMatchType, SettleGood
  <2>3. CASE ~IsHost(x.rooms[n], s)
    <3>1. y = SetStateIn(x, n, {s}, "WAITING")
      BY <1>3, <2>3 DEF MatchLeave
    <3>2. "WAITING" \in State
      BY DEF State
    <3>3. QED
      BY <1>3, <3>1, <3>2, SetStateInGood
  <2>4. QED
    BY <2>2, <2>3
<1>4. QED
  BY <1>1, <1>2, <1>3

\* The death of a session leaves a good world.
LEMMA DestroyedGood ==
    ASSUME NEW x, Good(x), NEW s \in Session
    PROVE  Good(Destroyed(x, s))
<1> DEFINE f == [n \in DOMAIN x.rooms |-> Expired(x.rooms[n], s)]
           u == [x.num EXCEPT ![s] = NoNumber]
           w == [x.ps EXCEPT ![s] = "EXIT"]
           y == [x EXCEPT !.rooms = f, !.num = u, !.ps = w]
<1>1. /\ x \in World /\ x.rooms \in RoomTables /\ x.num \in [Session -> Slot]
      /\ x.ps \in [Session -> State] /\ DOMAIN x.rooms \in SUBSET Slot
  BY WorldFields, TableType DEF Good
<1>2. \A n \in DOMAIN x.rooms : Expired(x.rooms[n], s) \in RoomRecord
  BY <1>1, TableType, ChangesType
<1>3. f \in [DOMAIN x.rooms -> RoomRecord]
  BY <1>2
<1>4. f \in RoomTables /\ DOMAIN f = DOMAIN x.rooms
  BY <1>1, <1>3 DEF RoomTables
<1>5. u \in [Session -> Slot] /\ w \in [Session -> State]
  BY <1>1 DEF Slot, State
<1>6. Destroyed(x, s) = y
  BY DEF Destroyed
<1> HIDE DEF f, u, w
<1>7. y \in World /\ y.rooms = f /\ y.gen = x.gen
  BY <1>1, <1>4, <1>5 DEF World
<1>8. QED
  BY <1>4, <1>6, <1>7 DEF Good

-----------------------------------------------------------------------------
(* The invariant. *)

Inv == TypeOK /\ NumbersConsistent

\* The invariant says that the current world is good.
LEMMA NowGood ==
    Inv <=> Good(Now) /\ online \subseteq Session
<1>1. Now \in World <=> /\ rooms \in RoomTables /\ gen \in Generator
                        /\ roomNum \in [Session -> Slot] /\ pstate \in [Session -> State]
  BY DEF Now, World
<1>2. Now.gen = gen /\ Now.rooms = rooms
  BY DEF Now
<1>3. rooms \in RoomTables <=> IsRoomTable(rooms)
  BY TableSet
<1>4. QED
  BY <1>1, <1>2, <1>3 DEF Inv, TypeOK, NumbersConsistent, Good, Numbered

\* A step into a good world keeps the invariant.
LEMMA BecomeGood ==
    ASSUME NEW x, Good(x), Become(x), online' \subseteq Session
    PROVE  Inv'
<1>1. x \in World
  BY DEF Good
<1>2. /\ IsRoomTable(x.rooms) /\ x.gen \in Generator
      /\ x.num \in [Session -> Slot] /\ x.ps \in [Session -> State]
  BY <1>1, WorldFields, TableSet
<1>3. TypeOK'
  BY <1>2 DEF Become, TypeOK, IsRoomTable
<1>4. NumbersConsistent'
  BY DEF Become, Good, Numbered, NumbersConsistent
<1>5. QED
  BY <1>3, <1>4 DEF Inv

\* A step that leaves the generator alone and adds no room keeps the invariant,
\* when what it assigns is typed.
LEMMA StepGood ==
    ASSUME Inv, rooms' \in RoomTables, DOMAIN rooms' \subseteq DOMAIN rooms, gen' = gen,
           roomNum' \in [Session -> Slot], pstate' \in [Session -> State],
           online' \subseteq Session
    PROVE  Inv'
<1>1. TypeOK'
  BY TableSet DEF Inv, TypeOK, IsRoomTable
<1>2. NumbersConsistent'
  BY DEF Inv, NumbersConsistent
<1>3. QED
  BY <1>1, <1>2 DEF Inv

\* What the invariant gives a handler of a session that is in a room.
LEMMA InRoomFacts ==
    ASSUME Inv, NEW s \in Session, InRoom(s)
    PROVE  /\ Good(Now) /\ online \subseteq Session
           /\ rooms \in RoomTables /\ roomNum \in [Session -> Slot]
           /\ pstate \in [Session -> State]
           /\ roomNum[s] \in DOMAIN rooms /\ RoomOf(s) \in RoomRecord
           /\ Now.rooms = rooms /\ Now.num = roomNum /\ Now.ps = pstate
<1>1. rooms \in RoomTables
  BY TableSet DEF Inv, TypeOK
<1>2. RoomOf(s) \in RoomRecord
  BY <1>1, TableType DEF RoomOf, InRoom
<1>3. QED
  BY <1>1, <1>2, NowGood DEF Inv, TypeOK, InRoom, Now

\* A step of a session in a room that replaces that room keeps the invariant.
LEMMA UpdateGood ==
    ASSUME Inv, NEW s \in Session, InRoom(s), NEW r \in RoomRecord,
           rooms' = [rooms EXCEPT ![roomNum[s]] = r], gen' = gen,
           roomNum' \in [Session -> Slot], pstate' \in [Session -> State],
           online' = online
    PROVE  Inv'
<1>1. rooms' \in RoomTables /\ DOMAIN rooms' = DOMAIN rooms
  BY InRoomFacts, TableType
<1>2. online' \subseteq Session
  BY InRoomFacts
<1>3. QED
  BY <1>1, <1>2, StepGood

\* The same, for the steps written with Update.
LEMMA UpdateStep ==
    ASSUME Inv, NEW s \in Session, InRoom(s), NEW r \in RoomRecord, Update(s, r)
    PROVE  Inv'
BY UpdateGood, InRoomFacts DEF Update

-----------------------------------------------------------------------------
(* Every action keeps the invariant: coming, moving and moderating. *)

\* Sessions come and go: the disconnect chains handleMatchLeave, handleRoomLeave
\* and the end of the session object.
LEMMA ComingGood == ASSUME Inv, Coming PROVE Inv'
<1>1. PICK s \in Session : Connect(s) \/ Disconnect(s)
  BY DEF Coming
<1>2. CASE Connect(s)
  BY <1>2 DEF Connect, Inv, TypeOK, IsRoomTable, NumbersConsistent
<1>3. CASE Disconnect(s)
  <2>1. PICK x \in (IF roomNum[s] # NoNumber /\ InMatch(pstate[s])
                    THEN MatchLeave(Now, s) ELSE {Now}) :
          \E y \in (IF roomNum[s] # NoNumber THEN RoomLeave(x, s) ELSE {x}) :
              Become(Destroyed(y, s))
    BY <1>3 DEF Disconnect
  <2>2. PICK y \in (IF roomNum[s] # NoNumber THEN RoomLeave(x, s) ELSE {x}) :
          Become(Destroyed(y, s))
    BY <2>1
  <2>3. Good(Now) /\ online' \subseteq Session
    BY <1>3, NowGood DEF Disconnect
  <2>4. Good(x)
    BY <2>1, <2>3, MatchLeaveGood
  <2>5. Good(y)
    BY <2>2, <2>4, RoomLeaveGood
  <2>6. QED
    BY <2>2, <2>3, <2>5, DestroyedGood, BecomeGood
<1>4. QED
  BY <1>1, <1>2, <1>3

\* handleRoomCreation: the number comes from generate(), whether the room is
\* then refused or not.
LEMMA CreateRoomGood == ASSUME Inv, NEW s \in Session, CreateRoom(s) PROVE Inv'
<1> DEFINE n == Generated(gen)
<1>1. /\ rooms \in RoomTables /\ DOMAIN rooms \in SUBSET Slot
      /\ gen \in Generator /\ Numbered(gen, DOMAIN rooms)
      /\ roomNum \in [Session -> Slot] /\ pstate \in [Session -> State]
      /\ online \subseteq Session
  BY TableSet, TableType DEF Inv, TypeOK, NumbersConsistent, Numbered
<1>2. /\ n \in Slot /\ AfterGenerate(gen) \in Generator
      /\ Numbered(AfterGenerate(gen), DOMAIN rooms \cup {n})
      /\ Numbered(AfterGenerate(gen), DOMAIN rooms)
  BY <1>1, GenerateNumbered
<1>3. CASE UNCHANGED <<rooms, roomNum, pstate>>
  <2>1. TypeOK'
    BY <1>1, <1>2, <1>3, TableSet DEF TypeOK, CreateRoom
  <2>2. NumbersConsistent'
    BY <1>2, <1>3 DEF NumbersConsistent, Numbered, CreateRoom
  <2>3. QED
    BY <2>1, <2>2 DEF Inv
<1>4. CASE \E observersOn \in BOOLEAN :
              /\ rooms' = [k \in DOMAIN rooms \cup {n} |->
                              IF k = n THEN NewRoom(s, observersOn) ELSE rooms[k]]
              /\ roomNum' = [roomNum EXCEPT ![s] = n]
              /\ pstate' = [pstate EXCEPT ![s] = "WAITING"]
  <2>1. \A b \in BOOLEAN : NewRoom(s, b) \in RoomRecord
    BY DEF NewRoom, NewSeat, RoomRecord, Seat, State
  <2>2. \A k \in DOMAIN rooms : rooms[k] \in RoomRecord
    BY <1>1, TableType
  <2>3. rooms' \in [DOMAIN rooms \cup {n} -> RoomRecord]
    BY <1>4, <2>1, <2>2
  <2>4. DOMAIN rooms \cup {n} \subseteq Slot
    BY <1>1, <1>2
  <2>5. rooms' \in RoomTables /\ DOMAIN rooms' = DOMAIN rooms \cup {n}
    BY <2>3, <2>4 DEF RoomTables
  <2>6. roomNum' \in [Session -> Slot] /\ pstate' \in [Session -> State]
    BY <1>1, <1>2, <1>4 DEF State
  <2>7. TypeOK'
    BY <1>1, <1>2, <2>5, <2>6, TableSet DEF TypeOK, CreateRoom
  <2>8. NumbersConsistent'
    BY <1>2, <2>5 DEF NumbersConsistent, Numbered, CreateRoom
  <2>9. QED
    BY <2>7, <2>8 DEF Inv
<1>5. QED
  BY <1>3, <1>4 DEF CreateRoom

\* handleRoomJoin and /join: one more seat in the room, for a session that had none.
LEMMA EnterGood ==
    ASSUME Inv, NEW s \in Session, NEW n \in DOMAIN rooms,
           JoinRoom(s, n) \/ JoinInvisible(s, n)
    PROVE  Inv'
<1>1. /\ rooms \in RoomTables /\ roomNum \in [Session -> Slot] /\ n \in Slot
      /\ pstate \in [Session -> State] /\ online \subseteq Session
      /\ rooms[n] \in RoomRecord
  BY TableSet, TableType DEF Inv, TypeOK
<1>2. NewSeat(s) \in Seat
  BY DEF NewSeat, Seat, State
<1>3. /\ Append(rooms[n].players, NewSeat(s)) \in Seq(Seat)
      /\ Append(rooms[n].observers, NewSeat(s)) \in Seq(Seat)
  BY <1>1, <1>2, RoomFields
<1>4. PICK r \in RoomRecord : Enter(s, n, r)
  BY <1>1, <1>3, RoomUpdates DEF JoinRoom, JoinInvisible, TakeSeat
<1>5. rooms' \in RoomTables /\ DOMAIN rooms' = DOMAIN rooms
  BY <1>1, <1>4, TableType DEF Enter
<1>6. roomNum' \in [Session -> Slot]
  BY <1>1, <1>4 DEF Enter
<1>7. QED
  BY <1>1, <1>4, <1>5, <1>6, StepGood DEF Enter

\* A friend's room is joined like any other.
LEMMA JoinFriendGood ==
    ASSUME Inv, NEW s \in Session, NEW t \in Session, JoinFriend(s, t)
    PROVE  Inv'
BY EnterGood DEF JoinFriend

\* handleRoomLeave and handleMatchLeave, asked for by the client.
LEMMA LeaveGood ==
    ASSUME Inv, NEW s \in Session, LeaveRoom(s) \/ LeaveMatch(s)
    PROVE  Inv'
<1>1. Good(Now) /\ online' \subseteq Session
  BY NowGood DEF LeaveRoom, LeaveMatch
<1>2. PICK x \in RoomLeave(Now, s) \cup MatchLeave(Now, s) : Become(x)
  BY DEF LeaveRoom, LeaveMatch
<1>3. QED
  BY <1>1, <1>2, RoomLeaveGood, MatchLeaveGood, BecomeGood

\* A member function's outcome, settled by a handler of a session in the room.
LEMMA SettleStep ==
    ASSUME Inv, NEW s \in Session, InRoom(s), NEW o \in Outcome,
           Become(Settle(Now, roomNum[s], o)), online' = online
    PROVE  Inv'
<1>1. Good(Settle(Now, roomNum[s], o))
  BY InRoomFacts, SettleGood
<1>2. QED
  BY <1>1, InRoomFacts, BecomeGood

\* handleRoomLeave with KICK_PLAYER.
LEMMA KickPlayerGood ==
    ASSUME Inv, NEW s \in Session, NEW t \in Session, KickPlayer(s, t)
    PROVE  Inv'
<1>1. InRoom(s) /\ online' = online
  BY DEF KickPlayer
<1>2. RoomOf(s) \in RoomRecord /\ Good(Now) /\ online' \subseteq Session
  BY <1>1, InRoomFacts
<1>3. CASE \E x \in RoomLeave(Now, s) : Become(x)
  BY <1>2, <1>3, RoomLeaveGood, BecomeGood
<1>4. CASE \E o \in RemovePlayer([RoomOf(s) EXCEPT !.kicked = @ \cup {t}], t, pstate) :
              Become(Settle(Now, roomNum[s], IgnoreClose(o)))
  <2>1. [RoomOf(s) EXCEPT !.kicked = @ \cup {t}] \in RoomRecord
    BY <1>2, RoomFields, RoomUpdates
  <2>2. PICK o \in Outcome : Become(Settle(Now, roomNum[s], IgnoreClose(o)))
    BY <1>4, <2>1, RemovePlayerType
  <2>3. QED
    BY <1>1, <2>2, IgnoreCloseType, SettleStep
<1>5. QED
  BY <1>3, <1>4 DEF KickPlayer

\* getRoomsList: the rooms without players go, and nothing else changes but
\* the numbers of those who were in them.
LEMMA ListRoomsGood == ASSUME Inv, ListRooms PROVE Inv'
<1> DEFINE empty == {n \in DOMAIN rooms : rooms[n].players = <<>>}
<1>1. /\ rooms \in RoomTables /\ roomNum \in [Session -> Slot]
      /\ pstate \in [Session -> State] /\ online \subseteq Session
  BY TableSet DEF Inv, TypeOK
<1>2. DOMAIN rooms \ empty \in SUBSET DOMAIN rooms
  OBVIOUS
<1>3. rooms' \in RoomTables /\ DOMAIN rooms' \subseteq DOMAIN rooms
  BY <1>1, <1>2, TableType DEF ListRooms
<1>4. roomNum' \in [Session -> Slot]
  BY <1>1, UnhousedType DEF ListRooms
<1>5. QED
  BY <1>1, <1>3, <1>4, StepGood DEF ListRooms

\* Moving in and out of rooms.
LEMMA MovingGood == ASSUME Inv, Moving PROVE Inv'
BY KickPlayerGood, JoinFriendGood, CreateRoomGood, LeaveGood, EnterGood, ListRoomsGood
   DEF Moving

\* The moderators' commands.
LEMMA ModeratingGood == ASSUME Inv, Moderating PROVE Inv'
<1>1. ASSUME NEW m \in Session, NEW t \in Session, ModKick(m, t)
      PROVE  Inv'
  <2>1. PICK o \in Outcome : Become(Settle(Now, roomNum[m], o))
    BY <1>1, InRoomFacts, KickType DEF ModKick
  <2>2. QED
    BY <1>1, <2>1, SettleStep DEF ModKick
<1>2. ASSUME NEW m \in Session, NEW t \in Session, ModUnkick(m, t)
      PROVE  Inv'
  <2>1. RoomOf(m) \in RoomRecord
    BY <1>2, InRoomFacts DEF ModUnkick
  <2>2. [RoomOf(m) EXCEPT !.kicked = @ \ {t}] \in RoomRecord
    BY <2>1, RoomFields, RoomUpdates
  <2>3. QED
    BY <1>2, <2>2, UpdateStep DEF ModUnkick
<1>3. ASSUME NEW m \in Session, NEW t \in Session, ModChangeHost(m, t)
      PROVE  Inv'
  <2>1. RoomOf(m) \in RoomRecord
    BY <1>3, InRoomFacts DEF ModChangeHost
  <2>2. SwapHost(RoomOf(m).players, SeatOf(RoomOf(m).players, t)) \in Seq(Seat)
    BY <1>3, <2>1, RoomFields, SeatOfType, SwapHostType DEF ModChangeHost
  <2>3. [RoomOf(m) EXCEPT !.players = SwapHost(@, SeatOf(@, t))] \in RoomRecord
    BY <2>1, <2>2, RoomUpdates
  <2>4. QED
    BY <1>3, <2>3, UpdateStep DEF ModChangeHost
<1>4. ASSUME NEW m \in Session, BreakRoom(m)
      PROVE  Inv'
  BY <1>4, InRoomFacts, CloseRoomGood, BecomeGood DEF BreakRoom
<1>5. ASSUME NEW t \in Session, HttpKick(t)
      PROVE  Inv'
  <2>1. RoomOf(t) \in RoomRecord /\ pstate \in [Session -> State] /\ InRoom(t)
    BY <1>5, InRoomFacts DEF HttpKick
  <2>2. PICK o \in Outcome :
            Become(Settle(Now, roomNum[t], [o EXCEPT !.close = Members(o.room) = {}]))
    BY <1>5, <2>1, KickType DEF HttpKick
  <2>3. [o EXCEPT !.close = Members(o.room) = {}] \in Outcome
    BY DEF Outcome
  <2>4. QED
    BY <1>5, <2>1, <2>2, <2>3, SettleStep DEF HttpKick
<1>6. ASSUME NEW t \in Session, HttpHostChange(t)
      PROVE  Inv'
  <2>1. RoomOf(t) \in RoomRecord
    BY <1>6, InRoomFacts DEF HttpHostChange
  <2>2. SwapHost(RoomOf(t).players, SeatOf(RoomOf(t).players, t)) \in Seq(Seat)
    BY <1>6, <2>1, RoomFields, SeatOfType, SwapHostType DEF HttpHostChange
  <2>3. [RoomOf(t) EXCEPT !.players = SwapHost(@, SeatOf(@, t))] \in RoomRecord
    BY <2>1, <2>2, RoomUpdates
  <2>4. QED
    BY <1>6, <2>3, UpdateStep DEF HttpHostChange
<1>7. ASSUME NEW n \in DOMAIN rooms, HttpBreakRoom(n)
      PROVE  Inv'
  <2>1. Good(Now) /\ online' \subseteq Session
    BY <1>7, NowGood DEF HttpBreakRoom
  <2>2. n \in DOMAIN Now.rooms
    BY DEF Now
  <2>3. QED
    BY <1>7, <2>1, <2>2, CloseRoomGood, BecomeGood DEF HttpBreakRoom
<1>8. QED
  BY <1>1, <1>2, <1>3, <1>4, <1>5, <1>6, <1>7 DEF Moderating

-----------------------------------------------------------------------------
(* Every action keeps the invariant: the seats, the match and the votekick. *)

\* The host seat and the teams.
LEMMA SeatingGood == ASSUME Inv, Seating PROVE Inv'
<1>1. ASSUME NEW s \in Session, NEW i \in 1 .. MaxPlayers, GiveHost(s, i)
      PROVE  Inv'
  <2>1. RoomOf(s) \in RoomRecord /\ i \in DOMAIN RoomOf(s).players
    BY <1>1, InRoomFacts DEF GiveHost
  <2>2. SwapHost(RoomOf(s).players, i) \in Seq(Seat)
    BY <2>1, RoomFields, SwapHostType
  <2>3. [RoomOf(s) EXCEPT !.players = SwapHost(@, i)] \in RoomRecord
    BY <2>1, <2>2, RoomUpdates
  <2>4. QED
    BY <1>1, <2>3, UpdateStep DEF GiveHost
<1>2. ASSUME NEW s \in Session, SwitchToObserver(s)
      PROVE  Inv'
  <2>1. RoomOf(s) \in RoomRecord
    BY <1>2, InRoomFacts DEF SwitchToObserver
  <2>2. MovedToObservers(RoomOf(s), SeatOf(RoomOf(s).players, s)) \in RoomRecord
    BY <1>2, <2>1, SeatOfType, ChangesType DEF SwitchToObserver
  <2>3. QED
    BY <1>2, <2>2, UpdateStep DEF SwitchToObserver
<1>3. ASSUME NEW s \in Session, SwitchToPlayer(s)
      PROVE  Inv'
  <2>1. RoomOf(s) \in RoomRecord
    BY <1>3, InRoomFacts DEF SwitchToPlayer
  <2>2. MovedToPlayers(RoomOf(s), SeatOf(RoomOf(s).observers, s)) \in RoomRecord
    BY <1>3, <2>1, SeatOfType, ChangesType DEF SwitchToPlayer
  <2>3. QED
    BY <1>3, <2>2, UpdateStep DEF SwitchToPlayer
<1>4. ASSUME NEW s \in Session, ToggleObservers(s)
      PROVE  Inv'
  <2>1. /\ RoomOf(s) \in RoomRecord /\ roomNum \in [Session -> Slot]
        /\ pstate \in [Session -> State]
    BY <1>4, InRoomFacts DEF ToggleObservers
  <2>2. ObserversToggled(RoomOf(s)) \in RoomRecord
    BY <2>1, ChangesType
  <2>3. rooms' = [rooms EXCEPT ![roomNum[s]] = ObserversToggled(RoomOf(s))]
    BY <1>4 DEF ToggleObservers, RoomOf
  <2>4. roomNum' \in [Session -> Slot]
    BY <1>4, <2>1, UnhousedType DEF ToggleObservers
  <2>5. QED
    BY <1>4, <2>1, <2>2, <2>3, <2>4, UpdateGood DEF ToggleObservers
<1>5. QED
  BY <1>1, <1>2, <1>3, <1>4 DEF Seating

\* A state reported by the client, or by the Cast server, is a player state.
LEMMA PlayerStateGood ==
    ASSUME Inv, NEW s \in Session, NEW v \in State, PlayerState(s, v) \/ CastState(s, v)
    PROVE  Inv'
<1> DEFINE w == [pstate EXCEPT ![s] = v]
           x == [Now EXCEPT !.ps = [@ EXCEPT ![s] = v]]
<1>1. /\ Good(Now) /\ online \subseteq Session /\ online' = online
      /\ rooms \in RoomTables /\ roomNum \in [Session -> Slot]
      /\ pstate \in [Session -> State]
  BY NowGood, TableSet DEF Inv, TypeOK, PlayerState, CastState
<1>2. w \in [Session -> State]
  BY <1>1
<1>3. CASE CastState(s, v)
  BY <1>1, <1>2, <1>3, StepGood DEF CastState
<1>4. CASE PlayerState(s, v)
  <2>1. Now \in World /\ x = [Now EXCEPT !.ps = w]
    BY <1>1 DEF Good, Now
  <2> HIDE DEF w
  <2>2. x \in World /\ x.rooms = Now.rooms /\ x.gen = Now.gen
    BY <1>2, <2>1 DEF World
  <2>3. Good(x)
    BY <1>1, <2>2 DEF Good
  <2>4. InRoom(s) => roomNum[s] \in DOMAIN x.rooms
    BY <2>2 DEF InRoom, Now
  <2>5. PICK y : /\ Become(y)
                 /\ \/ InRoom(s) /\ y = SetStateIn(x, roomNum[s], {s}, v)
                    \/ y = x
    BY <1>4 DEF PlayerState
  <2> HIDE DEF x
  <2>6. Good(y)
    BY <2>3, <2>4, <2>5, SetStateInGood
  <2>7. QED
    BY <1>1, <2>5, <2>6, BecomeGood
<1>5. QED
  BY <1>3, <1>4

\* handleRoomStart: the host starts the match, or another member enters it.
LEMMA StartMatchGood == ASSUME Inv, NEW s \in Session, StartMatch(s) PROVE Inv'
<1>1. InRoom(s) /\ online' = online
  BY DEF StartMatch
<1>2. /\ RoomOf(s) \in RoomRecord /\ Good(Now) /\ online \subseteq Session
      /\ roomNum \in [Session -> Slot] /\ pstate \in [Session -> State]
      /\ roomNum[s] \in DOMAIN Now.rooms
  BY <1>1, InRoomFacts
<1>3. CASE /\ rooms' = [rooms EXCEPT ![roomNum[s]] = StartedRoom(@)]
           /\ pstate' = [t \in Session |->
                            IF t \in Starters(RoomOf(s)) THEN "NORMAL" ELSE pstate[t]]
           /\ UNCHANGED <<gen, roomNum, online>>
  <2>1. StartedRoom(RoomOf(s)) \in RoomRecord
    BY <1>2, MatchType
  <2>2. rooms' = [rooms EXCEPT ![roomNum[s]] = StartedRoom(RoomOf(s))]
    BY <1>3 DEF RoomOf
  <2>3. pstate' \in [Session -> State]
    BY <1>2, <1>3 DEF State
  <2>4. QED
    BY <1>1, <1>2, <1>3, <2>1, <2>2, <2>3, UpdateGood
<1>4. CASE Become(SetStateIn(Now, roomNum[s], {s}, "NORMAL"))
  <2>1. "NORMAL" \in State
    BY DEF State
  <2>2. QED
    BY <1>1, <1>2, <1>4, <2>1, SetStateInGood, BecomeGood
<1>5. QED
  BY <1>3, <1>4 DEF StartMatch

\* handleMatchEnding: the room and the sessions that return to it.
LEMMA EndMatchGood == ASSUME Inv, NEW s \in Session, EndMatch(s) PROVE Inv'
<1>1. InRoom(s)
  BY DEF EndMatch
<1>2. /\ RoomOf(s) \in RoomRecord /\ roomNum \in [Session -> Slot]
      /\ pstate \in [Session -> State]
  BY <1>1, InRoomFacts
<1>3. EndedRoom(RoomOf(s), pstate) \in RoomRecord
  BY <1>2, MatchType
<1>4. rooms' = [rooms EXCEPT ![roomNum[s]] = EndedRoom(RoomOf(s), pstate)]
  BY DEF EndMatch, RoomOf
<1>5. pstate' \in [Session -> State]
  BY <1>2 DEF EndMatch, State
<1>6. QED
  BY <1>1, <1>2, <1>3, <1>4, <1>5, UpdateGood DEF EndMatch

\* The match.
LEMMA FightingGood == ASSUME Inv, Fighting PROVE Inv'
BY RoomsAssumption, StartMatchGood, LeaveGood, EndMatchGood, PlayerStateGood DEF Fighting

\* One more vote, with or without naming a target, leaves a room.
LEMMA VoteType ==
    ASSUME NEW r \in RoomRecord, NEW s \in Session, NEW t \in Session
    PROVE  /\ [r EXCEPT !.vkYes = @ + 1] \in RoomRecord
           /\ [r EXCEPT !.vkTarget = t, !.vkYes = @ + 1,
                        !.vkStarters = @ \cup {s}] \in RoomRecord
<1>1. r.vkYes + 1 \in Nat /\ r.vkStarters \cup {s} \subseteq Session
  BY RoomFields
<1>2. \A k \in Nat : \A S \in SUBSET Session :
          /\ [r EXCEPT !.vkYes = k] \in RoomRecord
          /\ [r EXCEPT !.vkTarget = t, !.vkYes = k, !.vkStarters = S] \in RoomRecord
  BY DEF RoomRecord
<1>3. QED
  BY <1>1, <1>2

\* The votekick.
LEMMA VotingGood == ASSUME Inv, Voting PROVE Inv'
<1>1. ASSUME NEW s \in Session, NEW t \in Session, StartVotekick(s, t)
      PROVE  Inv'
  <2>1. RoomOf(s) \in RoomRecord
    BY <1>1, InRoomFacts DEF StartVotekick
  <2>2. [RoomOf(s) EXCEPT !.vkTarget = t, !.vkYes = @ + 1,
                          !.vkStarters = @ \cup {s}] \in RoomRecord
    BY <2>1, VoteType
  <2>3. QED
    BY <1>1, <2>2, UpdateStep DEF StartVotekick
<1>2. ASSUME NEW s \in Session, VoteYes(s)
      PROVE  Inv'
  <2>1. RoomOf(s) \in RoomRecord
    BY <1>2, InRoomFacts DEF VoteYes
  <2>2. [RoomOf(s) EXCEPT !.vkYes = @ + 1] \in RoomRecord
    BY <2>1, VoteType
  <2>3. QED
    BY <1>2, <2>2, UpdateStep DEF VoteYes
<1>3. ASSUME NEW s \in Session, VoteResult(s)
      PROVE  Inv'
  <2>1. ClearVote(RoomOf(s)) \in RoomRecord
    BY <1>3, InRoomFacts, ChangesType DEF VoteResult
  <2>2. Stay(ClearVote(RoomOf(s))) \in Outcome
    BY <2>1 DEF Stay, Outcome
  <2>3. VotekickPlayer(ClearVote(RoomOf(s)), RoomOf(s).vkTarget, pstate) \subseteq Outcome
    BY <2>1, VotekickPlayerType
  <2>4. PICK o \in Outcome : Become(Settle(Now, roomNum[s], o))
    BY <1>3, <2>2, <2>3 DEF VoteResult
  <2>5. QED
    BY <1>3, <2>4, SettleStep DEF VoteResult
<1>4. QED
  BY <1>1, <1>2, <1>3 DEF Voting

-----------------------------------------------------------------------------
(* Seats and room numbers.                                                  *)

\* The seats of the rooms f and the sessions' room numbers u say the same.
Agreed(f, u) ==
    /\ NoNumber \notin DOMAIN f
    /\ \A s \in Session : u[s] # NoNumber => u[s] \in DOMAIN f
    /\ \A n \in DOMAIN f : \A s \in Session : s \in Members(f[n]) <=> u[s] = n

\* RoomAgreement, of a world.
SeatsMatch(x) ==
    /\ \A n \in DOMAIN x.rooms : SeatedOnce(x.rooms[n])
    /\ x.gen.next <= MaxNumber => Agreed(x.rooms, x.num)

\* No player's seat is a ghost's.
Lively(x) == x.gen.next <= MaxNumber => \A n \in DOMAIN x.rooms : Alive(x.rooms[n])

\* The seats that show a fighter are right.
Honest(x) == x.gen.next <= MaxNumber => \A n \in DOMAIN x.rooms : Told(x.rooms[n], x.ps)

\* Sessions leave rooms on the way from x to y, and enter none.
Lower(x, y) == \A s \in Session : y.num[s] = x.num[s] \/ y.num[s] = NoNumber

\* What holds of a world when no votekick runs and the clients and the Cast
\* server report what they can see holds of the next one.
Onward(x, y) == Lively(x) => Lively(y) /\ (Honest(x) => Honest(y))

\* A room changes and the sessions G leave it.
LEMMA ChangeAgreed ==
    ASSUME NEW f, NEW u \in [Session -> Slot], Agreed(f, u), NEW n \in DOMAIN f, NEW r, NEW G,
           G \subseteq Members(f[n]), Members(r) = Members(f[n]) \ G
    PROVE  Agreed([f EXCEPT ![n] = r], Unhoused(u, G))
<1> DEFINE h == [f EXCEPT ![n] = r]
           w == Unhoused(u, G)
<1>1. /\ DOMAIN h = DOMAIN f /\ h[n] = r /\ \A k \in DOMAIN f : k # n => h[k] = f[k]
      /\ \A s \in Session : w[s] = IF s \in G THEN NoNumber ELSE u[s]
  BY DEF Unhoused
<1> HIDE DEF h, w
<1>2. ASSUME NEW k \in DOMAIN f, NEW s \in Session PROVE s \in Members(h[k]) <=> w[s] = k
  <2>1. k # NoNumber /\ n # NoNumber /\ (s \in Members(f[k]) <=> u[s] = k)
        /\ (s \in Members(f[n]) <=> u[s] = n)
    BY DEF Agreed
  <2>2. CASE k = n
    BY <1>1, <2>1, <2>2
  <2>3. CASE k # n
    BY <1>1, <2>1, <2>3
  <2>4. QED
    BY <2>2, <2>3
<1>3. QED
  BY <1>1, <1>2 DEF Agreed, h, w

\* Rooms are erased and everyone in them is sent out.
LEMMA DropAgreed ==
    ASSUME NEW f, NEW u \in [Session -> Slot], Agreed(f, u), NEW S \in SUBSET DOMAIN f
    PROVE  Agreed(Restrict(f, DOMAIN f \ S), Unhoused(u, UNION {Members(f[n]) : n \in S}))
<1> DEFINE G == UNION {Members(f[n]) : n \in S}
           h == Restrict(f, DOMAIN f \ S)
           w == Unhoused(u, G)
<1>1. /\ DOMAIN h = DOMAIN f \ S /\ \A k \in DOMAIN h : h[k] = f[k]
      /\ \A s \in Session : w[s] = IF s \in G THEN NoNumber ELSE u[s]
  BY DEF Unhoused, Restrict
<1>2. \A s \in Session : s \in G <=> u[s] \in S
  BY DEF Agreed
<1> HIDE DEF h, w, G
<1>3. /\ NoNumber \notin DOMAIN h
      /\ \A s \in Session : w[s] # NoNumber => w[s] \in DOMAIN h
  BY <1>1, <1>2 DEF Agreed
<1>4. ASSUME NEW k \in DOMAIN h, NEW s \in Session PROVE s \in Members(h[k]) <=> w[s] = k
  <2>1. k \in DOMAIN f /\ k \notin S /\ h[k] = f[k] /\ k # NoNumber
    BY <1>1 DEF Agreed
  <2>2. s \in Members(f[k]) <=> u[s] = k
    BY <2>1 DEF Agreed
  <2>3. QED
    BY <1>1, <1>2, <2>1, <2>2
<1>5. QED
  BY <1>3, <1>4 DEF Agreed, h, w, G

LEMMA CloseAgreed ==
    ASSUME NEW f, NEW u \in [Session -> Slot], Agreed(f, u), NEW n \in DOMAIN f
    PROVE  Agreed(Restrict(f, DOMAIN f \ {n}), Unhoused(u, Members(f[n])))
<1>1. UNION {Members(f[k]) : k \in {n}} = Members(f[n])
  OBVIOUS
<1>2. {n} \in SUBSET DOMAIN f
  OBVIOUS
<1>3. Agreed(Restrict(f, DOMAIN f \ {n}), Unhoused(u, UNION {Members(f[k]) : k \in {n}}))
  BY <1>2, DropAgreed
<1>4. QED
  BY <1>1, <1>3

\* removeRoom: the others keep their rooms, and nobody keeps that one.
LEMMA CloseRoomSeats ==
    ASSUME NEW x, Good(x), SeatsMatch(x), NEW n
    PROVE  /\ SeatsMatch(CloseRoom(x, n)) /\ Lower(x, CloseRoom(x, n))
           /\ (Lively(x) => Lively(CloseRoom(x, n))) /\ (Honest(x) => Honest(CloseRoom(x, n)))
           /\ CloseRoom(x, n).gen.next = x.gen.next
           /\ n \in DOMAIN x.rooms =>
                \A s \in Members(x.rooms[n]) : s \in Session => CloseRoom(x, n).num[s] = NoNumber
<1>1. CASE n \notin DOMAIN x.rooms
  BY <1>1 DEF CloseRoom, Lower
<1>2. CASE n \in DOMAIN x.rooms
  <2> DEFINE f == Restrict(x.rooms, DOMAIN x.rooms \ {n})
             u == Unhoused(x.num, Members(x.rooms[n]))
             y == CloseRoom(x, n)
  <2>1. /\ x \in World /\ x.gen \in Generator /\ x.num \in [Session -> Slot]
    BY WorldFields DEF Good
  <2>2. y.rooms = f /\ y.num = u /\ y.ps = x.ps /\ y.gen = Released(x.gen, n)
    BY <1>2, <2>1 DEF CloseRoom, World
  <2>3. y.gen.next = x.gen.next
    BY <2>1, <2>2 DEF Released, Generator
  <2>4. /\ DOMAIN f = DOMAIN x.rooms \ {n} /\ \A k \in DOMAIN f : f[k] = x.rooms[k]
        /\ \A s \in Session : u[s] = IF s \in Members(x.rooms[n]) THEN NoNumber ELSE x.num[s]
    BY DEF Restrict, Unhoused
  <2>5. Agreed(x.rooms, x.num) => Agreed(f, u)
    BY <1>2, <2>1, CloseAgreed
  <2> HIDE DEF f, u, y
  <2>6. SeatsMatch(y)
    BY <2>2, <2>3, <2>4, <2>5 DEF SeatsMatch
  <2>7. (Lively(x) => Lively(y)) /\ (Honest(x) => Honest(y)) /\ Lower(x, y)
    BY <2>2, <2>3, <2>4 DEF Lively, Honest, Lower
  <2>8. QED
    BY <1>2, <2>2, <2>3, <2>4, <2>6, <2>7 DEF y
<1>3. QED
  BY <1>1, <1>2

\* A room of a good world.
LEMMA RoomIn ==
    ASSUME NEW x, Good(x), SeatsMatch(x), NEW n \in DOMAIN x.rooms
    PROVE  /\ x.rooms[n] \in RoomRecord /\ SeatedOnce(x.rooms[n])
           /\ x.num \in [Session -> Slot] /\ x.gen \in Generator /\ x \in World
           /\ Members(x.rooms[n]) \subseteq Session
           /\ x.gen.next <= MaxNumber =>
                n # NoNumber /\ \A s \in Session : s \in Members(x.rooms[n]) <=> x.num[s] = n
<1>1. x.rooms[n] \in RoomRecord
  BY WorldFields, TableType DEF Good
<1>2. QED
  BY <1>1, WorldFields, MembersType DEF SeatsMatch, Agreed, Good

\* What was done to a room is settled: those it let go have no room any more,
\* and when it is closed nobody has it.
LEMMA SettleSeats ==
    ASSUME NEW x, Good(x), SeatsMatch(x), NEW n \in DOMAIN x.rooms, NEW o \in Outcome,
           Keeps(x.rooms[n], o.room, o.gone)
    PROVE  /\ SeatsMatch(Settle(x, n, o)) /\ Lower(x, Settle(x, n, o))
           /\ Settle(x, n, o).gen.next = x.gen.next
           /\ Lively(x) => Lively(Settle(x, n, o))
           /\ (Told(x.rooms[n], x.ps) => Told(o.room, x.ps)) /\ Honest(x)
              => Honest(Settle(x, n, o))
           /\ \A s \in Session : s \in o.gone \/ (o.close /\ s \in Members(x.rooms[n]))
                                 => Settle(x, n, o).num[s] = NoNumber
<1> DEFINE f == [x.rooms EXCEPT ![n] = o.room]
           u == Unhoused(x.num, o.gone)
           y == [Put(x, n, o.room) EXCEPT !.num = Unhoused(@, o.gone)]
           G == o.gone
<1>1. /\ x.rooms[n] \in RoomRecord /\ SeatedOnce(x.rooms[n]) /\ x \in World
      /\ x.num \in [Session -> Slot]
      /\ o.room \in RoomRecord /\ o.close \in BOOLEAN /\ G \subseteq Session
  BY RoomIn DEF Outcome
<1>2. /\ SeatedOnce(o.room) /\ G \subseteq Members(x.rooms[n])
      /\ Members(o.room) = Members(x.rooms[n]) \ G
      /\ (Alive(x.rooms[n]) => Alive(o.room))
  BY DEF Keeps
<1>3. y.rooms = f /\ y.num = u /\ y.ps = x.ps /\ y.gen = x.gen
  BY <1>1 DEF World, Put
<1>4. /\ DOMAIN f = DOMAIN x.rooms /\ f[n] = o.room
      /\ \A k \in DOMAIN f : k # n => f[k] = x.rooms[k]
      /\ \A s \in Session : u[s] = IF s \in G THEN NoNumber ELSE x.num[s]
  BY DEF Unhoused
<1>5. Agreed(x.rooms, x.num) => Agreed(f, u)
  BY <1>1, <1>2, ChangeAgreed
<1>6. Good(y)
  <2>1. [o EXCEPT !.close = FALSE] \in Outcome
    BY DEF Outcome
  <2>2. Settle(x, n, [o EXCEPT !.close = FALSE]) = y
    BY DEF Settle, Outcome
  <2>3. QED
    BY <2>1, <2>2, SettleGood
<1>7. Settle(x, n, o) = IF o.close THEN CloseRoom(y, n) ELSE y
  BY DEF Settle
<1> HIDE DEF f, u, y, G
<1>8. SeatsMatch(y) /\ Lower(x, y) /\ (Lively(x) => Lively(y))
  BY <1>2, <1>3, <1>4, <1>5 DEF SeatsMatch, Lower, Lively
<1>9. (Told(x.rooms[n], x.ps) => Told(o.room, x.ps)) /\ Honest(x) => Honest(y)
  BY <1>3, <1>4 DEF Honest
<1>10. /\ SeatsMatch(CloseRoom(y, n)) /\ Lower(y, CloseRoom(y, n))
       /\ (Lively(y) => Lively(CloseRoom(y, n))) /\ (Honest(y) => Honest(CloseRoom(y, n)))
       /\ CloseRoom(y, n).gen.next = y.gen.next
       /\ \A s \in Members(o.room) : s \in Session => CloseRoom(y, n).num[s] = NoNumber
  BY <1>3, <1>4, <1>6, <1>8, CloseRoomSeats
<1>11. CASE ~o.close
  <2>1. Settle(x, n, o) = y
    BY <1>7, <1>11
  <2> HIDE DEF Settle
  <2>2. y.gen.next = x.gen.next /\ \A s \in Session : s \in o.gone => y.num[s] = NoNumber
    BY <1>3, <1>4 DEF G
  <2>3. QED
    BY <1>8, <1>9, <1>11, <2>1, <2>2
<1>12. CASE o.close
  <2> DEFINE z == CloseRoom(y, n)
  <2>1. Settle(x, n, o) = z
    BY <1>7, <1>12
  <2>2. /\ SeatsMatch(z) /\ Lower(y, z) /\ z.gen.next = y.gen.next
        /\ (Lively(y) => Lively(z)) /\ (Honest(y) => Honest(z))
        /\ \A s \in Members(o.room) : s \in Session => z.num[s] = NoNumber
    BY <1>10
  <2> HIDE DEF z
  <2>3. Lower(x, z) /\ z.gen.next = x.gen.next
    BY <1>3, <1>8, <2>2 DEF Lower
  <2>4. ASSUME NEW s \in Session, s \in o.gone \/ s \in Members(x.rooms[n])
        PROVE  z.num[s] = NoNumber
    <3>1. CASE s \in o.gone
      <4>1. y.num[s] = NoNumber
        BY <1>3, <1>4, <3>1 DEF G
      <4>2. QED
        BY <2>2, <4>1 DEF Lower
    <3>2. CASE s \notin o.gone
      BY <1>2, <2>2, <2>4, <3>2 DEF G
    <3>3. QED
      BY <3>1, <3>2
  <2> HIDE DEF Settle
  <2>5. QED
    BY <1>8, <1>9, <1>12, <2>1, <2>2, <2>3, <2>4
<1>13. QED
  BY <1>11, <1>12

\* The rooms that are left are those there were, but for the one settled.
LEMMA SettledRooms ==
    ASSUME NEW x \in World, NEW n \in DOMAIN x.rooms, NEW o \in Outcome
    PROVE  \A k \in DOMAIN Settle(x, n, o).rooms :
              /\ k \in DOMAIN x.rooms
              /\ k # n => Settle(x, n, o).rooms[k] = x.rooms[k]
              /\ k = n => ~o.close /\ Settle(x, n, o).rooms[n] = o.room
<1> DEFINE f == [x.rooms EXCEPT ![n] = o.room]
           y == [Put(x, n, o.room) EXCEPT !.num = Unhoused(@, o.gone)]
<1>1. y.rooms = f /\ y.gen = x.gen
  BY DEF World, Put
<1>2. CloseRoom(y, n).rooms = Restrict(f, DOMAIN f \ {n})
  <2>1. n \in DOMAIN y.rooms
    BY <1>1
  <2>2. CloseRoom(y, n).rooms = Restrict(y.rooms, DOMAIN y.rooms \ {n})
    BY <2>1 DEF CloseRoom, Put, World
  <2>3. QED
    BY <1>1, <2>2
<1>3. o.close \in BOOLEAN
  BY DEF Outcome
<1>4. CASE o.close
  BY <1>2, <1>4 DEF Settle, Restrict
<1>5. CASE ~o.close
  BY <1>1, <1>5 DEF Settle
<1>6. QED
  BY <1>3, <1>4, <1>5

\* setStateFor on one member.
LEMMA SetStateInSeats ==
    ASSUME NEW x, Good(x), SeatsMatch(x), NEW n \in DOMAIN x.rooms, NEW s \in Session, NEW v,
           InMatch(v) => x.rooms[n].started
    PROVE  /\ SeatsMatch(SetStateIn(x, n, {s}, v)) /\ Lower(x, SetStateIn(x, n, {s}, v))
           /\ SetStateIn(x, n, {s}, v).gen = x.gen
           /\ Onward(x, SetStateIn(x, n, {s}, v))
<1> DEFINE r == x.rooms[n]
           t == SetStateFor(r, {s}, v)
           f == [x.rooms EXCEPT ![n] = t]
           w == [k \in Session |-> IF k \in {s} \cap Members(r) THEN v ELSE x.ps[k]]
           y == SetStateIn(x, n, {s}, v)
<1>1. /\ r \in RoomRecord /\ SeatedOnce(r) /\ Members(r) \subseteq Session /\ x \in World
  BY RoomIn
<1>2. y.rooms = f /\ y.gen = x.gen /\ y.num = x.num /\ y.ps = w
  BY <1>1 DEF SetStateIn, Put, World
<1>3. /\ Keeps(r, t, {}) /\ Members(t) = Members(r) /\ SeatedOnce(t)
  BY <1>1, SetStateForKeeps DEF Keeps
<1>4. /\ DOMAIN f = DOMAIN x.rooms /\ f[n] = t
      /\ \A k \in DOMAIN f : k # n => f[k] = x.rooms[k]
      /\ \A k \in Session : w[k] = IF k \in {s} \cap Members(r) THEN v ELSE x.ps[k]
  OBVIOUS
<1>5. Told(r, x.ps) => Told(t, w)
  <2>1. \A k \in Members(r) : w[k] = IF k \in {s} THEN v ELSE x.ps[k]
    BY <1>1, <1>4
  <2> HIDE DEF w
  <2>2. QED
    BY <1>1, <2>1, SetStateForTold
<1>6. y.gen.next <= MaxNumber =>
        \A k \in DOMAIN f : k # n => \A m \in Members(f[k]) : w[m] = x.ps[m]
  <2> SUFFICES ASSUME y.gen.next <= MaxNumber, NEW k \in DOMAIN f, k # n, NEW m \in Members(f[k])
               PROVE  w[m] = x.ps[m]
    OBVIOUS
  <2>1. f[k] = x.rooms[k] /\ k \in DOMAIN x.rooms
    BY <1>4
  <2>2. m \in Session /\ x.num[m] = k
    BY <1>2, <2>1, RoomIn
  <2>3. m \notin Members(r)
    BY <1>2, <2>2, RoomIn
  <2>4. QED
    BY <1>4, <2>2, <2>3
<1> HIDE DEF t, f, w, y, r
<1>7. SeatsMatch(y)
  <2>1. Agreed(x.rooms, x.num) => Agreed(f, x.num)
    BY <1>3, <1>4 DEF Agreed, r
  <2>2. QED
    BY <1>2, <1>3, <1>4, <2>1 DEF SeatsMatch
<1>8. Lively(x) => Lively(y)
  BY <1>2, <1>3, <1>4 DEF Lively, Keeps, r
<1>9. Honest(x) => Honest(y)
  <2> SUFFICES ASSUME Honest(x), y.gen.next <= MaxNumber, NEW k \in DOMAIN f
               PROVE  Told(f[k], w)
    BY <1>2 DEF Honest
  <2>1. CASE k = n
    BY <1>2, <1>4, <1>5, <2>1 DEF Honest, r
  <2>2. CASE k # n
    <3>1. Told(f[k], x.ps)
      BY <1>2, <1>4, <2>2 DEF Honest
    <3>2. QED
      BY <1>6, <2>2, <3>1, ToldStill
  <2>3. QED
    BY <2>1, <2>2
<1>10. QED
  BY <1>2, <1>7, <1>8, <1>9 DEF Onward, Lower, y

\* From x, session s has been told to leave: it has no player's seat any more,
\* if no votekick runs.
Left(x, y, s) ==
    Lively(x) /\ y.gen.next <= MaxNumber =>
        \A n \in DOMAIN y.rooms : s \notin LiveIn(y.rooms[n].players)

\* A world after a handler that lets sessions out.
After(x, y) == SeatsMatch(y) /\ Lower(x, y) /\ y.gen.next = x.gen.next /\ Onward(x, y)

LEMMA FairSettled ==
    ASSUME NEW x, Good(x), SeatsMatch(x), NEW n \in DOMAIN x.rooms, NEW o \in Outcome,
           Fair(x.rooms[n], o, x.ps)
    PROVE  After(x, Settle(x, n, o))
BY SettleSeats DEF After, Onward, Fair

\* A target that tries to leave: the match ends under the others, so nothing is
\* said of what their seats show.
LEMMA LeaveAsTargetSeats ==
    ASSUME NEW x, Good(x), SeatsMatch(x), NEW n \in DOMAIN x.rooms, NEW s \in Session,
           x.rooms[n].vkTarget = s, NEW y \in LeaveAsTarget(x, n, s)
    PROVE  After(x, y) /\ Left(x, y, s)
<1> DEFINE r == x.rooms[n]
<1>1. r \in RoomRecord /\ SeatedOnce(r)
  BY RoomIn
<1>2. PICK o \in VotekickPlayer(r, s, x.ps) :
          y = Settle(x, n, [o EXCEPT !.room = ResetVotekick(@)])
  BY DEF LeaveAsTarget
<1>3. o \in Outcome /\ Fair(r, o, x.ps)
  BY <1>1, <1>2, VotekickPlayerType, VotekickFair
<1> DEFINE p == [o EXCEPT !.room = ResetVotekick(@)]
<1>4. p.room = ResetVotekick(o.room) /\ p.gone = o.gone /\ o.room \in RoomRecord
  BY <1>3 DEF Outcome
<1>5. p \in Outcome
  BY <1>3, <1>4, ChangesType DEF Outcome
<1>6. Keeps(r, o.room, o.gone) /\ Keeps(o.room, p.room, {})
  BY <1>3, <1>4, ClearVoteKeeps DEF Fair, Keeps
<1>7. Keeps(r, p.room, p.gone)
  BY <1>4, <1>6 DEF Keeps
<1>8. ~Alive(r)
  BY RoomAssumption DEF Alive
<1> HIDE DEF p
<1>9. /\ SeatsMatch(y) /\ Lower(x, y) /\ y.gen.next = x.gen.next
  BY <1>2, <1>5, <1>7, SettleSeats DEF p
<1>10. Lively(x) => ~(y.gen.next <= MaxNumber)
  BY <1>8, <1>9 DEF Lively
<1>11. QED
  BY <1>9, <1>10 DEF After, Onward, Left, Lively, Honest

\* handleRoomLeave.
LEMMA RoomLeaveSeats ==
    ASSUME NEW x, Good(x), SeatsMatch(x), NEW s \in Session, NEW y \in RoomLeave(x, s)
    PROVE  After(x, y) /\ Left(x, y, s)
<1> DEFINE n == x.num[s]
<1>1. CASE n \notin DOMAIN x.rooms
  <2>1. y = x
    BY <1>1 DEF RoomLeave
  <2>2. After(x, y)
    BY <2>1 DEF After, Lower, Onward
  <2>3. ASSUME x.gen.next <= MaxNumber, NEW k \in DOMAIN x.rooms
        PROVE  s \notin LiveIn(x.rooms[k].players)
    BY <1>1, <2>3 DEF SeatsMatch, Agreed, Members
  <2>4. QED
    BY <2>1, <2>2, <2>3 DEF Left
<1>2. CASE n \in DOMAIN x.rooms /\ x.rooms[n].vkTarget = s
  BY <1>2, LeaveAsTargetSeats DEF RoomLeave
<1>3. CASE n \in DOMAIN x.rooms /\ x.rooms[n].vkTarget # s
  <2>1. x.rooms[n] \in RoomRecord /\ SeatedOnce(x.rooms[n]) /\ x \in World
    BY <1>3, RoomIn
  <2>2. PICK o \in RemovePlayer(x.rooms[n], s, x.ps) : y = Settle(x, n, o)
    BY <1>3 DEF RoomLeave
  <2>3. /\ o \in Outcome /\ Fair(x.rooms[n], o, x.ps)
        /\ o.close \/ s \notin LiveIn(o.room.players)
    BY <2>1, <2>2, RemovePlayerType, RemovePlayerFair
  <2>4. After(x, y)
    BY <1>3, <2>2, <2>3, FairSettled
  <2>5. ASSUME y.gen.next <= MaxNumber, NEW k \in DOMAIN y.rooms
        PROVE  s \notin LiveIn(y.rooms[k].players)
    <3>1. /\ k \in DOMAIN x.rooms /\ (k # n => y.rooms[k] = x.rooms[k])
          /\ k = n => ~o.close /\ y.rooms[n] = o.room
      BY <1>3, <2>1, <2>2, <2>3, <2>5, SettledRooms
    <3>2. CASE k = n
      BY <2>3, <3>1, <3>2
    <3>3. CASE k # n
      <4>1. x.gen.next <= MaxNumber
        BY <2>4, <2>5 DEF After
      <4>2. s \notin Members(x.rooms[k])
        BY <3>1, <3>3, <4>1, RoomIn
      <4>3. QED
        BY <3>1, <3>3, <4>2 DEF Members
    <3>4. QED
      BY <3>2, <3>3
  <2>6. QED
    BY <2>4, <2>5 DEF Left
<1>4. QED
  BY <1>1, <1>2, <1>3

\* handleMatchLeave.
LEMMA MatchLeaveSeats ==
    ASSUME NEW x, Good(x), SeatsMatch(x), NEW s \in Session, NEW y \in MatchLeave(x, s)
    PROVE  After(x, y)
<1> DEFINE n == x.num[s]
<1>1. CASE n \notin DOMAIN x.rooms
  BY <1>1 DEF MatchLeave, After, Lower, Onward
<1>2. CASE n \in DOMAIN x.rooms /\ x.rooms[n].vkTarget = s
  BY <1>2, LeaveAsTargetSeats DEF MatchLeave
<1>3. CASE n \in DOMAIN x.rooms /\ x.rooms[n].vkTarget # s
  <2>1. x.rooms[n] \in RoomRecord /\ SeatedOnce(x.rooms[n])
    BY <1>3, RoomIn
  <2>2. CASE IsHost(x.rooms[n], s)
    <3>1. PICK o \in RemoveHostFromMatch(x.rooms[n], x.ps) : y = Settle(x, n, o)
      BY <1>3, <2>2 DEF MatchLeave
    <3>2. o \in Outcome /\ Fair(x.rooms[n], o, x.ps)
      BY <2>1, <3>1, RemoveHostFromMatchType, RemoveHostFair
    <3>3. QED
      BY <1>3, <3>1, <3>2, FairSettled
  <2>3. CASE ~IsHost(x.rooms[n], s)
    <3>1. y = SetStateIn(x, n, {s}, "WAITING") /\ ~InMatch("WAITING")
      BY <1>3, <2>3 DEF MatchLeave, InMatch
    <3>2. QED
      BY <1>3, <3>1, SetStateInSeats DEF After
  <2>4. QED
    BY <2>2, <2>3
<1>4. QED
  BY <1>1, <1>2, <1>3

\* The end of a session object: its seats are ghosts' at most, and none is left
\* among the players when it had been told to leave.
LEMMA DestroyedSeats ==
    ASSUME NEW x, Good(x), SeatsMatch(x), NEW s \in Session
    PROVE  LET z == Destroyed(x, s)
           IN  /\ SeatsMatch(z) /\ z.gen.next = x.gen.next /\ (Honest(x) => Honest(z))
               /\ z.num = [x.num EXCEPT ![s] = NoNumber]
               /\ (\A n \in DOMAIN x.rooms : s \notin LiveIn(x.rooms[n].players))
                  /\ Lively(x) => Lively(z)
<1> DEFINE f == [n \in DOMAIN x.rooms |-> Expired(x.rooms[n], s)]
           u == [x.num EXCEPT ![s] = NoNumber]
           w == [x.ps EXCEPT ![s] = "EXIT"]
           z == Destroyed(x, s)
<1>1. x \in World /\ x.num \in [Session -> Slot] /\ x.ps \in [Session -> State]
  BY WorldFields DEF Good
<1>2. z.rooms = f /\ z.num = u /\ z.ps = w /\ z.gen = x.gen
  BY <1>1 DEF Destroyed, World
<1>3. /\ DOMAIN f = DOMAIN x.rooms
      /\ \A k \in Session : u[k] = IF k = s THEN NoNumber ELSE x.num[k]
      /\ \A k \in Session : k # s => w[k] = x.ps[k]
  BY <1>1
<1>4. ASSUME NEW n \in DOMAIN f
      PROVE  /\ SeatedOnce(f[n]) /\ Members(f[n]) = Members(x.rooms[n]) \ {s}
             /\ Alive(x.rooms[n]) /\ s \notin LiveIn(x.rooms[n].players) => Alive(f[n])
             /\ Told(x.rooms[n], x.ps) => Told(f[n], w)
  <2>1. /\ x.rooms[n] \in RoomRecord /\ SeatedOnce(x.rooms[n])
        /\ Members(x.rooms[n]) \subseteq Session /\ f[n] = Expired(x.rooms[n], s)
    BY RoomIn
  <2>2. \A k \in Members(x.rooms[n]) : k # s => w[k] = x.ps[k]
    BY <1>3, <2>1
  <2> HIDE DEF f, w
  <2>3. QED
    BY <2>1, <2>2, ExpiredSeats
<1> HIDE DEF f, u, w, z
<1>5. Agreed(x.rooms, x.num) => Agreed(f, u)
  <2> SUFFICES ASSUME Agreed(x.rooms, x.num) PROVE Agreed(f, u)
    OBVIOUS
  <2>1. /\ NoNumber \notin DOMAIN f
        /\ \A k \in Session : u[k] # NoNumber => u[k] \in DOMAIN f
    BY <1>3 DEF Agreed
  <2>2. \A n \in DOMAIN f : \A k \in Session : k \in Members(f[n]) <=> u[k] = n
    BY <1>3, <1>4, <2>1 DEF Agreed
  <2>3. QED
    BY <2>1, <2>2 DEF Agreed
<1>6. SeatsMatch(z)
  BY <1>2, <1>3, <1>4, <1>5 DEF SeatsMatch
<1>7. Honest(x) => Honest(z)
  BY <1>2, <1>3, <1>4 DEF Honest
<1>8. (\A n \in DOMAIN x.rooms : s \notin LiveIn(x.rooms[n].players)) /\ Lively(x) => Lively(z)
  BY <1>2, <1>3, <1>4 DEF Lively
<1>9. QED
  BY <1>2, <1>6, <1>7, <1>8 DEF u, z

-----------------------------------------------------------------------------
(* The invariant, and what no votekick and truthful reports add to it.      *)

\* Only connected sessions are in rooms.
Housed == \A s \in Session : roomNum[s] # NoNumber => s \in online

SeatsInv == Inv /\ SeatsMatch(Now) /\ Housed

\* The clients report no state of the match, and the Cast server no other.
Orderly == (\A v \in ClientStates : ~InMatch(v)) /\ \A v \in CastStates : InMatch(v)

\* What a step keeps.
Advances ==
    /\ SeatsMatch(Now)' /\ Housed'
    /\ Voters = {} /\ Lively(Now) => Lively(Now)' /\ (Orderly /\ Honest(Now) => Honest(Now)')

LEMMA NowFields ==
    /\ Now.rooms = rooms /\ Now.gen = gen /\ Now.num = roomNum /\ Now.ps = pstate
    /\ Now'.rooms = rooms' /\ Now'.gen = gen' /\ Now'.num = roomNum' /\ Now'.ps = pstate'
BY DEF Now

LEMMA SeatsFacts ==
    ASSUME SeatsInv
    PROVE  /\ Inv /\ Good(Now) /\ SeatsMatch(Now) /\ Housed /\ online \subseteq Session
           /\ rooms \in RoomTables /\ gen \in Generator
           /\ roomNum \in [Session -> Slot] /\ pstate \in [Session -> State]
           /\ \A n \in DOMAIN rooms :
                 /\ rooms[n] \in RoomRecord /\ SeatedOnce(rooms[n])
                 /\ Members(rooms[n]) \subseteq Session
                 /\ NumbersLeft => n # NoNumber
                       /\ \A s \in Session : s \in Members(rooms[n]) <=> roomNum[s] = n
<1>1. Inv /\ Good(Now) /\ SeatsMatch(Now) /\ Housed /\ online \subseteq Session
  BY NowGood DEF SeatsInv
<1>2. /\ rooms \in RoomTables /\ gen \in Generator
      /\ roomNum \in [Session -> Slot] /\ pstate \in [Session -> State]
  BY <1>1, WorldFields, NowFields DEF Good
<1>3. ASSUME NEW n \in DOMAIN rooms
      PROVE  /\ rooms[n] \in RoomRecord /\ SeatedOnce(rooms[n])
             /\ Members(rooms[n]) \subseteq Session
             /\ NumbersLeft => n # NoNumber
                   /\ \A s \in Session : s \in Members(rooms[n]) <=> roomNum[s] = n
  BY <1>1, NowFields, RoomIn DEF NumbersLeft
<1>4. QED
  BY <1>1, <1>2, <1>3

\* What the next state's worlds say, of the variables.
LEMMA NextWorld ==
    /\ SeatsMatch(Now)' <=>
          /\ \A n \in DOMAIN rooms' : SeatedOnce(rooms'[n])
          /\ gen'.next <= MaxNumber => Agreed(rooms', roomNum')
    /\ Lively(Now)' <=> (gen'.next <= MaxNumber => \A n \in DOMAIN rooms' : Alive(rooms'[n]))
    /\ Honest(Now)' <=> (gen'.next <= MaxNumber => \A n \in DOMAIN rooms' : Told(rooms'[n], pstate'))
    /\ SeatsMatch(Now) <=>
          /\ \A n \in DOMAIN rooms : SeatedOnce(rooms[n])
          /\ NumbersLeft => Agreed(rooms, roomNum)
    /\ Lively(Now) <=> (NumbersLeft => \A n \in DOMAIN rooms : Alive(rooms[n]))
    /\ Honest(Now) <=> (NumbersLeft => \A n \in DOMAIN rooms : Told(rooms[n], pstate))
BY NowFields DEF SeatsMatch, Lively, Honest, NumbersLeft

LEMMA BecomeNow ==
    ASSUME NEW x \in World, Become(x)
    PROVE  /\ SeatsMatch(Now)' <=> SeatsMatch(x)
           /\ Lively(Now)' <=> Lively(x)
           /\ Honest(Now)' <=> Honest(x)
           /\ roomNum' = x.num
<1>1. rooms' = x.rooms /\ gen' = x.gen /\ roomNum' = x.num /\ pstate' = x.ps
  BY DEF Become
<1>2. QED
  BY <1>1, NextWorld DEF SeatsMatch, Lively, Honest

\* A handler that lets sessions out.
LEMMA AfterAdvances ==
    ASSUME SeatsInv, NEW x, Good(x), After(Now, x), Become(x), online' = online
    PROVE  Advances
<1>1. SeatsMatch(Now)' /\ roomNum' = x.num
  BY BecomeNow DEF After, Good
<1>2. Lively(Now) => Lively(Now)' /\ (Honest(Now) => Honest(Now)')
  BY BecomeNow DEF After, Onward, Good
<1>3. Housed'
  BY <1>1, NowFields DEF SeatsInv, Housed, After, Lower
<1>4. QED
  BY <1>1, <1>2, <1>3 DEF Advances

\* An outcome settled in a room.
LEMMA SettleAdvances ==
    ASSUME SeatsInv, NEW n \in DOMAIN rooms, NEW o \in Outcome, Fair(rooms[n], o, pstate),
           Become(Settle(Now, n, o)), online' = online
    PROVE  Advances
<1>1. Good(Now) /\ SeatsMatch(Now)
  BY SeatsFacts
<1>2. Good(Settle(Now, n, o)) /\ After(Now, Settle(Now, n, o))
  BY <1>1, NowFields, SettleGood, FairSettled
<1>3. QED
  BY <1>2, AfterAdvances

\* A step that changes one room, its members and what they are told.
LEMMA ChangeAdvances ==
    ASSUME SeatsInv, NEW n \in DOMAIN rooms, NEW t, NEW G, Keeps(rooms[n], t, G),
           rooms' = [rooms EXCEPT ![n] = t], roomNum' = Unhoused(roomNum, G),
           gen' = gen, online' = online,
           Orderly /\ NumbersLeft /\ Told(rooms[n], pstate) =>
               /\ Told(t, pstate')
               /\ \A s \in Session : s \notin Members(rooms[n]) => pstate'[s] = pstate[s]
    PROVE  Advances
<1>1. /\ roomNum \in [Session -> Slot] /\ SeatsMatch(Now) /\ Housed
      /\ \A k \in DOMAIN rooms : Members(rooms[k]) \subseteq Session
  BY SeatsFacts
<1>2. /\ DOMAIN rooms' = DOMAIN rooms /\ rooms'[n] = t
      /\ \A k \in DOMAIN rooms : k # n => rooms'[k] = rooms[k]
      /\ \A s \in Session : roomNum'[s] = IF s \in G THEN NoNumber ELSE roomNum[s]
  BY DEF Unhoused
<1>3. SeatedOnce(t) /\ G \subseteq Members(rooms[n]) /\ Members(t) = Members(rooms[n]) \ G
      /\ (Alive(rooms[n]) => Alive(t))
  BY DEF Keeps
<1>4. gen'.next <= MaxNumber <=> NumbersLeft
  BY DEF NumbersLeft
<1>5. Agreed(rooms, roomNum) => Agreed(rooms', roomNum')
  BY <1>1, <1>3, ChangeAgreed
<1>6. SeatsMatch(Now)'
  BY <1>1, <1>2, <1>3, <1>4, <1>5, NextWorld
<1>7. Housed'
  BY <1>1, <1>2 DEF Housed
<1>8. Lively(Now) => Lively(Now)'
  BY <1>2, <1>3, <1>4, NextWorld
<1>9. ASSUME Orderly, NumbersLeft, Honest(Now), NEW k \in DOMAIN rooms
      PROVE  Told(rooms'[k], pstate')
  <2>1. CASE k = n
    BY <1>2, <1>9, <2>1, NextWorld
  <2>2. CASE k # n
    <3>1. \A s \in Members(rooms[k]) : pstate'[s] = pstate[s]
      <4> SUFFICES ASSUME NEW s \in Members(rooms[k]) PROVE pstate'[s] = pstate[s]
        OBVIOUS
      <4>1. s \in Session /\ roomNum[s] = k
        BY <1>1, <1>9, SeatsFacts
      <4>2. s \notin Members(rooms[n])
        BY <1>9, <2>2, <4>1, SeatsFacts
      <4>3. Told(rooms[n], pstate)
        BY <1>9, NextWorld
      <4>4. QED
        BY <1>9, <4>1, <4>2, <4>3
    <3>2. Told(rooms[k], pstate)
      BY <1>9, NextWorld
    <3>3. QED
      BY <1>2, <2>2, <3>1, <3>2, ToldStill
  <2>3. QED
    BY <2>1, <2>2
<1>10. Orderly /\ Honest(Now) => Honest(Now)'
  BY <1>2, <1>4, <1>9, NextWorld
<1>11. QED
  BY <1>6, <1>7, <1>8, <1>10 DEF Advances

\* The same when nobody leaves and only the room changes.
LEMMA UpdateAdvances ==
    ASSUME SeatsInv, NEW s \in Session, InRoom(s), NEW t, Keeps(RoomOf(s), t, {}),
           NumbersLeft /\ Told(RoomOf(s), pstate) => Told(t, pstate), Update(s, t)
    PROVE  Advances
<1>1. roomNum[s] \in DOMAIN rooms /\ RoomOf(s) = rooms[roomNum[s]]
  BY DEF InRoom, RoomOf
<1>2. roomNum \in [Session -> Slot]
  BY SeatsFacts
<1>3. Unhoused(roomNum, {}) = roomNum
  BY <1>2 DEF Unhoused
<1>4. /\ rooms' = [rooms EXCEPT ![roomNum[s]] = t] /\ roomNum' = roomNum
      /\ gen' = gen /\ online' = online /\ pstate' = pstate
  BY DEF Update
<1>5. QED
  BY <1>1, <1>3, <1>4, ChangeAdvances

-----------------------------------------------------------------------------
(* Every action keeps the seats and the numbers in agreement.               *)

\* A session dies with its seats: out of the match, out of the room, gone.
LEMMA DisconnectAdvances ==
    ASSUME SeatsInv, NEW s \in Session, Disconnect(s)
    PROVE  Advances
<1>1. PICK x \in (IF roomNum[s] # NoNumber /\ InMatch(pstate[s])
                  THEN MatchLeave(Now, s) ELSE {Now}) :
        \E y \in (IF roomNum[s] # NoNumber THEN RoomLeave(x, s) ELSE {x}) :
            Become(Destroyed(y, s))
  BY DEF Disconnect
<1>2. PICK y \in (IF roomNum[s] # NoNumber THEN RoomLeave(x, s) ELSE {x}) :
        Become(Destroyed(y, s))
  BY <1>1
<1>3. Good(Now) /\ SeatsMatch(Now) /\ Housed /\ roomNum \in [Session -> Slot]
  BY SeatsFacts
<1>4. Good(x) /\ After(Now, x)
  BY <1>1, <1>3, MatchLeaveGood, MatchLeaveSeats DEF After, Lower, Onward
<1>5. Good(y) /\ After(x, y) /\ (roomNum[s] # NoNumber => Left(x, y, s))
  BY <1>2, <1>4, RoomLeaveGood, RoomLeaveSeats DEF After, Lower, Onward
<1> DEFINE z == Destroyed(y, s)
<1>6. /\ SeatsMatch(z) /\ z.gen.next = y.gen.next /\ (Honest(y) => Honest(z))
      /\ z.num = [y.num EXCEPT ![s] = NoNumber]
      /\ (\A n \in DOMAIN y.rooms : s \notin LiveIn(y.rooms[n].players)) /\ Lively(y)
         => Lively(z)
  BY <1>5, DestroyedSeats DEF After
<1>7. Good(z) /\ Become(z)
  BY <1>2, <1>5, DestroyedGood
<1> HIDE DEF z
<1>8. z \in World /\ y.num \in [Session -> Slot]
  BY <1>5, <1>7, WorldFields DEF Good
<1>9. SeatsMatch(Now)'
  BY <1>6, <1>7, <1>8, BecomeNow
<1>10. Housed'
  <2>1. roomNum' = [y.num EXCEPT ![s] = NoNumber]
    BY <1>6, <1>7, <1>8, BecomeNow
  <2>2. \A k \in Session : y.num[k] = roomNum[k] \/ y.num[k] = NoNumber
    BY <1>4, <1>5, NowFields DEF After, Lower
  <2>3. online' = online \ {s}
    BY DEF Disconnect
  <2>4. QED
    BY <1>3, <1>8, <2>1, <2>2, <2>3 DEF Housed
<1>11. ASSUME Lively(Now) PROVE Lively(z)
  <2>1. Lively(x) /\ Lively(y)
    BY <1>4, <1>5, <1>11 DEF After, Onward
  <2>2. CASE roomNum[s] # NoNumber
    <3>1. y.gen.next <= MaxNumber =>
            \A n \in DOMAIN y.rooms : s \notin LiveIn(y.rooms[n].players)
      BY <1>5, <2>1, <2>2 DEF Left
    <3>2. QED
      BY <1>6, <2>1, <3>1 DEF Lively
  <2>3. CASE roomNum[s] = NoNumber
    <3>1. y = Now
      BY <1>1, <1>2, <2>3
    <3>2. y.gen.next <= MaxNumber =>
            \A n \in DOMAIN y.rooms : s \notin LiveIn(y.rooms[n].players)
      BY <2>3, <3>1, NowFields, SeatsFacts DEF NumbersLeft, Members
    <3>3. QED
      BY <1>6, <2>1, <3>2 DEF Lively
  <2>4. QED
    BY <2>2, <2>3
<1>12. Lively(Now) => Lively(Now)'
  BY <1>7, <1>8, <1>11, BecomeNow
<1>13. Lively(Now) /\ Honest(Now) => Honest(Now)'
  <2>1. Lively(Now) /\ Honest(Now) => Honest(y)
    BY <1>4, <1>5 DEF After, Onward
  <2>2. QED
    BY <1>6, <1>7, <1>8, <2>1, BecomeNow
<1>14. QED
  BY <1>9, <1>10, <1>12, <1>13 DEF Advances

LEMMA ComingAdvances == ASSUME SeatsInv, Coming PROVE Advances
<1>1. ASSUME NEW s \in Session, Connect(s) PROVE Advances
  <2>1. /\ rooms' = rooms /\ gen' = gen /\ roomNum' = roomNum /\ pstate' = pstate
        /\ online' = online \cup {s}
    BY <1>1 DEF Connect
  <2>2. SeatsMatch(Now) /\ Housed
    BY SeatsFacts
  <2>3. (SeatsMatch(Now)' <=> SeatsMatch(Now)) /\ (Lively(Now)' <=> Lively(Now))
        /\ (Honest(Now)' <=> Honest(Now))
    BY <2>1, NextWorld DEF NumbersLeft
  <2>4. QED
    BY <2>1, <2>2, <2>3 DEF Advances, Housed
<1>2. QED
  BY <1>1, DisconnectAdvances DEF Coming

\* handleRoomCreation: nobody is in a room of that number yet, for a number that
\* generate() answers is nobody's.
LEMMA CreateRoomAdvances == ASSUME SeatsInv, NEW s \in Session, CreateRoom(s) PROVE Advances
<1> DEFINE n == Generated(gen)
<1>1. /\ roomNum \in [Session -> Slot] /\ SeatsMatch(Now) /\ Housed
      /\ rooms \in RoomTables /\ DOMAIN rooms \in SUBSET Slot
      /\ gen \in Generator /\ Numbered(gen, DOMAIN rooms)
  BY SeatsFacts, TableType, NowFields DEF Good
<1>2. MaxNumber \in Nat \ {0}
  BY MaxNumberAssumption
<1>3. /\ gen' = AfterGenerate(gen) /\ online' = online /\ s \in online /\ roomNum[s] = NoNumber
  BY DEF CreateRoom
<1>4. gen'.next <= MaxNumber => NumbersLeft /\ n # NoNumber
  <2>1. gen.next \in 1 .. (MaxNumber + 1) /\ gen.free \in Seq(Number)
    BY <1>1 DEF Generator
  <2>2. CASE gen.free # <<>>
    <3>1. Head(gen.free) \in Number
      BY <2>1, <2>2
    <3>2. gen'.next = gen.next /\ n = Head(gen.free)
      BY <1>1, <1>3, <2>2 DEF AfterGenerate, Generated, Generator
    <3>3. QED
      BY <3>1, <3>2 DEF NumbersLeft, Number, NoNumber
  <2>3. CASE gen.free = <<>> /\ gen.next <= MaxNumber
    BY <2>1, <2>3 DEF Generated, NumbersLeft, NoNumber
  <2>4. CASE gen.free = <<>> /\ ~(gen.next <= MaxNumber)
    BY <1>3, <2>4 DEF AfterGenerate
  <2>5. QED
    BY <2>2, <2>3, <2>4
<1>5. NumbersLeft => n \notin DOMAIN rooms
  <2>1. gen.next \in 1 .. (MaxNumber + 1) /\ gen.free \in Seq(Number)
    BY <1>1 DEF Generator
  <2>2. CASE gen.free # <<>>
    <3>1. Head(gen.free) = gen.free[1] /\ 1 \in DOMAIN gen.free /\ n = Head(gen.free)
      BY <2>1, <2>2 DEF Generated
    <3>2. QED
      BY <1>1, <3>1 DEF Numbered
  <2>3. CASE gen.free = <<>>
    <3>1. NumbersLeft => n = gen.next
      BY <2>3 DEF Generated, NumbersLeft
    <3>2. DOMAIN rooms \subseteq Nat
      BY <1>1, <1>2 DEF Slot, Number, NoNumber
    <3>3. QED
      BY <1>1, <2>1, <3>1, <3>2 DEF Numbered
  <2>4. QED
    BY <2>2, <2>3
<1> HIDE DEF n
<1>6. CASE UNCHANGED <<rooms, roomNum, pstate>>
  <2>1. rooms' = rooms /\ roomNum' = roomNum /\ pstate' = pstate
    BY <1>6
  <2>2. QED
    BY <1>1, <1>3, <1>4, <2>1, NextWorld DEF Advances, Housed
<1>7. CASE /\ \E observersOn \in BOOLEAN :
                rooms' = [k \in DOMAIN rooms \cup {n} |->
                             IF k = n THEN NewRoom(s, observersOn) ELSE rooms[k]]
           /\ roomNum' = [roomNum EXCEPT ![s] = n]
           /\ pstate' = [pstate EXCEPT ![s] = "WAITING"]
  <2>1. PICK b \in BOOLEAN :
          rooms' = [k \in DOMAIN rooms \cup {n} |-> IF k = n THEN NewRoom(s, b) ELSE rooms[k]]
    BY <1>7
  <2>2. /\ DOMAIN rooms' = DOMAIN rooms \cup {n} /\ rooms'[n] = NewRoom(s, b)
        /\ \A k \in DOMAIN rooms : k # n => rooms'[k] = rooms[k]
    BY <2>1
  <2>3. /\ \A k \in Session : roomNum'[k] = IF k = s THEN n ELSE roomNum[k]
        /\ \A k \in Session : k # s => pstate'[k] = pstate[k]
    BY <1>1, <1>7, SeatsFacts
  <2>4. /\ SeatedOnce(rooms'[n]) /\ Members(rooms'[n]) = {s}
        /\ Alive(rooms'[n]) /\ Told(rooms'[n], pstate')
    BY <2>2, NewRoomFair
  <2>5. \A k \in DOMAIN rooms : SeatedOnce(rooms[k])
    BY SeatsFacts
  <2>6. ASSUME gen'.next <= MaxNumber PROVE Agreed(rooms', roomNum')
    <3>1. n # NoNumber /\ n \notin DOMAIN rooms /\ Agreed(rooms, roomNum)
      BY <1>1, <1>4, <1>5, <2>6, NextWorld
    <3>2. /\ NoNumber \notin DOMAIN rooms'
          /\ \A k \in Session : roomNum'[k] # NoNumber => roomNum'[k] \in DOMAIN rooms'
      BY <2>2, <2>3, <3>1 DEF Agreed
    <3>3. ASSUME NEW j \in DOMAIN rooms', NEW k \in Session
          PROVE  k \in Members(rooms'[j]) <=> roomNum'[k] = j
      <4>1. CASE j = n
        <5>1. k # s => roomNum[k] # n
          BY <3>1 DEF Agreed
        <5>2. QED
          BY <2>3, <2>4, <4>1, <5>1
      <4>2. CASE j # n
        <5>1. j \in DOMAIN rooms /\ rooms'[j] = rooms[j] /\ j # NoNumber
          BY <2>2, <3>2, <4>2
        <5>2. k \in Members(rooms[j]) <=> roomNum[k] = j
          BY <3>1, <5>1 DEF Agreed
        <5>3. QED
          BY <1>3, <2>3, <4>2, <5>1, <5>2
      <4>3. QED
        BY <4>1, <4>2
    <3>4. QED
      BY <3>2, <3>3 DEF Agreed
  <2>7. SeatsMatch(Now)'
    BY <2>2, <2>4, <2>5, <2>6, NextWorld
  <2>8. Housed'
    BY <1>1, <1>3, <2>3 DEF Housed
  <2>9. Lively(Now) => Lively(Now)'
    BY <1>4, <2>2, <2>4, NextWorld
  <2>10. ASSUME Honest(Now), gen'.next <= MaxNumber, NEW j \in DOMAIN rooms'
         PROVE  Told(rooms'[j], pstate')
    <3>1. CASE j = n
      BY <2>4, <3>1
    <3>2. CASE j # n
      <4>1. j \in DOMAIN rooms /\ rooms'[j] = rooms[j] /\ Told(rooms[j], pstate) /\ NumbersLeft
        BY <1>4, <2>2, <2>10, <3>2, NextWorld
      <4>2. \A k \in Members(rooms[j]) : k \in Session /\ k # s
        BY <1>3, <4>1, SeatsFacts
      <4>3. QED
        BY <2>3, <4>1, <4>2, ToldStill
    <3>3. QED
      BY <3>1, <3>2
  <2>11. Honest(Now) => Honest(Now)'
    BY <2>10, NextWorld
  <2>12. QED
    BY <2>7, <2>8, <2>9, <2>11 DEF Advances
<1>8. QED
  BY <1>6, <1>7 DEF CreateRoom, n

\* handleRoomJoin and /join: a seat for a session that is in no room.
LEMMA TakeSeatAdvances ==
    ASSUME SeatsInv, NEW s \in Session, NEW n \in DOMAIN rooms, MayEnter(s, n),
           NEW b \in BOOLEAN, TakeSeat(s, n, b)
    PROVE  Advances
<1>1. /\ roomNum \in [Session -> Slot] /\ SeatsMatch(Now) /\ Housed
      /\ \A k \in DOMAIN rooms : rooms[k] \in RoomRecord /\ SeatedOnce(rooms[k])
  BY SeatsFacts
<1>2. /\ s \in online /\ roomNum[s] = NoNumber /\ n # NoNumber /\ s \notin Members(rooms[n])
  BY DEF MayEnter
<1>3. PICK t \in {[rooms[n] EXCEPT !.observers = Append(@, NewSeat(s))],
                  [rooms[n] EXCEPT !.players = Append(@, NewSeat(s))]} : Enter(s, n, t)
  BY DEF TakeSeat
<1>4. /\ SeatedOnce(t) /\ Members(t) = Members(rooms[n]) \cup {s}
      /\ (Alive(rooms[n]) => Alive(t)) /\ \A ps : Told(rooms[n], ps) => Told(t, ps)
  <2> DEFINE r == rooms[n]
  <2>1. r \in RoomRecord /\ SeatedOnce(r) /\ s \notin Members(r)
    BY <1>1, <1>2
  <2>2. \/ t = [r EXCEPT !.observers = Append(@, NewSeat(s))]
        \/ t = [r EXCEPT !.players = Append(@, NewSeat(s))]
    BY <1>3
  <2> HIDE DEF r
  <2>3. /\ SeatedOnce(t) /\ Members(t) = Members(r) \cup {s}
        /\ (Alive(r) => Alive(t)) /\ \A ps : Told(r, ps) => Told(t, ps)
    BY <2>1, <2>2, SeatTaken
  <2>4. QED
    BY <2>3 DEF r
<1>5. /\ rooms' = [rooms EXCEPT ![n] = t] /\ roomNum' = [roomNum EXCEPT ![s] = n]
      /\ gen' = gen /\ pstate' = pstate /\ online' = online
  BY <1>3 DEF Enter
<1> HIDE DEF MayEnter, TakeSeat, Enter
<1>6. /\ DOMAIN rooms' = DOMAIN rooms /\ rooms'[n] = t
      /\ \A k \in DOMAIN rooms : k # n => rooms'[k] = rooms[k]
      /\ \A k \in Session : roomNum'[k] = IF k = s THEN n ELSE roomNum[k]
  BY <1>1, <1>5
<1>7. (gen'.next <= MaxNumber <=> NumbersLeft)
  BY <1>5 DEF NumbersLeft
<1>8. ASSUME Agreed(rooms, roomNum) PROVE Agreed(rooms', roomNum')
  <2>1. /\ NoNumber \notin DOMAIN rooms'
        /\ \A k \in Session : roomNum'[k] # NoNumber => roomNum'[k] \in DOMAIN rooms'
    BY <1>6, <1>8 DEF Agreed
  <2>2. ASSUME NEW j \in DOMAIN rooms', NEW k \in Session
        PROVE  k \in Members(rooms'[j]) <=> roomNum'[k] = j
    <3>1. k \in Members(rooms[j]) <=> roomNum[k] = j
      BY <1>6, <1>8 DEF Agreed
    <3>2. j # NoNumber
      BY <2>1
    <3>3. CASE j = n
      BY <1>4, <1>6, <3>1, <3>3
    <3>4. CASE j # n
      BY <1>2, <1>6, <3>1, <3>2, <3>4
    <3>5. QED
      BY <3>3, <3>4
  <2>3. QED
    BY <2>1, <2>2 DEF Agreed
<1>9. SeatsMatch(Now)'
  BY <1>1, <1>4, <1>6, <1>7, <1>8, NextWorld
<1>10. Housed'
  BY <1>1, <1>2, <1>5, <1>6 DEF Housed
<1>11. (Lively(Now) => Lively(Now)') /\ (Honest(Now) => Honest(Now)')
  BY <1>4, <1>5, <1>6, <1>7, NextWorld
<1>12. QED
  BY <1>9, <1>10, <1>11 DEF Advances

LEMMA JoinAdvances ==
    ASSUME SeatsInv, NEW s \in Session, NEW n \in DOMAIN rooms, JoinRoom(s, n) \/ JoinInvisible(s, n)
    PROVE  Advances
<1>1. MayEnter(s, n) /\ \E b \in BOOLEAN : TakeSeat(s, n, b)
  BY DEF JoinRoom, JoinInvisible
<1>2. QED
  BY <1>1, TakeSeatAdvances

LEMMA JoinFriendAdvances ==
    ASSUME SeatsInv, NEW s \in Session, NEW t \in Session, JoinFriend(s, t)
    PROVE  Advances
BY JoinAdvances DEF JoinFriend

\* handleRoomLeave and handleMatchLeave, asked for by the client.
LEMMA LeaveAdvances ==
    ASSUME SeatsInv, NEW s \in Session, LeaveRoom(s) \/ LeaveMatch(s)
    PROVE  Advances
<1>1. Good(Now) /\ SeatsMatch(Now) /\ online' = online
  BY SeatsFacts DEF LeaveRoom, LeaveMatch
<1>2. PICK x \in RoomLeave(Now, s) \cup MatchLeave(Now, s) : Become(x)
  BY DEF LeaveRoom, LeaveMatch
<1>3. Good(x) /\ After(Now, x)
  BY <1>1, <1>2, RoomLeaveGood, MatchLeaveGood, RoomLeaveSeats, MatchLeaveSeats
<1>4. QED
  BY <1>1, <1>2, <1>3, AfterAdvances

\* handleRoomLeave with KICK_PLAYER: what is settled is the outcome for a room
\* whose kick list has grown.
LEMMA KickPlayerAdvances ==
    ASSUME SeatsInv, NEW s \in Session, NEW t \in Session, KickPlayer(s, t)
    PROVE  Advances
<1>1. /\ InRoom(s) /\ online' = online /\ roomNum[s] \in DOMAIN rooms
      /\ RoomOf(s) = rooms[roomNum[s]]
  BY DEF KickPlayer, InRoom, RoomOf
<1>2. RoomOf(s) \in RoomRecord /\ SeatedOnce(RoomOf(s)) /\ Good(Now) /\ SeatsMatch(Now)
  BY <1>1, SeatsFacts
<1>3. CASE \E x \in RoomLeave(Now, s) : Become(x)
  BY <1>1, <1>2, <1>3, RoomLeaveGood, RoomLeaveSeats, AfterAdvances
<1>4. CASE \E o \in RemovePlayer([RoomOf(s) EXCEPT !.kicked = @ \cup {t}], t, pstate) :
              Become(Settle(Now, roomNum[s], IgnoreClose(o)))
  <2> DEFINE u == [RoomOf(s) EXCEPT !.kicked = @ \cup {t}]
  <2>1. PICK o \in RemovePlayer(u, t, pstate) : Become(Settle(Now, roomNum[s], IgnoreClose(o)))
    BY <1>4
  <2>2. /\ u \in RoomRecord /\ Keeps(RoomOf(s), u, {})
        /\ Told(RoomOf(s), pstate) => Told(u, pstate)
    BY <1>2, KickedKeeps
  <2> HIDE DEF u
  <2>3. o \in Outcome /\ Fair(u, o, pstate)
    BY <2>1, <2>2, RemovePlayerType, RemovePlayerFair DEF Keeps
  <2>4. Fair(RoomOf(s), o, pstate)
    BY <2>2, <2>3, KeepsThen DEF Fair
  <2>5. IgnoreClose(o) \in Outcome /\ Fair(RoomOf(s), IgnoreClose(o), pstate)
    BY <2>3, <2>4, IgnoreCloseType, IgnoreCloseFair
  <2>6. QED
    BY <1>1, <2>1, <2>5, SettleAdvances
<1>5. QED
  BY <1>3, <1>4 DEF KickPlayer

\* getRoomsList.
LEMMA ListRoomsAdvances == ASSUME SeatsInv, ListRooms PROVE Advances
<1> DEFINE empty == {n \in DOMAIN rooms : rooms[n].players = <<>>}
           G == UNION {Members(rooms[n]) : n \in empty}
<1>1. /\ rooms' = Restrict(rooms, DOMAIN rooms \ empty) /\ roomNum' = Unhoused(roomNum, G)
      /\ gen' = gen /\ pstate' = pstate /\ online' = online
  BY DEF ListRooms
<1>2. empty \in SUBSET DOMAIN rooms /\ roomNum \in [Session -> Slot] /\ SeatsMatch(Now) /\ Housed
  BY SeatsFacts
<1> HIDE DEF empty
<1>3. /\ DOMAIN rooms' = DOMAIN rooms \ empty /\ \A k \in DOMAIN rooms' : rooms'[k] = rooms[k]
      /\ \A s \in Session : roomNum'[s] = roomNum[s] \/ roomNum'[s] = NoNumber
  BY <1>1 DEF Restrict, Unhoused
<1>4. Agreed(rooms, roomNum) => Agreed(rooms', roomNum')
  BY <1>1, <1>2, DropAgreed
<1>5. gen'.next <= MaxNumber <=> NumbersLeft
  BY <1>1 DEF NumbersLeft
<1>6. SeatsMatch(Now)' /\ Housed'
  BY <1>1, <1>2, <1>3, <1>4, <1>5, NextWorld DEF Housed
<1>7. (Lively(Now) => Lively(Now)') /\ (Honest(Now) => Honest(Now)')
  BY <1>1, <1>3, <1>5, NextWorld
<1>8. QED
  BY <1>6, <1>7 DEF Advances

LEMMA MovingAdvances == ASSUME SeatsInv, Moving PROVE Advances
BY KickPlayerAdvances, JoinFriendAdvances, CreateRoomAdvances, LeaveAdvances, JoinAdvances,
   ListRoomsAdvances DEF Moving

\* A room is closed by a moderator.
LEMMA CloseAdvances ==
    ASSUME SeatsInv, NEW n, Become(CloseRoom(Now, n)), online' = online
    PROVE  Advances
<1>1. Good(Now) /\ SeatsMatch(Now)
  BY SeatsFacts
<1>2. Good(CloseRoom(Now, n)) /\ After(Now, CloseRoom(Now, n))
  BY <1>1, CloseRoomGood, CloseRoomSeats DEF After, Onward
<1>3. QED
  BY <1>2, AfterAdvances

\* The host seat is given away, by the host or a moderator.
LEMMA SwapAdvances ==
    ASSUME SeatsInv, NEW s \in Session, InRoom(s), NEW i \in DOMAIN RoomOf(s).players,
           Update(s, [RoomOf(s) EXCEPT !.players = SwapHost(@, i)])
    PROVE  Advances
<1>1. RoomOf(s) \in RoomRecord /\ SeatedOnce(RoomOf(s))
  BY SeatsFacts DEF InRoom, RoomOf
<1>2. QED
  BY <1>1, SwappedKeeps, UpdateAdvances

LEMMA ModeratingAdvances == ASSUME SeatsInv, Moderating PROVE Advances
<1>0. ASSUME NEW s \in Session, InRoom(s)
      PROVE  /\ roomNum[s] \in DOMAIN rooms /\ RoomOf(s) = rooms[roomNum[s]]
             /\ RoomOf(s) \in RoomRecord /\ SeatedOnce(RoomOf(s))
  BY <1>0, SeatsFacts DEF InRoom, RoomOf
<1>1. ASSUME NEW m \in Session, NEW t \in Session, ModKick(m, t) PROVE Advances
  <2>1. InRoom(m) /\ online' = online
    BY <1>1 DEF ModKick
  <2>2. PICK o \in Kick(RoomOf(m), t, pstate) : Become(Settle(Now, roomNum[m], o))
    BY <1>1 DEF ModKick
  <2>3. o \in Outcome /\ Fair(RoomOf(m), o, pstate)
    BY <1>0, <2>1, <2>2, KickType, KickFair
  <2>4. QED
    BY <1>0, <2>1, <2>2, <2>3, SettleAdvances
<1>2. ASSUME NEW m \in Session, NEW t \in Session, ModUnkick(m, t) PROVE Advances
  <2> DEFINE u == [RoomOf(m) EXCEPT !.kicked = @ \ {t}]
  <2>1. InRoom(m) /\ Update(m, u)
    BY <1>2 DEF ModUnkick
  <2>2. /\ u.players = RoomOf(m).players /\ u.observers = RoomOf(m).observers
        /\ u.vkTarget = RoomOf(m).vkTarget /\ u.started = RoomOf(m).started
    BY <1>0, <2>1 DEF RoomRecord
  <2> HIDE DEF u
  <2>3. QED
    BY <1>0, <2>1, <2>2, SameSeats, UpdateAdvances
<1>3. ASSUME NEW m \in Session, NEW t \in Session, ModChangeHost(m, t) PROVE Advances
  <2>1. /\ InRoom(m) /\ SeatOf(RoomOf(m).players, t) \in DOMAIN RoomOf(m).players
        /\ Update(m, [RoomOf(m) EXCEPT !.players = SwapHost(@, SeatOf(@, t))])
    BY <1>3, SeatOfType DEF ModChangeHost
  <2>2. QED
    BY <2>1, SwapAdvances
<1>4. ASSUME NEW m \in Session, BreakRoom(m) PROVE Advances
  BY <1>4, CloseAdvances DEF BreakRoom
<1>5. ASSUME NEW t \in Session, HttpKick(t) PROVE Advances
  <2>1. InRoom(t) /\ online' = online
    BY <1>5 DEF HttpKick
  <2>2. PICK o \in Kick(RoomOf(t), t, pstate) :
            Become(Settle(Now, roomNum[t], [o EXCEPT !.close = Members(o.room) = {}]))
    BY <1>5 DEF HttpKick
  <2>3. o \in Outcome /\ Fair(RoomOf(t), o, pstate)
    BY <1>0, <2>1, <2>2, KickType, KickFair
  <2> DEFINE p == [o EXCEPT !.close = Members(o.room) = {}]
  <2>4. p \in Outcome /\ p.room = o.room /\ p.gone = o.gone
    BY <2>3 DEF Outcome
  <2> HIDE DEF p
  <2>5. Fair(RoomOf(t), p, pstate)
    BY <2>3, <2>4 DEF Fair
  <2>6. Become(Settle(Now, roomNum[t], p))
    BY <2>2 DEF p
  <2>7. QED
    BY <1>0, <2>1, <2>4, <2>5, <2>6, SettleAdvances
<1>6. ASSUME NEW t \in Session, HttpHostChange(t) PROVE Advances
  <2>1. /\ InRoom(t) /\ SeatOf(RoomOf(t).players, t) \in DOMAIN RoomOf(t).players
        /\ Update(t, [RoomOf(t) EXCEPT !.players = SwapHost(@, SeatOf(@, t))])
    BY <1>6, SeatOfType DEF HttpHostChange
  <2>2. QED
    BY <2>1, SwapAdvances
<1>7. ASSUME NEW n \in DOMAIN rooms, HttpBreakRoom(n) PROVE Advances
  BY <1>7, CloseAdvances DEF HttpBreakRoom
<1>8. QED
  BY <1>1, <1>2, <1>3, <1>4, <1>5, <1>6, <1>7 DEF Moderating

\* The host seat, the teams and the observers.
LEMMA SeatingAdvances == ASSUME SeatsInv, Seating PROVE Advances
<1>0. ASSUME NEW s \in Session, InRoom(s)
      PROVE  /\ roomNum[s] \in DOMAIN rooms /\ RoomOf(s) = rooms[roomNum[s]]
             /\ RoomOf(s) \in RoomRecord /\ SeatedOnce(RoomOf(s))
  BY <1>0, SeatsFacts DEF InRoom, RoomOf
<1>1. ASSUME NEW s \in Session, NEW i \in 1 .. MaxPlayers, GiveHost(s, i) PROVE Advances
  BY <1>1, SwapAdvances DEF GiveHost
<1>2. ASSUME NEW s \in Session, SwitchToObserver(s) PROVE Advances
  <2> DEFINE i == SeatOf(RoomOf(s).players, s)
  <2>1. /\ InRoom(s) /\ i \in DOMAIN RoomOf(s).players /\ RoomOf(s).players[i].live
        /\ Update(s, MovedToObservers(RoomOf(s), i))
    BY <1>2, SeatOfType DEF SwitchToObserver
  <2> HIDE DEF i
  <2>2. QED
    BY <1>0, <2>1, MovedFair, UpdateAdvances
<1>3. ASSUME NEW s \in Session, SwitchToPlayer(s) PROVE Advances
  <2> DEFINE i == SeatOf(RoomOf(s).observers, s)
  <2>1. /\ InRoom(s) /\ i \in DOMAIN RoomOf(s).observers /\ RoomOf(s).observers[i].live
        /\ Update(s, MovedToPlayers(RoomOf(s), i)) /\ ~InMatch(pstate[s])
        /\ RoomOf(s).observers[i].uid = s
    BY <1>3, SeatOfType DEF SwitchToPlayer
  <2> HIDE DEF i
  <2>2. QED
    BY <1>0, <2>1, MovedFair, UpdateAdvances
<1>4. ASSUME NEW s \in Session, ToggleObservers(s) PROVE Advances
  <2> DEFINE G == IF RoomOf(s).obsOn THEN LiveIn(RoomOf(s).observers) ELSE {}
  <2>1. /\ InRoom(s) /\ rooms' = [rooms EXCEPT ![roomNum[s]] = ObserversToggled(@)]
        /\ roomNum' = IF RoomOf(s).obsOn
                      THEN Unhoused(roomNum, LiveIn(RoomOf(s).observers)) ELSE roomNum
        /\ gen' = gen /\ pstate' = pstate /\ online' = online
    BY <1>4 DEF ToggleObservers
  <2>2. rooms' = [rooms EXCEPT ![roomNum[s]] = ObserversToggled(RoomOf(s))]
    BY <1>0, <2>1
  <2>3. roomNum' = Unhoused(roomNum, G)
    BY <2>1, SeatsFacts DEF Unhoused
  <2>4. /\ Keeps(RoomOf(s), ObserversToggled(RoomOf(s)), G)
        /\ \A ps : Told(RoomOf(s), ps) => Told(ObserversToggled(RoomOf(s)), ps)
    BY <1>0, <2>1, ObserversToggledFair
  <2> HIDE DEF G
  <2> DEFINE r == RoomOf(s)
             t == ObserversToggled(r)
             n == roomNum[s]
  <2>5. /\ n \in DOMAIN rooms /\ r = rooms[n] /\ Keeps(r, t, G)
        /\ rooms' = [rooms EXCEPT ![n] = t]
        /\ Told(r, pstate) => Told(t, pstate')
        /\ \A k \in Session : pstate'[k] = pstate[k]
    BY <1>0, <2>1, <2>2, <2>4
  <2> HIDE DEF r, t, n
  <2>6. QED
    BY <2>1, <2>3, <2>5, ChangeAdvances
<1>5. QED
  BY <1>1, <1>2, <1>3, <1>4 DEF Seating

-----------------------------------------------------------------------------
(* The match and the votekick.                                              *)

LEMMA StartMatchAdvances == ASSUME SeatsInv, NEW s \in Session, StartMatch(s) PROVE Advances
<1> DEFINE n == roomNum[s]
           r == RoomOf(s)
<1>1. /\ InRoom(s) /\ n \in DOMAIN rooms /\ r = rooms[n] /\ r \in RoomRecord /\ SeatedOnce(r)
      /\ Members(r) \subseteq Session /\ roomNum \in [Session -> Slot]
      /\ Good(Now) /\ SeatsMatch(Now) /\ online' = online
  BY SeatsFacts DEF StartMatch, InRoom, RoomOf
<1>2. CASE /\ rooms' = [rooms EXCEPT ![roomNum[s]] = StartedRoom(@)]
           /\ pstate' = [t \in Session |->
                            IF t \in Starters(RoomOf(s)) THEN "NORMAL" ELSE pstate[t]]
           /\ UNCHANGED <<gen, roomNum, online>>
  <2>1. /\ rooms' = [rooms EXCEPT ![n] = StartedRoom(r)]
        /\ \A k \in Session : pstate'[k] = IF k \in Starters(r) THEN "NORMAL" ELSE pstate[k]
        /\ gen' = gen /\ roomNum' = roomNum /\ online' = online
    BY <1>1, <1>2
  <2>2. roomNum' = Unhoused(roomNum, {})
    BY <1>1, <2>1 DEF Unhoused
  <2> HIDE DEF n, r
  <2>3. /\ Keeps(r, StartedRoom(r), {}) /\ Starters(r) \subseteq Members(r)
        /\ Told(r, pstate) => Told(StartedRoom(r), pstate')
    <3>1. \A k \in Members(r) : pstate'[k] = IF k \in Starters(r) THEN "NORMAL" ELSE pstate[k]
      BY <1>1, <2>1
    <3>2. QED
      BY <1>1, <3>1, StartedRoomFair
  <2>4. \A k \in Session : k \notin Members(r) => pstate'[k] = pstate[k]
    BY <2>1, <2>3
  <2> DEFINE t == StartedRoom(r)
  <2>5. /\ rooms' = [rooms EXCEPT ![n] = t] /\ Keeps(rooms[n], t, {})
        /\ Told(rooms[n], pstate) => Told(t, pstate')
        /\ \A k \in Session : k \notin Members(rooms[n]) => pstate'[k] = pstate[k]
    BY <1>1, <2>1, <2>3, <2>4
  <2> HIDE DEF t
  <2>6. QED
    BY <1>1, <2>1, <2>2, <2>5, ChangeAdvances
<1>3. CASE r.started /\ Become(SetStateIn(Now, n, {s}, "NORMAL"))
  <2>1. "NORMAL" \in State
    BY DEF State
  <2>2. /\ Good(SetStateIn(Now, n, {s}, "NORMAL"))
        /\ After(Now, SetStateIn(Now, n, {s}, "NORMAL"))
    BY <1>1, <1>3, <2>1, NowFields, SetStateInGood, SetStateInSeats DEF After
  <2>3. QED
    BY <1>1, <1>3, <2>2, AfterAdvances
<1>4. QED
  BY <1>2, <1>3 DEF StartMatch

LEMMA EndMatchAdvances == ASSUME SeatsInv, NEW s \in Session, EndMatch(s) PROVE Advances
<1> DEFINE n == roomNum[s]
           r == RoomOf(s)
           t == EndedRoom(r, pstate)
<1>1. /\ n \in DOMAIN rooms /\ r = rooms[n] /\ r \in RoomRecord /\ SeatedOnce(r)
      /\ roomNum \in [Session -> Slot]
  BY SeatsFacts DEF EndMatch, InRoom, RoomOf
<1>2. /\ rooms' = [rooms EXCEPT ![n] = t]
      /\ \A k \in Session : k \notin Returning(r, pstate) => pstate'[k] = pstate[k]
      /\ gen' = gen /\ roomNum' = roomNum /\ online' = online
  BY <1>1 DEF EndMatch
<1>3. roomNum' = Unhoused(roomNum, {})
  BY <1>1, <1>2 DEF Unhoused
<1>4. /\ Keeps(r, t, {}) /\ Returning(r, pstate) \subseteq Members(r)
      /\ Told(r, pstate) => Told(t, pstate')
  BY <1>1, EndedRoomFair
<1> HIDE DEF t, r, n
<1>5. /\ Keeps(rooms[n], t, {}) /\ (Told(rooms[n], pstate) => Told(t, pstate'))
      /\ \A k \in Session : k \notin Members(rooms[n]) => pstate'[k] = pstate[k]
  BY <1>1, <1>2, <1>4
<1>6. QED
  BY <1>1, <1>2, <1>3, <1>5, ChangeAdvances

\* Only what a session's state is changes, and it is in no room or what its seat
\* shows stays right.
LEMMA StateAdvances ==
    ASSUME SeatsInv, NEW s \in Session, NEW v, pstate' = [pstate EXCEPT ![s] = v],
           UNCHANGED <<rooms, gen, roomNum, online>>,
           Orderly => InMatch(v) \/ roomNum[s] \notin DOMAIN rooms
    PROVE  Advances
<1>1. SeatsMatch(Now) /\ Housed /\ pstate \in [Session -> State]
  BY SeatsFacts
<1>2. /\ rooms' = rooms /\ gen' = gen /\ roomNum' = roomNum /\ online' = online
      /\ \A k \in Session : pstate'[k] = IF k = s THEN v ELSE pstate[k]
  BY <1>1
<1>3. SeatsMatch(Now)' /\ Housed' /\ (Lively(Now) => Lively(Now)')
  BY <1>1, <1>2, NextWorld DEF NumbersLeft, Housed
<1>4. ASSUME Orderly, NumbersLeft, Honest(Now), NEW n \in DOMAIN rooms
      PROVE  Told(rooms'[n], pstate')
  <2>1. Told(rooms[n], pstate)
    BY <1>4, NextWorld
  <2>2. ASSUME NEW k \in Members(rooms[n]), InMatch(pstate[k]) PROVE InMatch(pstate'[k])
    <3>1. k \in Session /\ roomNum[k] = n
      BY <1>4, <2>2, SeatsFacts
    <3>2. CASE k = s
      BY <1>2, <1>4, <3>1, <3>2
    <3>3. CASE k # s
      BY <1>2, <2>2, <3>1, <3>3
    <3>4. QED
      BY <3>2, <3>3
  <2>3. QED
    BY <1>2, <2>1, <2>2, ToldStill
<1>5. Orderly /\ Honest(Now) => Honest(Now)'
  BY <1>2, <1>4, NextWorld DEF NumbersLeft
<1>6. QED
  BY <1>3, <1>5 DEF Advances

\* handlePlayerState: the test comes after the state is written, so it refuses
\* nothing, and session and seat are told the same.
LEMMA PlayerStateAdvances ==
    ASSUME SeatsInv, NEW s \in Session, NEW v \in ClientStates, PlayerState(s, v)
    PROVE  Advances
<1> DEFINE x == [Now EXCEPT !.ps = [@ EXCEPT ![s] = v]]
           n == roomNum[s]
           r == rooms[n]
           t == SetStateFor(r, {s}, v)
<1>1. /\ Good(Now) /\ SeatsMatch(Now) /\ pstate \in [Session -> State]
      /\ roomNum \in [Session -> Slot]
  BY SeatsFacts
<1>2. /\ x.rooms = rooms /\ x.gen = gen /\ x.num = roomNum
      /\ x.ps = [pstate EXCEPT ![s] = v]
  BY NowFields DEF Now
<1>3. /\ s \in online /\ online' = online
      /\ \/ InRoom(s) /\ Become(SetStateIn(x, n, {s}, v))
         \/ ~InRoom(s) /\ Become(x)
  <2>1. x.ps[s] = v
    BY <1>1, <1>2
  <2>2. ~(InMatch(x.ps[s]) /\ v \in {"SHOP", "READY"})
    BY <2>1 DEF InMatch
  <2> HIDE DEF x
  <2>3. s \in online /\ online' = online /\
        Become(IF InRoom(s) /\ ~(InMatch(x.ps[s]) /\ v \in {"SHOP", "READY"})
               THEN SetStateIn(x, n, {s}, v) ELSE x)
    BY DEF PlayerState, x
  <2>4. QED
    BY <2>2, <2>3
<1>4. CASE ~InRoom(s) /\ Become(x)
  <2>1. /\ rooms' = rooms /\ gen' = gen /\ roomNum' = roomNum
        /\ pstate' = [pstate EXCEPT ![s] = v] /\ n \notin DOMAIN rooms
    BY <1>2, <1>3, <1>4 DEF Become, InRoom
  <2>2. QED
    BY <1>3, <2>1, StateAdvances
<1>5. CASE InRoom(s) /\ Become(SetStateIn(x, n, {s}, v))
  <2>1. n \in DOMAIN rooms /\ r \in RoomRecord /\ SeatedOnce(r)
    BY <1>5, SeatsFacts DEF InRoom
  <2>2. /\ rooms' = [rooms EXCEPT ![n] = t] /\ gen' = gen /\ roomNum' = roomNum
        /\ pstate' = [k \in Session |-> IF k \in {s} \cap Members(r) THEN v ELSE x.ps[k]]
    <3> HIDE DEF t
    <3>1. /\ SetStateIn(x, n, {s}, v).rooms = [rooms EXCEPT ![n] = t]
          /\ SetStateIn(x, n, {s}, v).gen = gen /\ SetStateIn(x, n, {s}, v).num = roomNum
          /\ SetStateIn(x, n, {s}, v).ps =
                [k \in Session |-> IF k \in {s} \cap Members(r) THEN v ELSE x.ps[k]]
      BY <1>2 DEF SetStateIn, Put, Now, t
    <3>2. QED
      BY <1>5, <3>1 DEF Become
  <2>3. \A k \in Session : pstate'[k] = IF k = s THEN v ELSE pstate[k]
    BY <1>1, <1>2, <2>2
  <2>4. roomNum' = Unhoused(roomNum, {})
    BY <1>1, <2>2 DEF Unhoused
  <2>5. Keeps(r, t, {})
    BY <2>1, SetStateForKeeps
  <2>6. ASSUME Orderly, NumbersLeft, Told(r, pstate)
        PROVE  /\ Told(t, pstate')
               /\ \A k \in Session : k \notin Members(r) => pstate'[k] = pstate[k]
    <3>1. s \in Members(r) /\ Members(r) \subseteq Session
      BY <2>1, <2>6, SeatsFacts
    <3>2. \A k \in Members(r) : pstate'[k] = IF k \in {s} THEN v ELSE pstate[k]
      BY <2>3, <3>1
    <3>3. ~InMatch(v)
      BY <2>6 DEF Orderly
    <3>4. Told(t, pstate')
      BY <2>1, <2>6, <3>2, <3>3, SetStateForTold
    <3>5. QED
      BY <2>3, <3>1, <3>4
  <2> HIDE DEF t, r
  <2>7. Keeps(rooms[n], t, {})
    BY <2>5 DEF r
  <2>8. Orderly /\ NumbersLeft /\ Told(rooms[n], pstate) =>
               /\ Told(t, pstate')
               /\ \A k \in Session : k \notin Members(rooms[n]) => pstate'[k] = pstate[k]
    BY <2>6 DEF r
  <2> HIDE DEF n
  <2>9. QED
    BY <1>3, <2>1, <2>2, <2>4, <2>7, <2>8, ChangeAdvances
<1>6. QED
  BY <1>3, <1>4, <1>5

LEMMA FightingAdvances == ASSUME SeatsInv, Fighting PROVE Advances
<1>1. ASSUME NEW s \in Session, NEW v \in CastStates, CastState(s, v) PROVE Advances
  BY <1>1, StateAdvances DEF CastState, Orderly
<1>2. QED
  BY <1>1, StartMatchAdvances, LeaveAdvances, EndMatchAdvances, PlayerStateAdvances DEF Fighting

\* A votekick names its target: the seats are as they were.
LEMMA StartVotekickAdvances ==
    ASSUME SeatsInv, NEW s \in Session, NEW t \in Session, StartVotekick(s, t)
    PROVE  Advances
<1> DEFINE n == roomNum[s]
           u == [RoomOf(s) EXCEPT !.vkTarget = t, !.vkYes = @ + 1, !.vkStarters = @ \cup {s}]
<1>1. /\ InRoom(s) /\ n \in DOMAIN rooms /\ RoomOf(s) = rooms[n]
      /\ Update(s, u) /\ Voters # {}
  BY DEF StartVotekick, InRoom, RoomOf
<1>2. /\ rooms[n] \in RoomRecord /\ SeatedOnce(rooms[n]) /\ SeatsMatch(Now) /\ Housed
      /\ roomNum \in [Session -> Slot]
  BY <1>1, SeatsFacts
<1>3. u.players = rooms[n].players /\ u.observers = rooms[n].observers
  BY <1>1, <1>2 DEF RoomRecord
<1> HIDE DEF u
<1>4. /\ rooms' = [rooms EXCEPT ![n] = u] /\ roomNum' = roomNum /\ gen' = gen
      /\ online' = online
  BY <1>1 DEF Update
<1>5. SeatedOnce(u) /\ Members(u) = Members(rooms[n])
  BY <1>2, <1>3 DEF SeatedOnce, Members
<1> HIDE DEF n
<1>6. Agreed(rooms, roomNum) => Agreed(rooms', roomNum')
  BY <1>1, <1>4, <1>5 DEF Agreed
<1>7. SeatsMatch(Now)' /\ Housed'
  BY <1>1, <1>2, <1>4, <1>5, <1>6, NextWorld DEF NumbersLeft, Housed
<1>8. QED
  BY <1>1, <1>7 DEF Advances

LEMMA VotingAdvances == ASSUME SeatsInv, Voting PROVE Advances
<1>0. ASSUME NEW s \in Session, InRoom(s)
      PROVE  /\ roomNum[s] \in DOMAIN rooms /\ RoomOf(s) = rooms[roomNum[s]]
             /\ RoomOf(s) \in RoomRecord /\ SeatedOnce(RoomOf(s))
  BY <1>0, SeatsFacts DEF InRoom, RoomOf
<1>1. ASSUME NEW s \in Session, VoteYes(s) PROVE Advances
  <2> DEFINE u == [RoomOf(s) EXCEPT !.vkYes = @ + 1]
  <2>1. InRoom(s) /\ Update(s, u)
    BY <1>1 DEF VoteYes
  <2>2. /\ u.players = RoomOf(s).players /\ u.observers = RoomOf(s).observers
        /\ u.vkTarget = RoomOf(s).vkTarget /\ u.started = RoomOf(s).started
    BY <1>0, <2>1 DEF RoomRecord
  <2> HIDE DEF u
  <2>3. QED
    BY <1>0, <2>1, <2>2, SameSeats, UpdateAdvances
<1>2. ASSUME NEW s \in Session, VoteResult(s) PROVE Advances
  <2> DEFINE r == RoomOf(s)
             c == ClearVote(RoomOf(s))
  <2>1. InRoom(s) /\ online' = online
    BY <1>2 DEF VoteResult
  <2>2. PICK o \in (IF VotePassed(r) THEN VotekickPlayer(c, r.vkTarget, pstate) ELSE {Stay(c)}) :
           Become(Settle(Now, roomNum[s], o))
    BY <1>2 DEF VoteResult
  <2>3. /\ c \in RoomRecord /\ Keeps(r, c, {}) /\ (Told(r, pstate) => Told(c, pstate))
    BY <1>0, <2>1, ChangesType, ClearVoteKeeps
  <2> HIDE DEF c
  <2>4. o \in Outcome /\ Fair(c, o, pstate)
    <3>1. SeatedOnce(c)
      BY <2>3, <1>0, <2>1 DEF Keeps
    <3>2. CASE VotePassed(r)
      BY <2>2, <2>3, <3>1, <3>2, VotekickPlayerType, VotekickFair
    <3>3. CASE ~VotePassed(r)
      <4>1. o = Stay(c)
        BY <2>2, <3>3
      <4>2. Stay(c) \in Outcome
        BY <2>3 DEF Stay, Outcome
      <4>3. QED
        BY <2>3, <3>1, <4>1, <4>2, StayFair
    <3>4. QED
      BY <3>2, <3>3
  <2>5. Fair(r, o, pstate)
    BY <2>3, <2>4, KeepsThen DEF Fair
  <2>6. QED
    BY <1>0, <2>1, <2>2, <2>4, <2>5, SettleAdvances
<1>3. QED
  BY <1>1, <1>2, StartVotekickAdvances DEF Voting

LEMMA NextAdvances == ASSUME SeatsInv, Next PROVE Advances
BY ComingAdvances, MovingAdvances, ModeratingAdvances, SeatingAdvances, FightingAdvances,
   VotingAdvances DEF Next

LEMMA StutterAdvances == ASSUME SeatsInv, UNCHANGED vars PROVE Advances
<1>1. /\ rooms' = rooms /\ gen' = gen /\ roomNum' = roomNum /\ pstate' = pstate
      /\ online' = online
  BY DEF vars
<1>2. /\ (SeatsMatch(Now)' <=> SeatsMatch(Now)) /\ (Lively(Now)' <=> Lively(Now))
      /\ (Honest(Now)' <=> Honest(Now))
  BY <1>1, NextWorld DEF NumbersLeft
<1>3. QED
  BY <1>1, <1>2 DEF Advances, SeatsInv, Housed

-----------------------------------------------------------------------------
(* The theorems. *)

LEMMA InvInit == Init => Inv
<1> SUFFICES ASSUME Init PROVE Inv
  OBVIOUS
<1>1. rooms = <<>> /\ gen = FreshGenerator /\ DOMAIN rooms = {}
  BY DEF Init
<1>2. IsRoomTable(rooms)
  BY <1>1 DEF IsRoomTable
<1>3. /\ gen \in Generator
      /\ gen.free = <<>> /\ DOMAIN gen.free = {}
  <2>1. 1 \in 1 .. (MaxNumber + 1)
    BY MaxNumberAssumption
  <2>2. <<>> \in Seq(Number) /\ DOMAIN <<>> = {}
    OBVIOUS
  <2>3. QED
    BY <1>1, <2>1, <2>2 DEF FreshGenerator, Generator
<1>4. TypeOK
  BY <1>2, <1>3 DEF Init, TypeOK, Slot, State, NoNumber
<1>5. NumbersConsistent
  BY <1>1, <1>3 DEF NumbersConsistent
<1>6. QED
  BY <1>4, <1>5 DEF Inv

\* The invariant holds of every reachable state: it holds of the empty server,
\* and no handler breaks it.
LEMMA InvHolds == Spec => []Inv
<1>1. Inv /\ [Next]_vars => Inv'
  <2>1. ASSUME Inv, UNCHANGED vars PROVE Inv'
    BY <2>1 DEF vars, Inv, TypeOK, IsRoomTable, NumbersConsistent
  <2>2. QED
    BY <2>1, ComingGood, MovingGood, ModeratingGood, SeatingGood, FightingGood, VotingGood
       DEF Next
<1>2. QED
  BY <1>1, InvInit, PTL DEF Spec

\* TypeOK: in particular the index that the best-ping search answers, the
\* number that generate() hands out and every seat the handlers look up exist,
\* for every number of sessions and every limit.
THEOREM TypeCorrect == Spec => []TypeOK
<1>1. Inv => TypeOK
  BY DEF Inv
<1>2. QED
  BY <1>1, InvHolds, PTL

\* NumbersConsistent: no number is free while a room carries it, and none is
\* queued twice, through every way a room is created, refused, closed or erased.
THEOREM NumbersCorrect == Spec => []NumbersConsistent
<1>1. Inv => NumbersConsistent
  BY DEF Inv
<1>2. QED
  BY <1>1, InvHolds, PTL

LEMMA SeatsStep == ASSUME SeatsInv, [Next]_vars PROVE Advances
BY NextAdvances, StutterAdvances

\* Nobody is in a room of a server that has just started.
LEMMA SeatsInit ==
    ASSUME Init
    PROVE  SeatsMatch(Now) /\ Housed /\ Lively(Now) /\ Honest(Now)
<1>1. /\ rooms = <<>> /\ DOMAIN rooms = {} /\ \A s \in Session : roomNum[s] = NoNumber
  BY DEF Init
<1>2. QED
  BY <1>1, NextWorld DEF Agreed, Housed

LEMMA SeatsHold == Spec => []SeatsInv
<1>1. Init /\ Inv => SeatsInv
  BY SeatsInit DEF SeatsInv
<1>2. SeatsInv /\ Inv' /\ [Next]_vars => SeatsInv'
  BY SeatsStep DEF SeatsInv, Advances
<1>3. QED
  BY <1>1, <1>2, InvHolds, PTL DEF Spec

\* A session sits once in a list, and not in both lists of a room.
LEMMA OneSeat ==
    ASSUME NEW r, SeatedOnce(r), NEW s
    PROVE  Cardinality(SeatsOf(r.players, s)) + Cardinality(SeatsOf(r.observers, s)) <= 1
<1>1. ASSUME NEW q, Distinct(q), SeatsOf(q, s) # {}
      PROVE  s \in LiveIn(q) /\ Cardinality(SeatsOf(q, s)) = 1
  <2>1. PICK i \in DOMAIN q : i \in SeatsOf(q, s)
    BY <1>1 DEF SeatsOf
  <2>2. SeatsOf(q, s) = {i}
    BY <1>1, <2>1 DEF SeatsOf, Distinct
  <2>3. QED
    BY <2>1, <2>2, FS_Singleton DEF SeatsOf, LiveIn
<1>2. Cardinality({}) = 0
  BY FS_EmptySet
<1>3. Distinct(r.players) /\ Distinct(r.observers)
      /\ ~(s \in LiveIn(r.players) /\ s \in LiveIn(r.observers))
  BY DEF SeatedOnce
<1>4. CASE SeatsOf(r.players, s) = {}
  <2>1. Cardinality(SeatsOf(r.observers, s)) \in {0, 1}
    BY <1>1, <1>2, <1>3
  <2>2. QED
    BY <1>2, <1>4, <2>1
<1>5. CASE SeatsOf(r.players, s) # {}
  <2>1. Cardinality(SeatsOf(r.players, s)) = 1 /\ SeatsOf(r.observers, s) = {}
    BY <1>1, <1>3, <1>5
  <2>2. QED
    BY <1>2, <2>1
<1>6. QED
  BY <1>4, <1>5

\* RoomAgreement: a session sits in the room it names and nowhere else, and
\* once.  Joining, leaving, the three kicks, the moves between players and
\* observers, the end of a match, the votekick, the erased rooms and the
\* disconnect that goes through two of these all keep both halves together.
THEOREM SeatsAgree == Spec => []RoomAgreement
<1>1. SeatsInv => RoomAgreement
  <2> SUFFICES ASSUME SeatsInv PROVE RoomAgreement
    OBVIOUS
  <2>1. \A n \in DOMAIN rooms : SeatedOnce(rooms[n])
    BY SeatsFacts
  <2>2. NumbersLeft => Agreed(rooms, roomNum)
    BY NextWorld DEF SeatsInv
  <2>3. QED
    BY <2>1, <2>2, OneSeat DEF RoomAgreement, Agreed, SeatsInv, Housed
<1>2. QED
  BY <1>1, SeatsHold, PTL

\* NoGhostPlayers, of a server where no session may start a votekick (a target
\* that a passed vote may not remove can leave its seat behind, so the claim is
\* made without votes).  By itself the claim is not inductive: a seat is freed
\* because the leaver is looked for in the room its number names (SeatsInv) and
\* because no vote makes the leave another one's (Alive).
THEOREM NoGhosts == ASSUME Voters = {} PROVE Spec => []NoGhostPlayers
<1>1. Init => Lively(Now)
  BY SeatsInit
<1>2. SeatsInv /\ Lively(Now) /\ [Next]_vars => Lively(Now)'
  BY SeatsStep DEF Advances
<1>3. Lively(Now) => NoGhostPlayers
  BY NextWorld DEF NoGhostPlayers, Alive, SeatsIn
<1>4. QED
  BY <1>1, <1>2, <1>3, SeatsHold, PTL DEF Spec

\* MatchImpliesStarted, of the same servers, when the clients report no state
\* of the match themselves and the Cast server no other.  A match is declared
\* over by what the sessions say, so the seats must not say more than they do:
\* Told holds of every seat, the observers' included, whose sessions the match
\* does not wait for.
THEOREM FightersKnown == ASSUME Voters = {}, Orderly PROVE Spec => []MatchImpliesStarted
<1>1. Init => Lively(Now) /\ Honest(Now)
  BY SeatsInit
<1>2. SeatsInv /\ Lively(Now) /\ Honest(Now) /\ [Next]_vars => Lively(Now)' /\ Honest(Now)'
  BY SeatsStep DEF Advances
<1>3. Lively(Now) /\ Honest(Now) => MatchImpliesStarted
  BY NextWorld DEF MatchImpliesStarted, Alive, Told, SeatsIn
<1>4. QED
  BY <1>1, <1>2, <1>3, SeatsHold, PTL DEF Spec

-----------------------------------------------------------------------------
(* Steps: who is moved, and who is host.                                    *)

\* On the way from x to y nobody is passed over in a room that is left, and
\* nobody but s leaves such a room.
Passing(x, y, s) ==
    \A n \in DOMAIN y.rooms :
        /\ n \in DOMAIN x.rooms
        /\ Thins(x.rooms[n].players, y.rooms[n].players)
        /\ x.gen.next <= MaxNumber =>
              \A k \in Session : k # s /\ x.num[k] = n => y.num[k] = n

LEMMA PassingSame ==
    ASSUME NEW x, NEW s
    PROVE  Passing(x, x, s)
BY DEF Passing, Thins, Stays

LEMMA PassingThen ==
    ASSUME NEW x, NEW y, NEW z, NEW s, Passing(x, y, s), Passing(y, z, s),
           y.gen.next = x.gen.next
    PROVE  Passing(x, z, s)
<1>1. ASSUME NEW n \in DOMAIN z.rooms
      PROVE  n \in DOMAIN x.rooms /\ Thins(x.rooms[n].players, z.rooms[n].players)
  BY ThinsThen DEF Passing
<1>2. ASSUME NEW n \in DOMAIN z.rooms, x.gen.next <= MaxNumber, NEW k \in Session,
             k # s, x.num[k] = n
      PROVE  z.num[k] = n
  BY <1>2 DEF Passing
<1>3. QED
  BY <1>1, <1>2 DEF Passing

\* removeRoom: those who leave were in that room.
LEMMA CloseRoomPassing ==
    ASSUME NEW x, Good(x), SeatsMatch(x), NEW n, NEW s
    PROVE  Passing(x, CloseRoom(x, n), s)
<1>1. CASE n \notin DOMAIN x.rooms
  BY <1>1, PassingSame DEF CloseRoom
<1>2. CASE n \in DOMAIN x.rooms
  <2> DEFINE f == Restrict(x.rooms, DOMAIN x.rooms \ {n})
             u == Unhoused(x.num, Members(x.rooms[n]))
             y == CloseRoom(x, n)
  <2>1. y.rooms = f /\ y.num = u
    BY <1>2, WorldFields DEF Good, CloseRoom, World
  <2>2. /\ DOMAIN f = DOMAIN x.rooms \ {n} /\ \A k \in DOMAIN f : f[k] = x.rooms[k]
        /\ \A k \in Session : u[k] = IF k \in Members(x.rooms[n]) THEN NoNumber ELSE x.num[k]
    BY DEF Restrict, Unhoused
  <2>3. x.gen.next <= MaxNumber =>
            \A k \in Session : k \in Members(x.rooms[n]) <=> x.num[k] = n
    BY <1>2, RoomIn
  <2> HIDE DEF f, u, y
  <2>4. QED
    BY <2>1, <2>2, <2>3 DEF Passing, Thins, Stays, y
<1>3. QED
  BY <1>1, <1>2

\* What is left when an outcome that lets s go is settled.
LEMMA SettlePassing ==
    ASSUME NEW x, Good(x), SeatsMatch(x), NEW n \in DOMAIN x.rooms, NEW o \in Outcome,
           Keeps(x.rooms[n], o.room, o.gone), NEW s, LetsGo(x.rooms[n], o, s)
    PROVE  Passing(x, Settle(x, n, o), s)
<1> DEFINE f == [x.rooms EXCEPT ![n] = o.room]
           u == Unhoused(x.num, o.gone)
           y == [Put(x, n, o.room) EXCEPT !.num = Unhoused(@, o.gone)]
<1>1. /\ x.rooms[n] \in RoomRecord /\ x \in World /\ x.num \in [Session -> Slot]
  BY RoomIn
<1>2. y.rooms = f /\ y.num = u /\ y.gen = x.gen
  BY <1>1 DEF World, Put
<1>3. /\ DOMAIN f = DOMAIN x.rooms /\ f[n] = o.room
      /\ \A k \in DOMAIN f : k # n => f[k] = x.rooms[k]
      /\ \A k \in Session : u[k] = IF k \in o.gone THEN NoNumber ELSE x.num[k]
  BY DEF Unhoused
<1>4. Good(y) /\ SeatsMatch(y)
  <2> DEFINE p == [o EXCEPT !.close = FALSE]
  <2>1. p \in Outcome /\ p.room = o.room /\ p.gone = o.gone /\ p.close = FALSE
    BY DEF Outcome
  <2> HIDE DEF p
  <2>2. Settle(x, n, p) = y
    BY <2>1 DEF Settle
  <2> HIDE DEF y
  <2>3. Good(Settle(x, n, p)) /\ SeatsMatch(Settle(x, n, p))
    BY <2>1, SettleGood, SettleSeats
  <2>4. QED
    BY <2>2, <2>3
<1>5. Settle(x, n, o) = IF o.close THEN CloseRoom(y, n) ELSE y
  BY DEF Settle
<1> HIDE DEF f, u, y
<1>6. Passing(x, y, s)
  <2>1. o.gone \subseteq {s} /\ Thins(x.rooms[n].players, o.room.players)
    BY DEF LetsGo
  <2>2. \A k \in DOMAIN f : Thins(x.rooms[k].players, f[k].players)
    BY <1>3, <2>1 DEF Thins, Stays
  <2>3. \A k \in Session : k # s => u[k] = x.num[k]
    BY <1>3, <2>1
  <2>4. QED
    BY <1>2, <1>3, <2>2, <2>3 DEF Passing
<1>7. Passing(y, CloseRoom(y, n), s)
  BY <1>4, CloseRoomPassing
<1>8. Passing(x, CloseRoom(y, n), s)
  BY <1>2, <1>6, <1>7, PassingThen
<1>9. QED
  BY <1>5, <1>6, <1>8

LEMMA SetStateInPassing ==
    ASSUME NEW x, Good(x), SeatsMatch(x), NEW n \in DOMAIN x.rooms, NEW who, NEW v, NEW s
    PROVE  Passing(x, SetStateIn(x, n, who, v), s)
<1> DEFINE t == SetStateFor(x.rooms[n], who, v)
           f == [x.rooms EXCEPT ![n] = t]
           y == SetStateIn(x, n, who, v)
<1>1. x \in World /\ x.rooms[n] \in RoomRecord /\ SeatedOnce(x.rooms[n])
  BY RoomIn
<1>2. y.rooms = f /\ y.num = x.num
  BY <1>1 DEF SetStateIn, Put, World
<1>3. Thins(x.rooms[n].players, t.players)
  BY <1>1, InPlaceThins
<1>4. /\ DOMAIN f = DOMAIN x.rooms /\ f[n] = t
      /\ \A k \in DOMAIN f : k # n => f[k] = x.rooms[k]
  OBVIOUS
<1> HIDE DEF t, f, y
<1>5. \A k \in DOMAIN f : Thins(x.rooms[k].players, f[k].players)
  BY <1>3, <1>4 DEF Thins, Stays
<1>6. QED
  BY <1>2, <1>4, <1>5 DEF Passing, y

LEMMA LeaveAsTargetPassing ==
    ASSUME NEW x, Good(x), SeatsMatch(x), NEW n \in DOMAIN x.rooms, NEW s \in Session,
           NEW y \in LeaveAsTarget(x, n, s)
    PROVE  Passing(x, y, s)
<1> DEFINE r == x.rooms[n]
<1>1. r \in RoomRecord /\ SeatedOnce(r)
  BY RoomIn
<1>2. PICK o \in VotekickPlayer(r, s, x.ps) :
          y = Settle(x, n, [o EXCEPT !.room = ResetVotekick(@)])
  BY DEF LeaveAsTarget
<1>3. o \in Outcome /\ Fair(r, o, x.ps) /\ LetsGo(r, o, s)
  BY <1>1, <1>2, VotekickPlayerType, VotekickFair, VotekickLetsGo
<1> DEFINE p == [o EXCEPT !.room = ResetVotekick(@)]
<1>4. p.room = ResetVotekick(o.room) /\ p.gone = o.gone /\ o.room \in RoomRecord
  BY <1>3 DEF Outcome
<1>5. p \in Outcome
  BY <1>3, <1>4, ChangesType DEF Outcome
<1>6. Keeps(r, o.room, o.gone) /\ Keeps(o.room, p.room, {})
  BY <1>3, <1>4, ClearVoteKeeps DEF Fair, Keeps
<1>7. Keeps(r, p.room, p.gone)
  BY <1>4, <1>6 DEF Keeps
<1>8. p.room.players = o.room.players
  <2>1. \A u \in RoomRecord : ResetVotekick(u).players = u.players
    BY DEF ResetVotekick, ClearVote, RoomRecord
  <2> HIDE DEF p
  <2>2. QED
    BY <1>4, <2>1
<1> HIDE DEF p
<1>9. LetsGo(r, p, s)
  BY <1>3, <1>4, <1>8 DEF LetsGo
<1>10. QED
  BY <1>2, <1>5, <1>7, <1>9, SettlePassing DEF p

LEMMA RoomLeavePassing ==
    ASSUME NEW x, Good(x), SeatsMatch(x), NEW s \in Session, NEW y \in RoomLeave(x, s)
    PROVE  Passing(x, y, s)
<1> DEFINE n == x.num[s]
<1>1. CASE n \notin DOMAIN x.rooms
  BY <1>1, PassingSame DEF RoomLeave
<1>2. CASE n \in DOMAIN x.rooms /\ x.rooms[n].vkTarget = s
  BY <1>2, LeaveAsTargetPassing DEF RoomLeave
<1>3. CASE n \in DOMAIN x.rooms /\ x.rooms[n].vkTarget # s
  <2>1. x.rooms[n] \in RoomRecord /\ SeatedOnce(x.rooms[n])
    BY <1>3, RoomIn
  <2>2. PICK o \in RemovePlayer(x.rooms[n], s, x.ps) : y = Settle(x, n, o)
    BY <1>3 DEF RoomLeave
  <2>3. /\ o \in Outcome /\ Keeps(x.rooms[n], o.room, o.gone)
        /\ LetsGo(x.rooms[n], o, s)
    BY <2>1, <2>2, RemovePlayerType, RemovePlayerFair, RemovePlayerLetsGo DEF Fair
  <2>4. QED
    BY <1>3, <2>2, <2>3, SettlePassing
<1>4. QED
  BY <1>1, <1>2, <1>3

LEMMA MatchLeavePassing ==
    ASSUME NEW x, Good(x), SeatsMatch(x), NEW s \in Session, NEW y \in MatchLeave(x, s)
    PROVE  Passing(x, y, s)
<1> DEFINE n == x.num[s]
<1>1. CASE n \notin DOMAIN x.rooms
  BY <1>1, PassingSame DEF MatchLeave
<1>2. CASE n \in DOMAIN x.rooms /\ x.rooms[n].vkTarget = s
  BY <1>2, LeaveAsTargetPassing DEF MatchLeave
<1>3. CASE n \in DOMAIN x.rooms /\ x.rooms[n].vkTarget # s
  <2>1. x.rooms[n] \in RoomRecord /\ SeatedOnce(x.rooms[n])
    BY <1>3, RoomIn
  <2>2. CASE IsHost(x.rooms[n], s)
    <3>1. PICK o \in RemoveHostFromMatch(x.rooms[n], x.ps) : y = Settle(x, n, o)
      BY <1>3, <2>2 DEF MatchLeave
    <3>2. /\ o \in Outcome /\ Keeps(x.rooms[n], o.room, o.gone)
          /\ LetsGo(x.rooms[n], o, s)
      BY <2>1, <2>2, <3>1, RemoveHostFromMatchType, RemoveHostFair, RemoveHostLetsGo DEF Fair
    <3>3. QED
      BY <1>3, <3>1, <3>2, SettlePassing
  <2>3. CASE ~IsHost(x.rooms[n], s)
    BY <1>3, <2>3, SetStateInPassing DEF MatchLeave
  <2>4. QED
    BY <2>2, <2>3
<1>4. QED
  BY <1>1, <1>2, <1>3

LEMMA DestroyedPassing ==
    ASSUME NEW x, Good(x), SeatsMatch(x), NEW s \in Session
    PROVE  Passing(x, Destroyed(x, s), s)
<1> DEFINE f == [n \in DOMAIN x.rooms |-> Expired(x.rooms[n], s)]
           u == [x.num EXCEPT ![s] = NoNumber]
           y == Destroyed(x, s)
<1>1. x \in World /\ x.num \in [Session -> Slot]
  BY WorldFields DEF Good
<1>2. y.rooms = f /\ y.num = u
  BY <1>1 DEF Destroyed, World
<1>3. ASSUME NEW n \in DOMAIN f
      PROVE  n \in DOMAIN x.rooms /\ Thins(x.rooms[n].players, f[n].players)
  <2>1. x.rooms[n] \in RoomRecord /\ SeatedOnce(x.rooms[n]) /\ f[n] = Expired(x.rooms[n], s)
    BY RoomIn
  <2>2. QED
    BY <2>1, InPlaceThins
<1>4. \A k \in Session : k # s => u[k] = x.num[k]
  BY <1>1
<1> HIDE DEF f, u, y
<1>5. QED
  BY <1>2, <1>3, <1>4 DEF Passing, y

-----------------------------------------------------------------------------
\* In no room that is left is the host passed over.
Hosts == \A n \in DOMAIN rooms \cap DOMAIN rooms' : Stays(rooms[n].players, rooms'[n].players)

\* One session at most leaves the rooms that are left.
Outs ==
    NumbersLeft =>
        \E s : \A n \in DOMAIN rooms \cap DOMAIN rooms' :
            rooms[n].obsOn = rooms'[n].obsOn =>
                \A k \in Session : k # s /\ roomNum[k] = n => roomNum'[k] = n

LEMMA PassingStep ==
    ASSUME SeatsInv, NEW x, NEW s, Passing(Now, x, s), Become(x)
    PROVE  Hosts /\ Outs
<1>1. rooms' = x.rooms /\ roomNum' = x.num
  BY DEF Become
<1>2. \A n \in DOMAIN x.rooms :
         /\ Thins(rooms[n].players, x.rooms[n].players)
         /\ NumbersLeft => \A k \in Session : k # s /\ roomNum[k] = n => x.num[k] = n
  BY NowFields DEF Passing, NumbersLeft
<1>3. QED
  BY <1>1, <1>2 DEF Hosts, Outs, Thins

LEMMA SettleStays ==
    ASSUME SeatsInv, NEW n \in DOMAIN rooms, NEW o \in Outcome,
           Keeps(rooms[n], o.room, o.gone), NEW s, LetsGo(rooms[n], o, s),
           Become(Settle(Now, n, o))
    PROVE  Hosts /\ Outs
<1>1. Good(Now) /\ SeatsMatch(Now) /\ Now.rooms = rooms
  BY SeatsFacts, NowFields
<1>2. Passing(Now, Settle(Now, n, o), s)
  BY <1>1, SettlePassing
<1>3. QED
  BY <1>2, PassingStep

\* One room changes, and nobody's room number.
LEMMA SameNumbers ==
    ASSUME roomNum' = roomNum
    PROVE  Outs
BY DEF Outs

LEMMA RoomStays ==
    ASSUME NEW n, NEW t, rooms' = [rooms EXCEPT ![n] = t], Stays(rooms[n].players, t.players)
    PROVE  Hosts
BY DEF Hosts, Stays

LEMMA UpdateStays ==
    ASSUME NEW s \in Session, NEW t, Update(s, t), Stays(RoomOf(s).players, t.players)
    PROVE  Hosts /\ Outs
BY RoomStays, SameNumbers DEF Update, RoomOf

LEMMA SameRooms ==
    ASSUME rooms' = rooms, roomNum' = roomNum
    PROVE  Hosts /\ Outs
BY DEF Hosts, Outs, Stays

LEMMA ComingStays == ASSUME SeatsInv, Coming PROVE Hosts /\ Outs
<1>1. ASSUME NEW s \in Session, Connect(s) PROVE Hosts /\ Outs
  BY <1>1, SameRooms DEF Connect
<1>2. ASSUME NEW s \in Session, Disconnect(s) PROVE Hosts /\ Outs
  <2>1. PICK x \in (IF roomNum[s] # NoNumber /\ InMatch(pstate[s])
                    THEN MatchLeave(Now, s) ELSE {Now}) :
          \E y \in (IF roomNum[s] # NoNumber THEN RoomLeave(x, s) ELSE {x}) :
              Become(Destroyed(y, s))
    BY <1>2 DEF Disconnect
  <2>2. PICK y \in (IF roomNum[s] # NoNumber THEN RoomLeave(x, s) ELSE {x}) :
          Become(Destroyed(y, s))
    BY <2>1
  <2>3. Good(Now) /\ SeatsMatch(Now)
    BY SeatsFacts
  <2>4. /\ Good(x) /\ SeatsMatch(x) /\ x.gen.next = Now.gen.next
        /\ Passing(Now, x, s)
    BY <2>1, <2>3, MatchLeaveGood, MatchLeaveSeats, MatchLeavePassing, PassingSame DEF After
  <2>5. /\ Good(y) /\ SeatsMatch(y) /\ y.gen.next = x.gen.next
        /\ Passing(x, y, s)
    BY <2>2, <2>4, RoomLeaveGood, RoomLeaveSeats, RoomLeavePassing, PassingSame DEF After
  <2>6. Passing(y, Destroyed(y, s), s)
    BY <2>5, DestroyedPassing
  <2>7. Passing(Now, Destroyed(y, s), s)
    <3>1. Passing(Now, y, s)
      BY <2>4, <2>5, PassingThen
    <3>2. y.gen.next = Now.gen.next
      BY <2>4, <2>5
    <3>3. QED
      BY <3>1, <3>2, <2>6, PassingThen
  <2>8. QED
    BY <2>2, <2>7, PassingStep
<1>3. QED
  BY <1>1, <1>2 DEF Coming

\* handleRoomCreation: a room made in the place of another has its own host.
LEMMA CreateRoomStays == ASSUME SeatsInv, NEW s \in Session, CreateRoom(s) PROVE Hosts /\ Outs
<1>1. CASE UNCHANGED <<rooms, roomNum, pstate>>
  BY <1>1, SameRooms
<1>2. CASE /\ \E observersOn \in BOOLEAN :
                rooms' = [n \in DOMAIN rooms \cup {Generated(gen)} |->
                             IF n = Generated(gen) THEN NewRoom(s, observersOn)
                             ELSE rooms[n]]
           /\ roomNum' = [roomNum EXCEPT ![s] = Generated(gen)]
  <2> DEFINE g == Generated(gen)
  <2>1. PICK b \in BOOLEAN :
            rooms' = [n \in DOMAIN rooms \cup {g} |-> IF n = g THEN NewRoom(s, b) ELSE rooms[n]]
    BY <1>2
  <2>2. roomNum \in [Session -> Slot] /\ roomNum' = [roomNum EXCEPT ![s] = g]
    BY <1>2, SeatsFacts
  <2> HIDE DEF g
  <2>3. NewRoom(s, b).players = <<NewSeat(s)>> /\ First(<<NewSeat(s)>>, s)
        /\ LiveIn(<<NewSeat(s)>>) \subseteq {s}
    <3> DEFINE q == <<NewSeat(s)>>
    <3>1. NewRoom(s, b).players = q
      BY DEF NewRoom
    <3>2. DOMAIN q = {1} /\ q # <<>> /\ q[1] = NewSeat(s)
      OBVIOUS
    <3>3. NewSeat(s).live = TRUE /\ NewSeat(s).uid = s
      BY DEF NewSeat
    <3> HIDE DEF q
    <3>4. First(q, s) /\ LiveIn(q) \subseteq {s}
      BY <3>2, <3>3, LiveInDef DEF First
    <3>5. QED
      BY <3>1, <3>4 DEF q
  <2>4. ASSUME NEW n \in DOMAIN rooms \cap DOMAIN rooms'
        PROVE  Stays(rooms[n].players, rooms'[n].players)
    <3>1. CASE n = g
      BY <2>1, <2>3, <3>1 DEF Stays
    <3>2. CASE n # g
      BY <2>1, <3>2 DEF Stays
    <3>3. QED
      BY <3>1, <3>2
  <2>5. \A k \in Session : k # s => roomNum'[k] = roomNum[k]
    BY <2>2
  <2>6. QED
    BY <2>4, <2>5 DEF Hosts, Outs
<1>3. QED
  BY <1>1, <1>2 DEF CreateRoom

LEMMA JoinStays ==
    ASSUME SeatsInv, NEW s \in Session, NEW n \in DOMAIN rooms, JoinRoom(s, n) \/ JoinInvisible(s, n)
    PROVE  Hosts /\ Outs
<1>1. PICK t \in {[rooms[n] EXCEPT !.observers = Append(@, NewSeat(s))],
                  [rooms[n] EXCEPT !.players = Append(@, NewSeat(s))]} : Enter(s, n, t)
  BY DEF JoinRoom, JoinInvisible, TakeSeat
<1>2. rooms' = [rooms EXCEPT ![n] = t] /\ roomNum' = [roomNum EXCEPT ![s] = n]
  BY <1>1 DEF Enter
<1>3. rooms[n] \in RoomRecord /\ rooms[n].players \in Seq(Seat) /\ roomNum \in [Session -> Slot]
  BY SeatsFacts, RoomFields
<1>4. t.players \in {rooms[n].players, Append(rooms[n].players, NewSeat(s))}
  BY <1>1, <1>3 DEF RoomRecord
<1>5. \A h : First(rooms[n].players, h) => First(t.players, h)
  <2> DEFINE q == rooms[n].players
  <2>1. q # <<>> => 1 \in DOMAIN q /\ Append(q, NewSeat(s))[1] = q[1]
                    /\ Append(q, NewSeat(s)) # <<>>
    BY <1>3
  <2>2. QED
    BY <1>4, <2>1 DEF First
<1>6. Hosts
  BY <1>2, <1>5, RoomStays DEF Stays
<1>7. \A k \in Session : k # s => roomNum'[k] = roomNum[k]
  BY <1>2, <1>3
<1>8. QED
  BY <1>6, <1>7 DEF Outs

LEMMA LeaveStays ==
    ASSUME SeatsInv, NEW s \in Session, NEW x \in RoomLeave(Now, s) \cup MatchLeave(Now, s),
           Become(x)
    PROVE  Hosts /\ Outs
<1>1. Good(Now) /\ SeatsMatch(Now)
  BY SeatsFacts
<1>2. Passing(Now, x, s)
  BY <1>1, RoomLeavePassing, MatchLeavePassing
<1>3. QED
  BY <1>2, PassingStep

\* A session's room.
LEMMA HisRoom ==
    ASSUME SeatsInv, NEW s \in Session, InRoom(s)
    PROVE  /\ roomNum[s] \in DOMAIN rooms /\ RoomOf(s) = rooms[roomNum[s]]
           /\ RoomOf(s) \in RoomRecord /\ SeatedOnce(RoomOf(s))
           /\ RoomOf(s).players \in Seq(Seat) /\ Distinct(RoomOf(s).players)
BY SeatsFacts, RoomFields DEF InRoom, RoomOf, SeatedOnce

LEMMA KickPlayerStays ==
    ASSUME SeatsInv, NEW s \in Session, NEW t \in Session, KickPlayer(s, t)
    PROVE  Hosts /\ Outs
<1>1. InRoom(s)
  BY DEF KickPlayer
<1>2. CASE \E x \in RoomLeave(Now, s) : Become(x)
  BY <1>2, LeaveStays
<1>3. CASE \E o \in RemovePlayer([RoomOf(s) EXCEPT !.kicked = @ \cup {t}], t, pstate) :
              Become(Settle(Now, roomNum[s], IgnoreClose(o)))
  <2> DEFINE u == [RoomOf(s) EXCEPT !.kicked = @ \cup {t}]
  <2>1. PICK o \in RemovePlayer(u, t, pstate) : Become(Settle(Now, roomNum[s], IgnoreClose(o)))
    BY <1>3
  <2>2. u \in RoomRecord /\ Keeps(RoomOf(s), u, {}) /\ u.players = RoomOf(s).players
    BY <1>1, HisRoom, KickedKeeps
  <2> HIDE DEF u
  <2>3. o \in Outcome /\ Keeps(u, o.room, o.gone) /\ LetsGo(u, o, t)
    BY <2>1, <2>2, RemovePlayerType, RemovePlayerFair, RemovePlayerLetsGo DEF Keeps, Fair
  <2>4. Keeps(RoomOf(s), o.room, o.gone) /\ LetsGo(RoomOf(s), o, t)
    BY <2>2, <2>3, KeepsThen DEF LetsGo
  <2> DEFINE p == IgnoreClose(o)
  <2>5. p \in Outcome /\ p.room = o.room /\ p.gone = o.gone
    BY <2>3, IgnoreCloseType DEF IgnoreClose, Outcome
  <2> HIDE DEF p
  <2>6. Become(Settle(Now, roomNum[s], p))
    BY <2>1 DEF p
  <2>7. Keeps(RoomOf(s), p.room, p.gone) /\ LetsGo(RoomOf(s), p, t)
    BY <2>4, <2>5 DEF LetsGo
  <2>8. QED
    BY <1>1, <2>5, <2>6, <2>7, HisRoom, SettleStays
<1>4. QED
  BY <1>2, <1>3 DEF KickPlayer

LEMMA ListRoomsStays == ASSUME SeatsInv, ListRooms PROVE Hosts /\ Outs
<1> DEFINE empty == {n \in DOMAIN rooms : rooms[n].players = <<>>}
           G == UNION {Members(rooms[n]) : n \in empty}
<1>1. /\ rooms' = Restrict(rooms, DOMAIN rooms \ empty) /\ roomNum' = Unhoused(roomNum, G)
  BY DEF ListRooms
<1>2. roomNum \in [Session -> Slot] /\ empty \subseteq DOMAIN rooms
  BY SeatsFacts
<1> HIDE DEF empty
<1>3. /\ DOMAIN rooms' = DOMAIN rooms \ empty /\ \A k \in DOMAIN rooms' : rooms'[k] = rooms[k]
      /\ \A s \in Session : s \notin G => roomNum'[s] = roomNum[s]
  BY <1>1 DEF Restrict, Unhoused
<1>4. Hosts
  BY <1>3 DEF Hosts, Stays
<1>5. ASSUME NumbersLeft, NEW n \in DOMAIN rooms', NEW k \in Session, roomNum[k] = n
      PROVE  roomNum'[k] = n
  <2>1. k \notin G
    BY <1>2, <1>3, <1>5, SeatsFacts
  <2>2. QED
    BY <1>3, <1>5, <2>1
<1>6. QED
  BY <1>4, <1>5 DEF Outs

LEMMA MovingStays == ASSUME SeatsInv, Moving PROVE Hosts /\ Outs
<1>1. ASSUME NEW s \in Session, NEW t \in Session, JoinFriend(s, t) PROVE Hosts /\ Outs
  BY <1>1, JoinStays DEF JoinFriend
<1>2. ASSUME NEW s \in Session, LeaveRoom(s) PROVE Hosts /\ Outs
  BY <1>2, LeaveStays DEF LeaveRoom
<1>3. QED
  BY <1>1, <1>2, KickPlayerStays, CreateRoomStays, JoinStays, ListRoomsStays DEF Moving

Appointed == (\E m \in Staff, t \in Session : ModChangeHost(m, t)) \/ \E t \in Web : HttpHostChange(t)

LEMMA ModeratingStays == ASSUME SeatsInv, Moderating PROVE (Hosts \/ Appointed) /\ Outs
<1>1. ASSUME NEW m \in Session, NEW t \in Session, ModKick(m, t) PROVE Hosts /\ Outs
  <2>1. InRoom(m)
    BY <1>1 DEF ModKick
  <2>2. PICK o \in Kick(RoomOf(m), t, pstate) : Become(Settle(Now, roomNum[m], o))
    BY <1>1 DEF ModKick
  <2>3. o \in Outcome /\ Keeps(RoomOf(m), o.room, o.gone) /\ LetsGo(RoomOf(m), o, t)
    BY <2>1, <2>2, HisRoom, KickType, KickFair, KickLetsGo DEF Fair
  <2>4. QED
    BY <2>1, <2>2, <2>3, HisRoom, SettleStays
<1>2. ASSUME NEW m \in Session, NEW t \in Session, ModUnkick(m, t) PROVE Hosts /\ Outs
  <2> DEFINE u == [RoomOf(m) EXCEPT !.kicked = @ \ {t}]
  <2>1. InRoom(m) /\ Update(m, u)
    BY <1>2 DEF ModUnkick
  <2>2. u.players = RoomOf(m).players
    BY <2>1, HisRoom DEF RoomRecord
  <2> HIDE DEF u
  <2>3. Stays(RoomOf(m).players, u.players)
    BY <2>2 DEF Stays
  <2>4. QED
    BY <2>1, <2>3, UpdateStays
<1>3. ASSUME NEW m \in Session, NEW t \in Session, ModChangeHost(m, t) PROVE Appointed /\ Outs
  BY <1>3, SameNumbers DEF ModChangeHost, Appointed, Update
<1>4. ASSUME NEW n, Become(CloseRoom(Now, n)) PROVE Hosts /\ Outs
  BY <1>4, SeatsFacts, CloseRoomPassing, PassingStep
<1>5. ASSUME NEW t \in Session, HttpKick(t) PROVE Hosts /\ Outs
  <2>1. InRoom(t)
    BY <1>5 DEF HttpKick
  <2>2. PICK o \in Kick(RoomOf(t), t, pstate) :
            Become(Settle(Now, roomNum[t], [o EXCEPT !.close = Members(o.room) = {}]))
    BY <1>5 DEF HttpKick
  <2>3. o \in Outcome /\ Keeps(RoomOf(t), o.room, o.gone) /\ LetsGo(RoomOf(t), o, t)
    BY <2>1, <2>2, HisRoom, KickType, KickFair, KickLetsGo DEF Fair
  <2> DEFINE p == [o EXCEPT !.close = Members(o.room) = {}]
  <2>4. p \in Outcome /\ p.room = o.room /\ p.gone = o.gone
    BY <2>3 DEF Outcome
  <2> HIDE DEF p
  <2>5. Keeps(RoomOf(t), p.room, p.gone) /\ LetsGo(RoomOf(t), p, t)
    BY <2>3, <2>4 DEF LetsGo
  <2>6. Become(Settle(Now, roomNum[t], p))
    BY <2>2 DEF p
  <2>7. QED
    BY <2>1, <2>4, <2>5, <2>6, HisRoom, SettleStays
<1>6. ASSUME NEW t \in Session, HttpHostChange(t) PROVE Appointed /\ Outs
  BY <1>6, SameNumbers DEF HttpHostChange, Appointed, Update
<1>7. QED
  BY <1>1, <1>2, <1>3, <1>4, <1>5, <1>6 DEF Moderating, BreakRoom, HttpBreakRoom

\* The host itself gives the seat away.
Granted(h) == \E i \in 1 .. MaxPlayers : GiveHost(h, i)

\* No host is passed over who does not give the seat away.
HostsButGivers ==
    \A n \in DOMAIN rooms \cap DOMAIN rooms' : \A h \in LiveIn(rooms'[n].players) :
        First(rooms[n].players, h) => First(rooms'[n].players, h) \/ Granted(h)

LEMMA SeatingStays == ASSUME SeatsInv, Seating PROVE HostsButGivers /\ Outs
<1>0. Hosts => HostsButGivers
  BY DEF Hosts, Stays, HostsButGivers
<1>1. ASSUME NEW s \in Session, NEW i \in 1 .. MaxPlayers, GiveHost(s, i) PROVE HostsButGivers /\ Outs
  <2> DEFINE t == [RoomOf(s) EXCEPT !.players = SwapHost(@, i)]
  <2>1. InRoom(s) /\ IsHost(RoomOf(s), s) /\ Update(s, t)
    BY <1>1 DEF GiveHost
  <2> HIDE DEF t
  <2>2. rooms' = [rooms EXCEPT ![roomNum[s]] = t] /\ roomNum' = roomNum
    BY <2>1 DEF Update
  <2>3. ASSUME NEW n \in DOMAIN rooms \cap DOMAIN rooms', NEW h \in LiveIn(rooms'[n].players),
               First(rooms[n].players, h)
        PROVE  First(rooms'[n].players, h) \/ Granted(h)
    <3>1. CASE n = roomNum[s]
      <4>1. h = s
        BY <2>1, <2>3, <3>1 DEF First, IsHost, RoomOf
      <4>2. QED
        BY <1>1, <4>1 DEF Granted
    <3>2. CASE n # roomNum[s]
      BY <2>2, <2>3, <3>2
    <3>3. QED
      BY <3>1, <3>2
  <2>4. QED
    BY <2>2, <2>3, SameNumbers DEF HostsButGivers
<1>2. ASSUME NEW s \in Session, SwitchToObserver(s) PROVE Hosts /\ Outs
  <2> DEFINE r == RoomOf(s)
             i == SeatOf(r.players, s)
  <2>1. InRoom(s) /\ i \in DOMAIN r.players /\ Update(s, MovedToObservers(r, i))
    BY <1>2, SeatOfType DEF SwitchToObserver
  <2>2. r \in RoomRecord /\ r.players \in Seq(Seat) /\ Distinct(r.players)
    BY <2>1, HisRoom
  <2> HIDE DEF i
  <2>3. MovedToObservers(r, i).players = SwapRemove(r.players, i)
    BY <2>2 DEF MovedToObservers, RoomRecord
  <2>4. Thins(r.players, SwapRemove(r.players, i))
    BY <2>1, <2>2, SeatRemoved
  <2> DEFINE t == MovedToObservers(r, i)
  <2>5. Update(s, t) /\ Stays(RoomOf(s).players, t.players)
    BY <2>1, <2>3, <2>4 DEF Thins
  <2> HIDE DEF t
  <2>6. QED
    BY <2>5, UpdateStays
<1>3. ASSUME NEW s \in Session, SwitchToPlayer(s) PROVE Hosts /\ Outs
  <2> DEFINE r == RoomOf(s)
             i == SeatOf(r.observers, s)
  <2>1. InRoom(s) /\ Update(s, MovedToPlayers(r, i))
    BY <1>3 DEF SwitchToPlayer
  <2>2. r \in RoomRecord /\ r.players \in Seq(Seat)
    BY <2>1, HisRoom
  <2> HIDE DEF i
  <2> DEFINE t == MovedToPlayers(r, i)
             x == r.observers[i]
  <2>3. t.players = Append(r.players, x)
    BY <2>2 DEF MovedToPlayers, RoomRecord
  <2> HIDE DEF t, x
  <2>4. r.players # <<>> => 1 \in DOMAIN r.players /\ Append(r.players, x)[1] = r.players[1]
                            /\ Append(r.players, x) # <<>>
    BY <2>2
  <2>5. Stays(r.players, t.players)
    BY <2>3, <2>4 DEF Stays, First
  <2>6. Update(s, t) /\ Stays(RoomOf(s).players, t.players)
    BY <2>1, <2>5 DEF t
  <2>7. QED
    BY <2>6, UpdateStays
<1>4. ASSUME NEW s \in Session, ToggleObservers(s) PROVE Hosts /\ Outs
  <2> DEFINE r == RoomOf(s)
             n == roomNum[s]
             G == LiveIn(r.observers)
  <2>1. /\ InRoom(s) /\ n \in DOMAIN rooms /\ r = rooms[n] /\ r \in RoomRecord
    BY <1>4, HisRoom DEF ToggleObservers
  <2>2. /\ rooms' = [rooms EXCEPT ![n] = ObserversToggled(@)]
        /\ roomNum' = IF r.obsOn THEN Unhoused(roomNum, G) ELSE roomNum
    BY <1>4 DEF ToggleObservers
  <2>3. ObserversToggled(r).players = r.players /\ ObserversToggled(r).obsOn # r.obsOn
    BY <2>1 DEF ObserversToggled, RoomRecord
  <2>4. rooms' = [rooms EXCEPT ![n] = ObserversToggled(r)]
    BY <2>1, <2>2
  <2> DEFINE t == ObserversToggled(r)
  <2> HIDE DEF t
  <2>5. Hosts
    <3>1. Stays(rooms[n].players, t.players) /\ rooms' = [rooms EXCEPT ![n] = t]
      BY <2>1, <2>3, <2>4 DEF Stays, t
    <3> HIDE DEF n
    <3>2. QED
      BY <3>1, RoomStays
  <2>6. ASSUME NumbersLeft, NEW m \in DOMAIN rooms \cap DOMAIN rooms',
               rooms[m].obsOn = rooms'[m].obsOn, NEW k \in Session, roomNum[k] = m
        PROVE  roomNum'[k] = m
    <3>1. m # n
      BY <2>1, <2>3, <2>4, <2>6 DEF t
    <3>2. k \notin G
      <4>1. k \notin Members(r)
        BY <2>1, <2>6, <3>1, SeatsFacts
      <4>2. QED
        BY <4>1 DEF Members
    <3> HIDE DEF G, n, r
    <3>3. QED
      BY <2>2, <2>6, <3>2, SeatsFacts DEF Unhoused
  <2>7. QED
    BY <2>5, <2>6 DEF Outs
<1>5. QED
  BY <1>0, <1>1, <1>2, <1>3, <1>4 DEF Seating

\* What the seats show is all that a match changes.
LEMMA ShownStays ==
    ASSUME SeatsInv, NEW n \in DOMAIN rooms, NEW t, rooms' = [rooms EXCEPT ![n] = t],
           NEW u \in RoomRecord, SeatedOnce(u), u.players = rooms[n].players, NEW who, NEW v,
           t.players = SetStateFor(u, who, v).players, roomNum' = roomNum
    PROVE  Hosts /\ Outs
<1>1. Thins(u.players, SetStateFor(u, who, v).players)
  BY InPlaceThins
<1>2. Stays(rooms[n].players, t.players)
  BY <1>1 DEF Thins
<1>3. QED
  BY <1>2, RoomStays, SameNumbers

LEMMA FightingStays == ASSUME SeatsInv, Fighting PROVE Hosts /\ Outs
<1>0. Good(Now) /\ SeatsMatch(Now)
  BY SeatsFacts
<1>1. ASSUME NEW s \in Session, StartMatch(s) PROVE Hosts /\ Outs
  <2>1. InRoom(s) /\ roomNum[s] \in DOMAIN rooms /\ RoomOf(s) = rooms[roomNum[s]]
        /\ RoomOf(s) \in RoomRecord /\ SeatedOnce(RoomOf(s))
    BY <1>1, HisRoom DEF StartMatch
  <2>2. CASE rooms' = [rooms EXCEPT ![roomNum[s]] = StartedRoom(@)] /\ roomNum' = roomNum
    <3> DEFINE r == RoomOf(s)
               n == roomNum[s]
               u == [ResetVotekick(r) EXCEPT !.started = TRUE, !.vkStarters = {}]
               t == StartedRoom(r)
               who == Starters(r)
    <3>1. u.players = r.players /\ u.observers = r.observers /\ u \in RoomRecord
      BY <2>1 DEF ResetVotekick, ClearVote, RoomRecord
    <3>2. t = SetStateFor(u, who, "NORMAL")
      BY DEF StartedRoom
    <3> HIDE DEF u, who
    <3>3. SeatedOnce(u) /\ rooms' = [rooms EXCEPT ![n] = t]
      BY <2>1, <2>2, <3>1 DEF SeatedOnce
    <3>4. u.players = rooms[n].players /\ t.players = SetStateFor(u, who, "NORMAL").players
          /\ n \in DOMAIN rooms /\ roomNum' = roomNum
      BY <2>1, <2>2, <3>1, <3>2
    <3> HIDE DEF n, t, r
    <3>5. QED
      BY <3>1, <3>3, <3>4, ShownStays
  <2>3. CASE Become(SetStateIn(Now, roomNum[s], {s}, "NORMAL"))
    BY <1>0, <2>1, <2>3, NowFields, SetStateInPassing, PassingStep
  <2>4. QED
    BY <1>1, <2>2, <2>3 DEF StartMatch
<1>2. ASSUME NEW s \in Session, LeaveMatch(s) PROVE Hosts /\ Outs
  BY <1>2, LeaveStays DEF LeaveMatch
<1>3. ASSUME NEW s \in Session, EndMatch(s) PROVE Hosts /\ Outs
  <2> DEFINE r == RoomOf(s)
             n == roomNum[s]
             u == ClearVote(r)
             t == EndedRoom(r, pstate)
             who == Returning(r, pstate)
  <2>1. n \in DOMAIN rooms /\ r = rooms[n] /\ r \in RoomRecord /\ SeatedOnce(r)
    BY <1>3, HisRoom DEF EndMatch
  <2>2. rooms' = [rooms EXCEPT ![n] = t] /\ roomNum' = roomNum
    BY <1>3, <2>1 DEF EndMatch
  <2>3. u \in RoomRecord /\ SeatedOnce(u)
    BY <2>1, ChangesType, ClearVoteKeeps DEF Keeps
  <2>4. u.players = r.players
    BY <2>1 DEF ClearVote, RoomRecord
  <2>5. t.players = SetStateFor(u, who, "WAITING").players
    <3>1. t = [SetStateFor(u, who, "WAITING") EXCEPT !.started = FALSE]
      BY DEF EndedRoom
    <3>2. SetStateFor(u, who, "WAITING") \in RoomRecord
      BY <2>3, ChangesType DEF State
    <3> HIDE DEF t, u, who
    <3>3. QED
      BY <3>1, <3>2 DEF RoomRecord
  <2>6. u.players = rooms[n].players
    BY <2>1, <2>4
  <2> HIDE DEF r, n, u, t, who
  <2>7. QED
    BY <2>1, <2>2, <2>3, <2>5, <2>6, ShownStays
<1>4. ASSUME NEW s \in Session, NEW v \in ClientStates, PlayerState(s, v) PROVE Hosts /\ Outs
  <2> DEFINE x == [Now EXCEPT !.ps = [@ EXCEPT ![s] = v]]
             y == SetStateIn(x, roomNum[s], {s}, v)
             t == SetStateFor(rooms[roomNum[s]], {s}, v)
  <2>1. x.rooms = rooms /\ x.num = roomNum
    BY DEF Now
  <2>2. CASE Become(x)
    BY <2>1, <2>2, SameRooms DEF Become
  <2>3. CASE InRoom(s) /\ Become(y)
    <3>1. roomNum[s] \in DOMAIN rooms /\ rooms[roomNum[s]] \in RoomRecord
          /\ SeatedOnce(rooms[roomNum[s]])
      BY <2>3, HisRoom
    <3>2. y.rooms = [rooms EXCEPT ![roomNum[s]] = t] /\ y.num = roomNum
      BY DEF SetStateIn, Put, Now
    <3> DEFINE n == roomNum[s]
    <3> HIDE DEF x, y, t
    <3>3. rooms' = [rooms EXCEPT ![n] = t] /\ roomNum' = roomNum
      BY <2>3, <3>2 DEF Become
    <3>4. t.players = SetStateFor(rooms[n], {s}, v).players
      BY DEF t
    <3> HIDE DEF n
    <3>5. QED
      BY <3>1, <3>3, <3>4, ShownStays DEF n
  <2>4. QED
    BY <1>4, <2>2, <2>3 DEF PlayerState
<1>5. ASSUME NEW s \in Session, NEW v \in CastStates, CastState(s, v) PROVE Hosts /\ Outs
  BY <1>5, SameRooms DEF CastState
<1>6. QED
  BY <1>1, <1>2, <1>3, <1>4, <1>5 DEF Fighting

LEMMA VotingStays == ASSUME SeatsInv, Voting PROVE Hosts /\ Outs
<1>1. ASSUME NEW s \in Session, NEW t \in Session, StartVotekick(s, t) PROVE Hosts /\ Outs
  <2> DEFINE u == [RoomOf(s) EXCEPT !.vkTarget = t, !.vkYes = @ + 1, !.vkStarters = @ \cup {s}]
  <2>1. InRoom(s) /\ Update(s, u)
    BY <1>1 DEF StartVotekick
  <2>2. u.players = RoomOf(s).players
    BY <2>1, HisRoom DEF RoomRecord
  <2> HIDE DEF u
  <2>3. Stays(RoomOf(s).players, u.players)
    BY <2>2 DEF Stays
  <2>4. QED
    BY <2>1, <2>3, UpdateStays
<1>2. ASSUME NEW s \in Session, VoteYes(s) PROVE Hosts /\ Outs
  <2> DEFINE u == [RoomOf(s) EXCEPT !.vkYes = @ + 1]
  <2>1. InRoom(s) /\ Update(s, u)
    BY <1>2 DEF VoteYes
  <2>2. u.players = RoomOf(s).players
    BY <2>1, HisRoom DEF RoomRecord
  <2> HIDE DEF u
  <2>3. Stays(RoomOf(s).players, u.players)
    BY <2>2 DEF Stays
  <2>4. QED
    BY <2>1, <2>3, UpdateStays
<1>3. ASSUME NEW s \in Session, VoteResult(s) PROVE Hosts /\ Outs
  <2> DEFINE r == RoomOf(s)
             c == ClearVote(r)
             t == r.vkTarget
  <2>1. InRoom(s)
    BY <1>3 DEF VoteResult
  <2>2. PICK o \in (IF VotePassed(r) THEN VotekickPlayer(c, t, pstate) ELSE {Stay(c)}) :
           Become(Settle(Now, roomNum[s], o))
    BY <1>3 DEF VoteResult
  <2>3. /\ c \in RoomRecord /\ Keeps(r, c, {})
    BY <2>1, HisRoom, ChangesType, ClearVoteKeeps
  <2>4. c.players = r.players
    BY <2>1, HisRoom DEF ClearVote, RoomRecord
  <2> HIDE DEF c, t
  <2>5. o \in Outcome /\ Keeps(c, o.room, o.gone) /\ LetsGo(c, o, t)
    <3>1. SeatedOnce(c)
      BY <2>3 DEF Keeps
    <3>2. CASE o \in VotekickPlayer(c, t, pstate)
      BY <2>3, <3>1, <3>2, VotekickPlayerType, VotekickFair, VotekickLetsGo DEF Fair
    <3>3. CASE o = Stay(c)
      <4>1. Stay(c) \in Outcome
        BY <2>3 DEF Stay, Outcome
      <4>2. QED
        BY <3>1, <3>3, <4>1, StayFair, StayLetsGo DEF Fair
    <3>4. QED
      BY <2>2, <3>2, <3>3
  <2>6. Keeps(r, o.room, o.gone) /\ LetsGo(r, o, t)
    BY <2>3, <2>4, <2>5, KeepsThen DEF LetsGo
  <2>7. QED
    BY <2>1, <2>2, <2>5, <2>6, HisRoom, SettleStays
<1>4. QED
  BY <1>1, <1>2, <1>3 DEF Voting

LEMMA NextStays ==
    ASSUME SeatsInv, [Next]_vars
    PROVE  Outs /\ (HostsButGivers \/ Appointed)
<1>1. Hosts => HostsButGivers
  BY DEF Hosts, Stays, HostsButGivers
<1>2. ASSUME UNCHANGED vars PROVE Hosts /\ Outs
  BY <1>2, SameRooms DEF vars
<1>3. QED
  BY <1>1, <1>2, ComingStays, MovingStays, ModeratingStays, SeatingStays, FightingStays,
     VotingStays DEF Next

\* HostKeepsSeat, of every server: a host that is still among the players of a
\* room is its host still, unless it gave the seat away or staff did.  The swap
\* of playerRoomLeaveNotification moves the last seat over the one that leaves,
\* so the first seat changes hands only when its session goes, or through
\* changeHost just before (Stays, of every member function).
THEOREM HostsStay == Spec => HostKeepsSeat
<1> DEFINE P == \A n \in DOMAIN rooms \cap DOMAIN rooms' :
                   LET host == HostOf(rooms[n])
                   IN  host \in LiveIn(rooms'[n].players) /\ HostOf(rooms'[n]) # host
                       => \/ \E i \in 1 .. MaxPlayers : GiveHost(host, i)
                          \/ \E m \in Staff, t \in Session : ModChangeHost(m, t)
                          \/ \E t \in Web : HttpHostChange(t)
<1>1. ASSUME SeatsInv, Inv', [Next]_vars PROVE P
  <2>1. SUFFICES ASSUME NEW n \in DOMAIN rooms \cap DOMAIN rooms', NEW h, h = HostOf(rooms[n]),
                        h \in LiveIn(rooms'[n].players), HostOf(rooms'[n]) # h, ~Appointed
                 PROVE  Granted(h)
    BY DEF Granted, Appointed
  <2>2. rooms[n] \in RoomRecord /\ rooms'[n] \in RoomRecord
    <3>1. IsRoomTable(rooms')
      BY <1>1 DEF Inv, TypeOK
    <3>2. QED
      BY <1>1, <3>1, SeatsFacts DEF IsRoomTable
  <2>3. h \in Session /\ h # NoSession
    <3>1. rooms'[n].players \in Seq(Seat)
      BY <2>2, RoomFields
    <3>2. LiveIn(rooms'[n].players) \subseteq Session
      BY <3>1, LiveInType
    <3>3. QED
      BY <2>1, <3>2, RoomAssumption
  <2>4. First(rooms[n].players, h) /\ ~First(rooms'[n].players, h)
    <3> DEFINE t == rooms'[n]
    <3>1. t \in RoomRecord /\ HostOf(t) # h
      BY <2>1, <2>2
    <3> HIDE DEF t
    <3>2. ~First(t.players, h)
      BY <2>3, <3>1, FirstHost
    <3>3. QED
      BY <2>1, <2>2, <2>3, <3>2, FirstHost DEF t
  <2>5. HostsButGivers
    BY <1>1, <2>1, NextStays
  <2>6. QED
    BY <2>1, <2>4, <2>5 DEF HostsButGivers
<1>2. SeatsInv /\ Inv' /\ [Next]_vars => [P]_vars
  BY <1>1
<1>3. HostKeepsSeat <=> [][P]_vars
  BY DEF HostKeepsSeat
<1> HIDE DEF P
<1>4. QED
  BY <1>2, <1>3, SeatsHold, InvHolds, PTL DEF Spec

\* OthersUndisturbed, while there are numbers left: one step sends one session at
\* most out of a room that is still there.  Each leave handler names the one that
\* goes; closing another room sends out that room's members, who by the agreement
\* of numbers and seats (SeatsInv) are in no other.
THEOREM OneLeaves == Spec => OthersUndisturbed
<1> DEFINE P == NumbersLeft =>
                   \A n \in DOMAIN rooms \cap DOMAIN rooms' :
                       rooms[n].obsOn = rooms'[n].obsOn =>
                           Cardinality({s \in Session : roomNum[s] = n /\ roomNum'[s] # n}) <= 1
<1>1. ASSUME SeatsInv, [Next]_vars PROVE P
  <2> SUFFICES ASSUME NumbersLeft, NEW n \in DOMAIN rooms \cap DOMAIN rooms',
                      rooms[n].obsOn = rooms'[n].obsOn
               PROVE  Cardinality({s \in Session : roomNum[s] = n /\ roomNum'[s] # n}) <= 1
    OBVIOUS
  <2> DEFINE D == {s \in Session : roomNum[s] = n /\ roomNum'[s] # n}
  <2>1. Outs
    BY <1>1, NextStays
  <2>2. PICK s : \A k \in Session : k # s /\ roomNum[k] = n => roomNum'[k] = n
    BY <2>1 DEF Outs
  <2>3. D = {} \/ D = {s}
    BY <2>2
  <2> HIDE DEF D
  <2>4. Cardinality(D) \in {0, 1}
    BY <2>3, FS_EmptySet, FS_Singleton
  <2>5. QED
    BY <2>4 DEF D
<1>2. SeatsInv /\ [Next]_vars => [P]_vars
  BY <1>1
<1>3. OthersUndisturbed <=> [][P]_vars
  BY DEF OthersUndisturbed
<1> HIDE DEF P
<1>4. QED
  BY <1>2, <1>3, SeatsHold, PTL DEF Spec

-----------------------------------------------------------------------------
(* Rooms of players who wait. *)

\* On the way from x to y such rooms are not closed.
Stands(x, y) == \A n \in DOMAIN x.rooms : Waiting(x.rooms[n], x.ps) => n \in DOMAIN y.rooms

\* ... and their players still wait.
Waits(x, y) ==
    \A n \in DOMAIN x.rooms :
        Waiting(x.rooms[n], x.ps) => n \in DOMAIN y.rooms /\ Waiting(y.rooms[n], y.ps)

\* What Settle leaves of the rooms it does not close.
LEMMA SettleRoom ==
    ASSUME NEW x \in World, NEW n \in DOMAIN x.rooms, NEW o \in Outcome
    PROVE  LET y == Settle(x, n, o)
           IN  /\ y.ps = x.ps
               /\ \A k \in DOMAIN x.rooms : k # n \/ ~o.close =>
                     k \in DOMAIN y.rooms /\ y.rooms[k] = IF k = n THEN o.room ELSE x.rooms[k]
<1> DEFINE f == [x.rooms EXCEPT ![n] = o.room]
           y == [Put(x, n, o.room) EXCEPT !.num = Unhoused(@, o.gone)]
<1>1. y.rooms = f /\ y.ps = x.ps
  BY DEF World, Put
<1>2. CloseRoom(y, n).rooms = Restrict(f, DOMAIN f \ {n}) /\ CloseRoom(y, n).ps = x.ps
  <2>1. n \in DOMAIN y.rooms
    BY <1>1
  <2>2. /\ CloseRoom(y, n).rooms = Restrict(y.rooms, DOMAIN y.rooms \ {n})
        /\ CloseRoom(y, n).ps = y.ps
    BY <2>1 DEF CloseRoom, Put, World
  <2>3. QED
    BY <1>1, <2>2
<1>3. o.close \in BOOLEAN /\ Settle(x, n, o) = IF o.close THEN CloseRoom(y, n) ELSE y
  BY DEF Outcome, Settle
<1>4. DOMAIN f = DOMAIN x.rooms /\ \A k \in DOMAIN f : f[k] = IF k = n THEN o.room ELSE x.rooms[k]
  OBVIOUS
<1> HIDE DEF f, y
<1>5. CASE o.close
  BY <1>2, <1>3, <1>4, <1>5 DEF Restrict
<1>6. CASE ~o.close
  BY <1>1, <1>3, <1>4, <1>6
<1>7. QED
  BY <1>3, <1>5, <1>6

LEMMA SettleStands ==
    ASSUME NEW x \in World, NEW n \in DOMAIN x.rooms, NEW o \in Outcome,
           Waiting(x.rooms[n], x.ps) => ~o.close
    PROVE  Stands(x, Settle(x, n, o))
BY SettleRoom DEF Stands

LEMMA SettleWaits ==
    ASSUME NEW x \in World, NEW n \in DOMAIN x.rooms, NEW o \in Outcome,
           Waiting(x.rooms[n], x.ps) => ~o.close /\ Waiting(o.room, x.ps)
    PROVE  Waits(x, Settle(x, n, o))
<1> DEFINE y == Settle(x, n, o)
<1>1. ASSUME NEW k \in DOMAIN x.rooms, Waiting(x.rooms[k], x.ps)
      PROVE  k \in DOMAIN y.rooms /\ Waiting(y.rooms[k], y.ps)
  <2>1. k # n \/ ~o.close
    BY <1>1
  <2>2. k \in DOMAIN y.rooms /\ y.ps = x.ps /\ y.rooms[k] = IF k = n THEN o.room ELSE x.rooms[k]
    BY <1>1, <2>1, SettleRoom
  <2> HIDE DEF y
  <2>3. QED
    BY <1>1, <2>2
<1>2. QED
  BY <1>1 DEF Waits

\* Waiting is a matter of who plays and what the sessions do.
LEMMA WaitingAs ==
    ASSUME NEW r, NEW t, NEW ps, NEW qs, Waiting(r, ps), LiveIn(t.players) = LiveIn(r.players),
           \A s \in LiveIn(r.players) : InMatch(qs[s]) => InMatch(ps[s])
    PROVE  Waiting(t, qs)
BY DEF Waiting

\* votekickPlayer never asks for the room to be closed.
LEMMA VotekickOpen ==
    ASSUME NEW r, NEW s, NEW ps, NEW o \in VotekickPlayer(r, s, ps)
    PROVE  ~o.close
<1>1. \A u : IgnoreClose(u).close = FALSE \/ "close" \notin DOMAIN u
  BY DEF IgnoreClose
<1>2. CASE o = Stay(r)
  BY <1>2 DEF Stay
<1>3. CASE o \in Kick(r, s, ps)
  <2>1. PICK u : o = IgnoreClose(u)
    BY <1>3 DEF Kick
  <2>2. QED
    BY <1>1, <2>1 DEF IgnoreClose
<1>4. QED
  BY <1>2, <1>3 DEF VotekickPlayer

\* What a votekick's target that tries to leave settles.
LEMMA TargetSettles ==
    ASSUME NEW x, Good(x), SeatsMatch(x), NEW n \in DOMAIN x.rooms, NEW s \in Session,
           NEW y \in LeaveAsTarget(x, n, s)
    PROVE  \E o \in VotekickPlayer(x.rooms[n], s, x.ps), p \in Outcome :
              /\ y = Settle(x, n, p) /\ p.room.players = o.room.players
              /\ p.close = FALSE /\ p.gone = o.gone
<1> DEFINE r == x.rooms[n]
<1>1. r \in RoomRecord /\ SeatedOnce(r)
  BY RoomIn
<1>2. PICK o \in VotekickPlayer(r, s, x.ps) :
          y = Settle(x, n, [o EXCEPT !.room = ResetVotekick(@)])
  BY DEF LeaveAsTarget
<1>3. o \in Outcome /\ o.close = FALSE
  <2>1. o \in Outcome /\ ~o.close
    BY <1>1, <1>2, VotekickPlayerType, VotekickOpen
  <2>2. o.close \in BOOLEAN
    BY <2>1 DEF Outcome
  <2>3. QED
    BY <2>1, <2>2
<1> DEFINE p == [o EXCEPT !.room = ResetVotekick(@)]
<1>4. p.room = ResetVotekick(o.room) /\ p.gone = o.gone /\ o.room \in RoomRecord /\ p.close = o.close
  BY <1>3 DEF Outcome
<1>5. p \in Outcome
  BY <1>3, <1>4, ChangesType DEF Outcome
<1>6. \A u \in RoomRecord : ResetVotekick(u).players = u.players
  BY DEF ResetVotekick, ClearVote, RoomRecord
<1> HIDE DEF p
<1>7. p.room.players = o.room.players /\ y = Settle(x, n, p)
  BY <1>2, <1>4, <1>6 DEF p
<1>8. QED
  BY <1>2, <1>3, <1>4, <1>5, <1>7

\* handleRoomLeave and handleMatchLeave close no room of players who wait.
LEMMA RoomLeaveStands ==
    ASSUME NEW x, Good(x), SeatsMatch(x), NEW s \in Session, NEW y \in RoomLeave(x, s)
    PROVE  Stands(x, y)
<1> DEFINE n == x.num[s]
<1>1. CASE n \notin DOMAIN x.rooms
  BY <1>1 DEF RoomLeave, Stands
<1>2. CASE n \in DOMAIN x.rooms /\ x.rooms[n].vkTarget = s
  <2>1. y \in LeaveAsTarget(x, n, s) /\ x \in World
    BY <1>2 DEF RoomLeave, Good
  <2>2. PICK p \in Outcome : y = Settle(x, n, p) /\ p.close = FALSE
    BY <1>2, <2>1, TargetSettles
  <2>3. QED
    BY <1>2, <2>1, <2>2, SettleStands
<1>3. CASE n \in DOMAIN x.rooms /\ x.rooms[n].vkTarget # s
  <2>1. x.rooms[n] \in RoomRecord /\ x \in World
    BY <1>3, RoomIn
  <2>2. PICK o \in RemovePlayer(x.rooms[n], s, x.ps) : y = Settle(x, n, o)
    BY <1>3 DEF RoomLeave
  <2>3. o \in Outcome /\ (Waiting(x.rooms[n], x.ps) => ~o.close)
    BY <2>1, <2>2, RemovePlayerType, WaitingStands
  <2>4. QED
    BY <1>3, <2>1, <2>2, <2>3, SettleStands
<1>4. QED
  BY <1>1, <1>2, <1>3

LEMMA SetStateInWaits ==
    ASSUME NEW x, Good(x), SeatsMatch(x), NEW n \in DOMAIN x.rooms, NEW s
    PROVE  Waits(x, SetStateIn(x, n, {s}, "WAITING"))
<1> DEFINE t == SetStateFor(x.rooms[n], {s}, "WAITING")
           f == [x.rooms EXCEPT ![n] = t]
           w == [k \in Session |->
                   IF k \in {s} \cap Members(x.rooms[n]) THEN "WAITING" ELSE x.ps[k]]
           y == SetStateIn(x, n, {s}, "WAITING")
<1>1. x \in World /\ x.rooms[n] \in RoomRecord /\ SeatedOnce(x.rooms[n])
  BY RoomIn
<1>2. y.rooms = f /\ y.ps = w
  BY <1>1 DEF SetStateIn, Put, World
<1>3. LiveIn(t.players) = LiveIn(x.rooms[n].players)
  BY <1>1, InPlaceThins
<1>4. /\ DOMAIN f = DOMAIN x.rooms /\ f[n] = t
      /\ \A k \in DOMAIN f : k # n => f[k] = x.rooms[k]
  OBVIOUS
<1>5. \A k \in Session : InMatch(w[k]) => InMatch(x.ps[k])
  BY DEF InMatch
<1> HIDE DEF t, f, w, y
<1>6. ASSUME NEW k \in DOMAIN x.rooms, Waiting(x.rooms[k], x.ps) PROVE Waiting(f[k], w)
  <2>1. LiveIn(f[k].players) = LiveIn(x.rooms[k].players)
    BY <1>3, <1>4
  <2>2. LiveIn(x.rooms[k].players) \subseteq Session
    BY RoomIn DEF Members
  <2>3. \A j \in LiveIn(x.rooms[k].players) : InMatch(w[j]) => InMatch(x.ps[j])
    BY <1>5, <2>2
  <2>4. QED
    BY <1>6, <2>1, <2>3, WaitingAs
<1>7. QED
  BY <1>2, <1>4, <1>6 DEF Waits, y

\* A session that fights leaves the match: it plays in no room that waits.
LEMMA MatchLeaveWaits ==
    ASSUME NEW x, Good(x), SeatsMatch(x), NEW s \in Session, InMatch(x.ps[s]),
           NEW y \in MatchLeave(x, s)
    PROVE  Waits(x, y)
<1> DEFINE n == x.num[s]
<1>1. CASE n \notin DOMAIN x.rooms
  BY <1>1 DEF MatchLeave, Waits
<1>2. CASE n \in DOMAIN x.rooms /\ x.rooms[n].vkTarget = s
  <2>1. y \in LeaveAsTarget(x, n, s) /\ x \in World /\ x.rooms[n] \in RoomRecord
    BY <1>2, RoomIn DEF MatchLeave
  <2>2. PICK o \in VotekickPlayer(x.rooms[n], s, x.ps), p \in Outcome :
           /\ y = Settle(x, n, p) /\ p.room.players = o.room.players /\ p.close = FALSE
    BY <1>2, <2>1, TargetSettles
  <2>3. ASSUME Waiting(x.rooms[n], x.ps) PROVE Waiting(p.room, x.ps)
    <3>1. o = Stay(x.rooms[n])
      BY <2>1, <2>2, <2>3, OutsiderLeaves
    <3>2. p.room.players = x.rooms[n].players
      BY <2>2, <3>1 DEF Stay
    <3>3. QED
      BY <2>3, <3>2 DEF Waiting
  <2>4. QED
    BY <1>2, <2>1, <2>2, <2>3, SettleWaits
<1>3. CASE n \in DOMAIN x.rooms /\ x.rooms[n].vkTarget # s
  <2>1. x.rooms[n] \in RoomRecord /\ x \in World
    BY <1>3, RoomIn
  <2>2. CASE IsHost(x.rooms[n], s)
    <3>1. PICK o \in RemoveHostFromMatch(x.rooms[n], x.ps) : y = Settle(x, n, o)
      BY <1>3, <2>2 DEF MatchLeave
    <3>2. o \in Outcome
      BY <2>1, <3>1, RemoveHostFromMatchType
    <3>3. ASSUME Waiting(x.rooms[n], x.ps) PROVE ~o.close /\ Waiting(o.room, x.ps)
      <4>1. o = Stay(x.rooms[n])
        BY <2>1, <2>2, <3>1, <3>3, OutsiderLeaves
      <4>2. QED
        BY <3>3, <4>1 DEF Stay
    <3>4. QED
      BY <1>3, <2>1, <3>1, <3>2, <3>3, SettleWaits
  <2>3. CASE ~IsHost(x.rooms[n], s)
    BY <1>3, <2>3, SetStateInWaits DEF MatchLeave
  <2>4. QED
    BY <2>2, <2>3
<1>4. QED
  BY <1>1, <1>2, <1>3

\* Whoever leaves the match, the rooms of those who wait stay.
LEMMA MatchLeaveStands ==
    ASSUME NEW x, Good(x), SeatsMatch(x), NEW s \in Session, NEW y \in MatchLeave(x, s)
    PROVE  Stands(x, y)
<1> DEFINE n == x.num[s]
<1>1. CASE n \notin DOMAIN x.rooms
  BY <1>1 DEF MatchLeave, Stands
<1>2. CASE n \in DOMAIN x.rooms /\ x.rooms[n].vkTarget = s
  <2>1. y \in LeaveAsTarget(x, n, s) /\ x \in World
    BY <1>2 DEF MatchLeave, Good
  <2>2. PICK p \in Outcome : y = Settle(x, n, p) /\ p.close = FALSE
    BY <1>2, <2>1, TargetSettles
  <2>3. QED
    BY <1>2, <2>1, <2>2, SettleStands
<1>3. CASE n \in DOMAIN x.rooms /\ x.rooms[n].vkTarget # s
  <2>1. x.rooms[n] \in RoomRecord /\ x \in World
    BY <1>3, RoomIn
  <2>2. CASE IsHost(x.rooms[n], s)
    <3>1. PICK o \in RemoveHostFromMatch(x.rooms[n], x.ps) : y = Settle(x, n, o)
      BY <1>3, <2>2 DEF MatchLeave
    <3>2. o \in Outcome /\ (Waiting(x.rooms[n], x.ps) => ~o.close)
      BY <2>1, <3>1, RemoveHostFromMatchType, WaitingStands
    <3>3. QED
      BY <1>3, <2>1, <3>1, <3>2, SettleStands
  <2>3. CASE ~IsHost(x.rooms[n], s)
    BY <1>3, <2>3, SetStateInWaits DEF MatchLeave, Waits, Stands
  <2>4. QED
    BY <2>2, <2>3
<1>4. QED
  BY <1>1, <1>2, <1>3

-----------------------------------------------------------------------------
\* No room of players who wait goes in this step.
RoomsStand ==
    \A n \in DOMAIN rooms : Waiting(rooms[n], pstate) => n \in DOMAIN rooms'

LEMMA StandsStep ==
    ASSUME NEW x, Stands(Now, x), Become(x)
    PROVE  RoomsStand
BY NowFields DEF Become, Stands, RoomsStand

LEMMA NoneGo ==
    ASSUME DOMAIN rooms \subseteq DOMAIN rooms'
    PROVE  RoomsStand
BY DEF RoomsStand

\* When two play and one at most goes, somebody is left.
LEMMA SomeoneLeft ==
    ASSUME NEW r, NEW t, NEW ps, NEW s, NEW G, Waiting(r, ps), Keeps(r, t, G), G \subseteq {s}
    PROVE  Members(t) # {}
<1>1. PICK a, b \in LiveIn(r.players) : a # b
  BY DEF Waiting
<1>2. a \in Members(r) /\ b \in Members(r)
  BY DEF Members
<1>3. a \notin G \/ b \notin G
  BY <1>1
<1>4. QED
  BY <1>2, <1>3 DEF Keeps

LEMMA ComingStands == ASSUME SeatsInv, Coming PROVE RoomsStand
<1>1. ASSUME NEW s \in Session, Connect(s) PROVE RoomsStand
  BY <1>1, NoneGo DEF Connect
<1>2. ASSUME NEW s \in Session, Disconnect(s) PROVE RoomsStand
  <2>1. PICK x \in (IF roomNum[s] # NoNumber /\ InMatch(pstate[s])
                    THEN MatchLeave(Now, s) ELSE {Now}) :
          \E y \in (IF roomNum[s] # NoNumber THEN RoomLeave(x, s) ELSE {x}) :
              Become(Destroyed(y, s))
    BY <1>2 DEF Disconnect
  <2>2. PICK y \in (IF roomNum[s] # NoNumber THEN RoomLeave(x, s) ELSE {x}) :
          Become(Destroyed(y, s))
    BY <2>1
  <2>3. Good(Now) /\ SeatsMatch(Now)
    BY SeatsFacts
  <2>4. /\ Good(x) /\ SeatsMatch(x) /\ Waits(Now, x)
    <3>1. CASE x = Now
      BY <2>3, <3>1 DEF Waits
    <3>2. CASE InMatch(pstate[s]) /\ x \in MatchLeave(Now, s)
      BY <2>3, <3>2, NowFields, MatchLeaveGood, MatchLeaveSeats, MatchLeaveWaits DEF After
    <3>3. QED
      BY <2>1, <3>1, <3>2
  <2>5. /\ Good(y) /\ Stands(x, y)
    <3>1. CASE y = x
      BY <2>4, <3>1 DEF Stands
    <3>2. CASE y \in RoomLeave(x, s)
      BY <2>4, <3>2, RoomLeaveGood, RoomLeaveStands
    <3>3. QED
      BY <2>2, <3>1, <3>2
  <2>6. DOMAIN Destroyed(y, s).rooms = DOMAIN y.rooms
    BY <2>5 DEF Destroyed, Good, World
  <2>7. Stands(Now, Destroyed(y, s))
    BY <2>4, <2>5, <2>6 DEF Stands, Waits
  <2>8. QED
    BY <2>2, <2>7, StandsStep
<1>3. QED
  BY <1>1, <1>2 DEF Coming

LEMMA LeaveStands ==
    ASSUME SeatsInv, NEW s \in Session, NEW x \in RoomLeave(Now, s) \cup MatchLeave(Now, s),
           Become(x)
    PROVE  RoomsStand
<1>1. Good(Now) /\ SeatsMatch(Now)
  BY SeatsFacts
<1>2. Stands(Now, x)
  BY <1>1, RoomLeaveStands, MatchLeaveStands
<1>3. QED
  BY <1>2, StandsStep

\* A room that is not closed when its session is taken out.
LEMMA OpenStands ==
    ASSUME SeatsInv, NEW n \in DOMAIN rooms, NEW o \in Outcome,
           Waiting(rooms[n], pstate) => ~o.close, Become(Settle(Now, n, o))
    PROVE  RoomsStand
<1>1. Now \in World
  BY SeatsFacts DEF Good
<1>2. Stands(Now, Settle(Now, n, o))
  BY <1>1, NowFields, SettleStands
<1>3. QED
  BY <1>2, StandsStep

LEMMA KickPlayerStands ==
    ASSUME SeatsInv, NEW s \in Session, NEW t \in Session, KickPlayer(s, t)
    PROVE  RoomsStand
<1>1. InRoom(s)
  BY DEF KickPlayer
<1>2. CASE \E x \in RoomLeave(Now, s) : Become(x)
  BY <1>2, LeaveStands
<1>3. CASE \E o \in RemovePlayer([RoomOf(s) EXCEPT !.kicked = @ \cup {t}], t, pstate) :
              Become(Settle(Now, roomNum[s], IgnoreClose(o)))
  <2> DEFINE u == [RoomOf(s) EXCEPT !.kicked = @ \cup {t}]
  <2>1. PICK o \in RemovePlayer(u, t, pstate) : Become(Settle(Now, roomNum[s], IgnoreClose(o)))
    BY <1>3
  <2>2. u \in RoomRecord
    BY <1>1, HisRoom, KickedKeeps
  <2> HIDE DEF u
  <2>3. o \in Outcome
    BY <2>1, <2>2, RemovePlayerType
  <2> DEFINE p == IgnoreClose(o)
  <2>4. p \in Outcome /\ p.close = FALSE
    BY <2>3, IgnoreCloseType DEF IgnoreClose, Outcome
  <2> HIDE DEF p
  <2>5. Become(Settle(Now, roomNum[s], p))
    BY <2>1 DEF p
  <2>6. QED
    BY <1>1, <2>4, <2>5, HisRoom, OpenStands
<1>4. QED
  BY <1>2, <1>3 DEF KickPlayer

LEMMA ListRoomsStands == ASSUME SeatsInv, ListRooms PROVE RoomsStand
<1> DEFINE empty == {n \in DOMAIN rooms : rooms[n].players = <<>>}
<1>1. rooms' = Restrict(rooms, DOMAIN rooms \ empty)
  BY DEF ListRooms
<1>2. ASSUME NEW n \in DOMAIN rooms, Waiting(rooms[n], pstate) PROVE n \notin empty
  <2>1. PICK a \in LiveIn(rooms[n].players) : TRUE
    BY <1>2 DEF Waiting
  <2>2. PICK i \in DOMAIN rooms[n].players : TRUE
    BY <2>1, LiveInDef
  <2>3. QED
    BY <2>2
<1> HIDE DEF empty
<1>3. DOMAIN rooms' = DOMAIN rooms \ empty
  BY <1>1 DEF Restrict
<1>4. QED
  BY <1>2, <1>3 DEF RoomsStand

LEMMA MovingStands == ASSUME SeatsInv, Moving PROVE RoomsStand
<1>1. ASSUME NEW s \in Session, CreateRoom(s) PROVE RoomsStand
  BY <1>1, NoneGo DEF CreateRoom
<1>2. ASSUME NEW s \in Session, NEW n \in DOMAIN rooms, JoinRoom(s, n) \/ JoinInvisible(s, n)
      PROVE  RoomsStand
  <2>1. \E t : rooms' = [rooms EXCEPT ![n] = t]
    BY <1>2 DEF JoinRoom, JoinInvisible, TakeSeat, Enter
  <2>2. QED
    BY <2>1, NoneGo
<1>3. ASSUME NEW s \in Session, NEW t \in Session, JoinFriend(s, t) PROVE RoomsStand
  BY <1>2, <1>3 DEF JoinFriend
<1>4. ASSUME NEW s \in Session, LeaveRoom(s) PROVE RoomsStand
  BY <1>4, LeaveStands DEF LeaveRoom
<1>5. QED
  BY <1>1, <1>2, <1>3, <1>4, KickPlayerStands, ListRoomsStands DEF Moving

\* A room is broken on purpose.
Broken(n) == (\E m \in Staff : BreakRoom(m)) \/ HttpBreakRoom(n)

StandOrBroken ==
    \A n \in DOMAIN rooms : Waiting(rooms[n], pstate) => n \in DOMAIN rooms' \/ Broken(n)

LEMMA ModeratingStands == ASSUME SeatsInv, Moderating PROVE StandOrBroken
<1>0. RoomsStand => StandOrBroken
  BY DEF RoomsStand, StandOrBroken
<1>1. ASSUME NEW m \in Session, NEW t \in Session, ModKick(m, t) PROVE RoomsStand
  <2>1. InRoom(m)
    BY <1>1 DEF ModKick
  <2>2. PICK o \in Kick(RoomOf(m), t, pstate) : Become(Settle(Now, roomNum[m], o))
    BY <1>1 DEF ModKick
  <2>3. o \in Outcome
    BY <2>1, <2>2, HisRoom, KickType
  <2>4. o.close = FALSE
    BY <2>2, <2>3 DEF Kick, IgnoreClose, Outcome
  <2>5. QED
    BY <2>1, <2>2, <2>3, <2>4, HisRoom, OpenStands
<1>2. ASSUME NEW m \in Session, NEW t, Update(m, t) PROVE RoomsStand
  BY <1>2, NoneGo DEF Update
<1>3. ASSUME NEW m \in Session, BreakRoom(m) PROVE StandOrBroken
  BY <1>3 DEF BreakRoom, StandOrBroken, Broken
<1>4. ASSUME NEW n \in DOMAIN rooms, HttpBreakRoom(n) PROVE StandOrBroken
  <2>1. rooms' = Restrict(rooms, DOMAIN rooms \ {n})
    BY <1>4, NowFields DEF HttpBreakRoom, Become, CloseRoom, Now
  <2>2. DOMAIN rooms' = DOMAIN rooms \ {n}
    BY <2>1 DEF Restrict
  <2>3. QED
    BY <1>4, <2>2 DEF StandOrBroken, Broken
<1>5. ASSUME NEW t \in Session, HttpKick(t) PROVE RoomsStand
  <2>1. InRoom(t)
    BY <1>5 DEF HttpKick
  <2>2. PICK o \in Kick(RoomOf(t), t, pstate) :
            Become(Settle(Now, roomNum[t], [o EXCEPT !.close = Members(o.room) = {}]))
    BY <1>5 DEF HttpKick
  <2>3. o \in Outcome /\ Keeps(RoomOf(t), o.room, o.gone) /\ LetsGo(RoomOf(t), o, t)
    BY <2>1, <2>2, HisRoom, KickType, KickFair, KickLetsGo DEF Fair
  <2> DEFINE p == [o EXCEPT !.close = Members(o.room) = {}]
  <2>4. p \in Outcome /\ p.close = (Members(o.room) = {})
    BY <2>3 DEF Outcome
  <2> HIDE DEF p
  <2>5. Waiting(RoomOf(t), pstate) => ~p.close
    BY <2>3, <2>4, SomeoneLeft DEF LetsGo
  <2>6. Become(Settle(Now, roomNum[t], p))
    BY <2>2 DEF p
  <2>7. QED
    BY <2>1, <2>4, <2>5, <2>6, HisRoom, OpenStands
<1>6. ASSUME NEW m \in Session, NEW t \in Session,
             ModUnkick(m, t) \/ ModChangeHost(m, t) \/ HttpHostChange(t)
      PROVE  RoomsStand
  BY <1>2, <1>6 DEF ModUnkick, ModChangeHost, HttpHostChange
<1>7. QED
  BY <1>0, <1>1, <1>3, <1>4, <1>5, <1>6 DEF Moderating

LEMMA OthersStand == ASSUME SeatsInv, Seating \/ Fighting \/ Voting PROVE RoomsStand
<1>1. ASSUME NEW n, NEW t, rooms' = [rooms EXCEPT ![n] = t] PROVE RoomsStand
  BY <1>1, NoneGo
<1>2. ASSUME NEW s \in Session, NEW t, Update(s, t) PROVE RoomsStand
  BY <1>1, <1>2 DEF Update
<1>3. CASE Seating
  <2>1. ASSUME NEW s \in Session, ToggleObservers(s) PROVE RoomsStand
    BY <1>1, <2>1 DEF ToggleObservers
  <2>2. QED
    BY <1>2, <1>3, <2>1 DEF Seating, GiveHost, SwitchToObserver, SwitchToPlayer
<1>4. CASE Fighting
  <2>1. ASSUME NEW s, NEW v, NEW w,
               Become(SetStateIn([rooms |-> rooms, gen |-> gen, num |-> roomNum, ps |-> w],
                                 roomNum[s], {s}, v))
        PROVE  RoomsStand
    <3> DEFINE t == SetStateFor(rooms[roomNum[s]], {s}, v)
    <3>1. rooms' = [rooms EXCEPT ![roomNum[s]] = t]
      BY <2>1 DEF SetStateIn, Put, Become
    <3> HIDE DEF t
    <3>2. QED
      BY <1>1, <3>1
  <2>2. ASSUME NEW s \in Session, StartMatch(s) PROVE RoomsStand
    <3>1. CASE Become(SetStateIn(Now, roomNum[s], {s}, "NORMAL"))
      BY <2>1, <3>1 DEF Now
    <3>2. CASE rooms' = [rooms EXCEPT ![roomNum[s]] = StartedRoom(@)]
      BY <1>1, <3>2
    <3>3. QED
      BY <2>2, <3>1, <3>2 DEF StartMatch
  <2>3. ASSUME NEW s \in Session, LeaveMatch(s) PROVE RoomsStand
    BY <2>3, LeaveStands DEF LeaveMatch
  <2>4. ASSUME NEW s \in Session, EndMatch(s) PROVE RoomsStand
    BY <1>1, <2>4 DEF EndMatch
  <2>5. ASSUME NEW s \in Session, NEW v \in ClientStates, PlayerState(s, v) PROVE RoomsStand
    <3> DEFINE w == [pstate EXCEPT ![s] = v]
               x == [rooms |-> rooms, gen |-> gen, num |-> roomNum, ps |-> w]
    <3>1. [Now EXCEPT !.ps = [@ EXCEPT ![s] = v]] = x
      BY DEF Now
    <3>2. Become(x) \/ Become(SetStateIn(x, roomNum[s], {s}, v))
      BY <2>5, <3>1 DEF PlayerState
    <3>3. CASE Become(x)
      BY <3>3, NoneGo DEF Become
    <3>4. CASE Become(SetStateIn(x, roomNum[s], {s}, v))
      BY <2>1, <3>4
    <3>5. QED
      BY <3>2, <3>3, <3>4
  <2>6. ASSUME NEW s \in Session, NEW v \in CastStates, CastState(s, v) PROVE RoomsStand
    BY <2>6, NoneGo DEF CastState
  <2>7. QED
    BY <1>4, <2>2, <2>3, <2>4, <2>5, <2>6 DEF Fighting
<1>5. CASE Voting
  <2>1. ASSUME NEW s \in Session, VoteResult(s) PROVE RoomsStand
    <3> DEFINE c == ClearVote(RoomOf(s))
               t == RoomOf(s).vkTarget
    <3>1. InRoom(s)
      BY <2>1 DEF VoteResult
    <3>2. PICK o \in (IF VotePassed(RoomOf(s)) THEN VotekickPlayer(c, t, pstate) ELSE {Stay(c)}) :
             Become(Settle(Now, roomNum[s], o))
      BY <2>1 DEF VoteResult
    <3>3. c \in RoomRecord
      BY <3>1, HisRoom, ChangesType
    <3> HIDE DEF c, t
    <3>4. o \in Outcome /\ ~o.close
      <4>1. CASE o \in VotekickPlayer(c, t, pstate)
        BY <3>3, <4>1, VotekickPlayerType, VotekickOpen
      <4>2. CASE o = Stay(c)
        BY <3>3, <4>2 DEF Stay, Outcome
      <4>3. QED
        BY <3>2, <4>1, <4>2
    <3>5. QED
      BY <3>1, <3>2, <3>4, HisRoom, OpenStands
  <2>2. QED
    BY <1>2, <1>5, <2>1 DEF Voting, StartVotekick, VoteYes
<1>6. QED
  BY <1>3, <1>4, <1>5

LEMMA NextStands == ASSUME SeatsInv, [Next]_vars PROVE StandOrBroken
<1>0. RoomsStand => StandOrBroken
  BY DEF RoomsStand, StandOrBroken
<1>1. UNCHANGED vars => RoomsStand
  BY NoneGo DEF vars
<1>2. QED
  BY <1>0, <1>1, ComingStands, MovingStands, ModeratingStands, OthersStand DEF Next

\* Two players or more, and the rest of what the property says of them.
LEMMA WaitingMeans ==
    ASSUME NEW r \in RoomRecord, NEW ps, Cardinality(LiveIn(r.players)) >= 2,
           \A s \in LiveIn(r.players) : ~InMatch(ps[s])
    PROVE  Waiting(r, ps)
<1> DEFINE L == LiveIn(r.players)
<1> HIDE DEF L
<1>1. Cardinality(L) >= 2
  BY DEF L
<1>0. L # {}
  BY <1>1, FS_EmptySet
<1>2. PICK a \in L : TRUE
  BY <1>0
<1>3. L # {a}
  <2>1. Cardinality({a}) = 1
    BY FS_Singleton
  <2>2. QED
    BY <1>1, <2>1
<1>4. PICK b \in L : a # b
  BY <1>2, <1>3
<1>5. QED
  BY <1>2, <1>4 DEF Waiting, L

\* WaitingRoomSurvives, of every server: a room with two players or more, none of
\* whom fights, is not closed by whoever leaves, is kicked or disconnects.  Both
\* searches for a new host find one among such players (WaitingFinds), and a
\* disconnect, which runs the two leaves one after the other, leaves the room
\* waiting between them (Waits).
THEOREM WaitingRoomsStand == Spec => WaitingRoomSurvives
<1> DEFINE P == \A n \in DOMAIN rooms :
                   /\ Cardinality(LiveIn(rooms[n].players)) >= 2
                   /\ \A s \in LiveIn(rooms[n].players) : ~InMatch(pstate[s])
                   => \/ n \in DOMAIN rooms'
                      \/ (\E m \in Staff : BreakRoom(m)) \/ HttpBreakRoom(n)
<1>1. ASSUME SeatsInv, [Next]_vars PROVE P
  <2>1. SUFFICES ASSUME NEW n \in DOMAIN rooms, Cardinality(LiveIn(rooms[n].players)) >= 2,
                        \A s \in LiveIn(rooms[n].players) : ~InMatch(pstate[s])
                 PROVE  n \in DOMAIN rooms' \/ Broken(n)
    BY DEF Broken
  <2>2. rooms[n] \in RoomRecord
    BY <1>1, SeatsFacts
  <2>3. Waiting(rooms[n], pstate)
    BY <2>1, <2>2, WaitingMeans
  <2>4. QED
    BY <1>1, <2>3, NextStands DEF StandOrBroken
<1>2. SeatsInv /\ [Next]_vars => [P]_vars
  BY <1>1
<1>3. WaitingRoomSurvives <=> [][P]_vars
  BY DEF WaitingRoomSurvives
<1> HIDE DEF P
<1>4. QED
  BY <1>2, <1>3, SeatsHold, PTL DEF Spec

-----------------------------------------------------------------------------
(* The host that leaves others fighting. *)

\* Session h, another of the players of room r and a fighter, is host of t.
Follows(r, ps, s, t) ==
    \E h \in LiveIn(r.players) \ {s} : InMatch(ps[h]) /\ First(t.players, h)

LEMMA MatchLeaveHands ==
    ASSUME NEW x, Good(x), SeatsMatch(x), Lively(x), x.gen.next <= MaxNumber, NEW s \in Session,
           x.num[s] \in DOMAIN x.rooms, HostOf(x.rooms[x.num[s]]) = s, InMatch(x.ps[s]),
           NEW a \in LiveIn(x.rooms[x.num[s]].players) \ {s}, InMatch(x.ps[a]),
           NEW y \in MatchLeave(x, s)
    PROVE  /\ x.num[s] \in DOMAIN y.rooms /\ y.num[s] = NoNumber
           /\ Follows(x.rooms[x.num[s]], x.ps, s, y.rooms[x.num[s]])
<1> DEFINE n == x.num[s]
           r == x.rooms[n]
<1>1. r \in RoomRecord /\ SeatedOnce(r) /\ x \in World
  BY RoomIn
<1>2. Alive(r) /\ r.vkTarget # s
  BY RoomAssumption DEF Lively, Alive
<1>3. IsHost(r, s)
  <2>1. First(r.players, s)
    BY <1>1, RoomAssumption, FirstHost
  <2>2. QED
    BY <2>1 DEF First, IsHost
<1>4. PICK o \in RemoveHostFromMatch(r, x.ps) : y = Settle(x, n, o)
  BY <1>2, <1>3 DEF MatchLeave
<1>5. o \in Outcome
  BY <1>1, <1>4, RemoveHostFromMatchType
<1>6. /\ o.close = FALSE /\ s \in o.gone
      /\ \E t \in LiveIn(r.players) \ {s} : InMatch(x.ps[t]) /\ First(o.room.players, t)
  BY <1>1, <1>2, <1>4, SuccessorFound
<1>7. n \in DOMAIN y.rooms /\ y.rooms[n] = o.room
  BY <1>1, <1>4, <1>5, <1>6, SettleRoom
<1>8. y.num[s] = NoNumber
  <2>1. y = [Put(x, n, o.room) EXCEPT !.num = Unhoused(@, o.gone)]
    BY <1>4, <1>6 DEF Settle
  <2>2. y.num = Unhoused(x.num, o.gone)
    BY <1>1, <2>1 DEF Put, World
  <2>3. QED
    BY <1>6, <2>2 DEF Unhoused
<1>9. QED
  BY <1>6, <1>7, <1>8 DEF Follows

\* The host of a room with another fighter in it leaves.
Succeeded(s) ==
    LET n == roomNum[s]
    IN  n \in DOMAIN rooms' /\ Follows(RoomOf(s), pstate, s, rooms'[n])

LEMMA HandsOver ==
    ASSUME SeatsInv, Lively(Now), NumbersLeft, NEW s \in Session, InRoom(s),
           HostOf(RoomOf(s)) = s, InMatch(pstate[s]),
           NEW a \in LiveIn(RoomOf(s).players) \ {s}, InMatch(pstate[a]),
           LeaveMatch(s) \/ Disconnect(s)
    PROVE  Succeeded(s)
<1> DEFINE n == roomNum[s]
<1>1. /\ Good(Now) /\ SeatsMatch(Now) /\ Now.gen.next <= MaxNumber
      /\ n \in DOMAIN rooms /\ RoomOf(s) = rooms[n] /\ n # NoNumber
  BY SeatsFacts, HisRoom, NowFields DEF NumbersLeft
<1>2. ASSUME NEW y \in MatchLeave(Now, s)
      PROVE  n \in DOMAIN y.rooms /\ y.num[s] = NoNumber
             /\ Follows(RoomOf(s), pstate, s, y.rooms[n])
  BY <1>1, <1>2, NowFields, MatchLeaveHands
<1>3. CASE LeaveMatch(s)
  <2>1. PICK y \in MatchLeave(Now, s) : Become(y)
    BY <1>3 DEF LeaveMatch
  <2>2. QED
    BY <1>2, <2>1 DEF Become, Succeeded
<1>4. CASE Disconnect(s)
  <2>1. PICK x \in MatchLeave(Now, s) : \E y \in RoomLeave(x, s) : Become(Destroyed(y, s))
    BY <1>1, <1>4 DEF Disconnect
  <2>2. Good(x) /\ SeatsMatch(x) /\ x.gen.next <= MaxNumber
    BY <1>1, <2>1, MatchLeaveGood, MatchLeaveSeats DEF After
  <2>3. x.num[s] \notin DOMAIN x.rooms
    BY <1>2, <2>1, <2>2 DEF SeatsMatch, Agreed
  <2>4. Become(Destroyed(x, s))
    BY <2>1, <2>3 DEF RoomLeave
  <2>5. Destroyed(x, s).rooms = [k \in DOMAIN x.rooms |-> Expired(x.rooms[k], s)]
    BY <2>2 DEF Good, World, Destroyed
  <2>6. n \in DOMAIN rooms' /\ rooms'[n] = Expired(x.rooms[n], s)
    BY <1>2, <2>1, <2>4, <2>5 DEF Become
  <2>7. PICK h \in LiveIn(RoomOf(s).players) \ {s} : InMatch(pstate[h]) /\ First(x.rooms[n].players, h)
    BY <1>2, <2>1 DEF Follows
  <2>8. First(Expired(x.rooms[n], s).players, h)
    BY <1>2, <2>1, <2>2, <2>7, RoomIn, InPlaceThins
  <2>9. QED
    BY <2>6, <2>7, <2>8 DEF Succeeded, Follows
<1>5. QED
  BY <1>3, <1>4

\* SuccessorFights, of a server where no session may start a votekick: the host
\* that leaves the match, or disconnects in it, while another player fights is
\* followed by one that fights.  The index the search answers counts the live
\* seats only, so it is the seat that was found because no player's seat is a
\* ghost's (Lively), which is why the theorem has that hypothesis.
THEOREM FighterSucceeds == ASSUME Voters = {} PROVE Spec => SuccessorFights
<1> DEFINE P == \A s \in Session :
          /\ NumbersLeft /\ InRoom(s) /\ HostOf(RoomOf(s)) = s /\ InMatch(pstate[s])
          /\ \E t \in LiveIn(RoomOf(s).players) \ {s} : InMatch(pstate[t])
          /\ LeaveMatch(s) \/ Disconnect(s)
          => LET n == roomNum[s]
             IN  /\ n \in DOMAIN rooms'
                 /\ HostOf(rooms'[n]) \in LiveIn(RoomOf(s).players) \ {s}
                 /\ InMatch(pstate[HostOf(rooms'[n])])
<1>1. ASSUME SeatsInv, Lively(Now), Inv', [Next]_vars PROVE P
  <2>1. SUFFICES ASSUME NEW s \in Session, NumbersLeft, InRoom(s), HostOf(RoomOf(s)) = s,
                        InMatch(pstate[s]),
                        \E t \in LiveIn(RoomOf(s).players) \ {s} : InMatch(pstate[t]),
                        LeaveMatch(s) \/ Disconnect(s)
                 PROVE  LET n == roomNum[s]
                        IN  /\ n \in DOMAIN rooms'
                            /\ HostOf(rooms'[n]) \in LiveIn(RoomOf(s).players) \ {s}
                            /\ InMatch(pstate[HostOf(rooms'[n])])
    OBVIOUS
  <2> DEFINE n == roomNum[s]
             t == rooms'[n]
  <2>2. Succeeded(s)
    BY <1>1, <2>1, HandsOver
  <2>3. n \in DOMAIN rooms' /\ t \in RoomRecord
    <3>1. IsRoomTable(rooms')
      BY <1>1 DEF Inv, TypeOK
    <3>2. QED
      BY <2>2, <3>1 DEF IsRoomTable, Succeeded
  <2>4. PICK h \in LiveIn(RoomOf(s).players) \ {s} : InMatch(pstate[h]) /\ First(t.players, h)
    BY <2>2 DEF Succeeded, Follows
  <2>5. h # NoSession
    <3>1. Members(RoomOf(s)) \subseteq Session
      BY <1>1, <2>1, HisRoom, MembersType
    <3>2. QED
      BY <2>4, <3>1, RoomAssumption DEF Members
  <2> HIDE DEF t
  <2>6. HostOf(t) = h
    BY <2>3, <2>4, <2>5, FirstHost
  <2>7. QED
    BY <2>3, <2>4, <2>6 DEF t
<1>2. SeatsInv /\ Lively(Now) /\ Inv' /\ [Next]_vars => [P]_vars
  BY <1>1
<1>3. Init => Lively(Now)
  BY SeatsInit
<1>4. SeatsInv /\ Lively(Now) /\ [Next]_vars => Lively(Now)'
  BY SeatsStep DEF Advances
<1>5. SuccessorFights <=> [][P]_vars
  BY DEF SuccessorFights
<1> HIDE DEF P
<1>6. QED
  BY <1>2, <1>3, <1>4, <1>5, SeatsHold, InvHolds, PTL DEF Spec
=============================================================================
