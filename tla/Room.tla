-------------------------------- MODULE Room --------------------------------
(***************************************************************************)
(* class Room (src/Classes/Room.cpp): one room's seats, host, match flag,  *)
(* kick list and votekick, as a record and operators on it.                *)
(*                                                                         *)
(* A seat is the pair the code keeps in m_players and m_observerPlayers:   *)
(* the RoomPlayerInfo, whose unique id and state outlive the session, and  *)
(* the weak_ptr, "live" until the session is destroyed.  A seat that is no *)
(* longer live is a ghost.  Seat 1 is m_players[0], the host.              *)
(*                                                                         *)
(* ps is the session-side player state (Player::m_playerState), which the  *)
(* room reads through the weak_ptr.  A member function that can remove a   *)
(* session answers a set of outcomes: the room afterwards, the sessions    *)
(* told to leave it, and whether the caller must close the room.  More     *)
(* than one outcome stands for the choice by ping.                         *)
(***************************************************************************)
EXTENDS Naturals, Sequences, FiniteSets

CONSTANTS
    Session,      \* session ids; one account each
    Staff,        \* sessions of grade GRADE_ES and above
    NoSession,    \* UniqueId{}
    MaxPlayers,   \* getPlayersPerTeam(): the room's player limit
    MaxObservers  \* maxObserverPlayers

ASSUME RoomAssumption ==
    /\ Staff \subseteq Session
    /\ NoSession \notin Session
    /\ MaxPlayers \in Nat \ {0}
    /\ MaxObservers \in Nat

\* Common::Enums::PlayerState as far as the rooms tell it apart: "SHOP" stands
\* for STATE_SHOP, STATE_INVENTORY and STATE_CAPSULE.
State == {"EXIT", "LOBBY", "SHOP", "WAITING", "READY", "NORMAL", "DYING"}

\* Player::isInMatch().  The flag that setIsInMatch() writes is never read.
InMatch(v) == v \in {"NORMAL", "DYING"}

Seat == [uid : Session, live : BOOLEAN, state : State]

RoomRecord ==
    [players : Seq(Seat), observers : Seq(Seat), started : BOOLEAN,
     obsOn : BOOLEAN, kicked : SUBSET Session, vkStarters : SUBSET Session,
     vkTarget : Session \cup {NoSession}, vkYes : Nat]

\* createRoomPlayerInfo: everyone enters a room as STATE_WAITING.
NewSeat(s) == [uid |-> s, live |-> TRUE, state |-> "WAITING"]

NewRoom(s, observersOn) ==
    [players |-> <<NewSeat(s)>>, observers |-> <<>>, started |-> FALSE,
     obsOn |-> observersOn, kicked |-> {}, vkStarters |-> {},
     vkTarget |-> NoSession, vkYes |-> 0]

-----------------------------------------------------------------------------
(* Looking seats up. *)

\* findPlayer / findObserverPlayer: the seat whose session is alive and has
\* this id (RoomAgreement: there is one at most).
SeatsOf(q, s) == {i \in DOMAIN q : q[i].live /\ q[i].uid = s}
Holds(q, s) == SeatsOf(q, s) # {}
SeatOf(q, s) == CHOOSE i \in DOMAIN q : q[i].live /\ q[i].uid = s

LiveIn(q) == {q[i].uid : i \in {j \in DOMAIN q : q[j].live}}
Members(r) == LiveIn(r.players) \cup LiveIn(r.observers)

\* isHost compares the id stored in m_players[0], alive or not.
IsHost(r, s) == r.players # <<>> /\ r.players[1].uid = s

\* The session whose host seat is alive, if there is one.
HostOf(r) ==
    IF r.players # <<>> /\ r.players[1].live THEN r.players[1].uid ELSE NoSession

-----------------------------------------------------------------------------
(* Rearranging the seats. *)

\* changeHost: swap with m_players[0].
SwapHost(q, i) == [q EXCEPT ![1] = q[i], ![i] = q[1]]

\* playerRoomLeaveNotification on m_players: swap with the last seat and pop.
SwapRemove(q, i) ==
    [j \in 1 .. (Len(q) - 1) |-> IF j = i THEN q[Len(q)] ELSE q[j]]

\* vector::erase, which m_observerPlayers uses.
Erase(q, i) ==
    [j \in 1 .. (Len(q) - 1) |-> IF j < i THEN q[j] ELSE q[j + 1]]

\* Seeded fault: checkInMatch is not consulted.
BestSeats_AnyState(r, s, fighting, ps) ==
    {i \in DOMAIN r.players : r.players[i].live /\ r.players[i].uid # s}

\* Seeded fault: the size test is off by one.
BestSeats_NeedsThree(r, s, fighting, ps) ==
    LET q == r.players
    IN  IF Len(q) <= 2 THEN {}
        ELSE {i \in DOMAIN q : /\ q[i].live /\ q[i].uid # s
                               /\ InMatch(ps[q[i].uid]) = fighting}

\* getBestMsIndexExceptSelf: the seats the best-ping search can answer for a
\* session other than s that is (fighting) or is not in the match.  The index
\* it answers counts only the live seats before the chosen one: the loop skips
\* a ghost without ++currentIdx.
BestSeats(r, s, fighting, ps) ==
    LET q == r.players
        candidates == {i \in DOMAIN q : /\ q[i].live /\ q[i].uid # s
                                        /\ InMatch(ps[q[i].uid]) = fighting}
        answered(i) == Cardinality({j \in 1 .. i : q[j].live})
    IN  IF Len(q) <= 1 THEN {} ELSE {answered(i) : i \in candidates}

-----------------------------------------------------------------------------
(* Outcomes. *)

Stay(r) == [room |-> r, gone |-> {}, close |-> FALSE]
MustClose(r) == [room |-> r, gone |-> {}, close |-> TRUE]

\* The caller drops the result that asks for the room to be closed.
IgnoreClose(o) == [o EXCEPT !.close = FALSE]

\* Seeded fault: session->leaveRoom() is missing.
Removed_Silent(r, i) ==
    [room |-> [r EXCEPT !.players = SwapRemove(@, i)],
     gone |-> {},
     close |-> Len(r.players) = 1]

\* removePlayerFromRoomAndMatch / playerRoomLeaveNotification on m_players.
Removed(r, i) ==
    [room |-> [r EXCEPT !.players = SwapRemove(@, i)],
     gone |-> IF r.players[i].live THEN {r.players[i].uid} ELSE {},
     close |-> Len(r.players) = 1]

\* removeHostFromMatch: hand the room to someone in the match (the host's own
\* state still counts), else to someone outside and end the match.
RemoveHostFromMatch(r, ps) ==
    LET host == HostOf(r)
        fighting == \E s \in LiveIn(r.players) : InMatch(ps[s])
        best == BestSeats(r, host, fighting, ps)
        handOver(i) == Removed([r EXCEPT !.players = SwapHost(@, i),
                                         !.started = @ /\ fighting], i)
    IN  IF host = NoSession THEN {Stay(r)}
        ELSE IF best = {} THEN {MustClose(r)}
        ELSE {IgnoreClose(handOver(i)) : i \in best}

\* removePlayer: a leaving host hands over to someone outside the match; when
\* nobody is, the room must close, unless the host is alone in it.
RemovePlayer(r, s, ps) ==
    LET best == BestSeats(r, s, FALSE, ps)
        without(t) == Removed(t, SeatOf(t.players, s))
    IN  IF r.players = <<>> THEN {Stay(r)}
        ELSE IF Holds(r.players, s) THEN
            IF ~IsHost(r, s) THEN {without(r)}
            ELSE IF best # {}
                 THEN {without([r EXCEPT !.players = SwapHost(@, i)]) : i \in best}
            ELSE IF Len(r.players) > 1 THEN {MustClose(r)}
            ELSE {without(r)}
        ELSE IF Holds(r.observers, s)
             THEN {[room |-> [r EXCEPT !.observers = Erase(@, SeatOf(@, s))],
                    gone |-> {s}, close |-> FALSE]}
        ELSE {Stay(r)}

\* kickPlayerImpl.
KickImpl(r, t, ps) ==
    IF InMatch(ps[t]) /\ IsHost(r, t) THEN RemoveHostFromMatch(r, ps)
    ELSE RemovePlayer(r, t, ps)

\* kickPlayer, and what votekickPlayer does once it found the target: the kick
\* list comes first, and a demand to close the room is dropped.
Kick(r, t, ps) ==
    {IgnoreClose(o) : o \in KickImpl([r EXCEPT !.kicked = @ \cup {t}], t, ps)}

\* votekickPlayer: players only, and never staff.
VotekickPlayer(r, t, ps) ==
    IF Holds(r.players, t) /\ t \notin Staff THEN Kick(r, t, ps) ELSE {Stay(r)}

-----------------------------------------------------------------------------
(* The votekick's fields, the match and the seats' states. *)

\* getVotekickResultDetails, and the fields endMatch clears.
ClearVote(r) == [r EXCEPT !.vkTarget = NoSession, !.vkYes = 0]

\* resetVotekick also clears m_hasMatchStarted.
ResetVotekick(r) == [ClearVote(r) EXCEPT !.started = FALSE]

SetStates(q, who, v) ==
    [i \in DOMAIN q |-> IF q[i].live /\ q[i].uid \in who
                        THEN [q[i] EXCEPT !.state = v] ELSE q[i]]

\* setStateFor on every session of who that is in the room.
SetStateFor(r, who, v) ==
    [r EXCEPT !.players = SetStates(@, who, v),
              !.observers = SetStates(@, who, v)]

\* startMatch: the host and everyone whose seat is READY enter the match.
Starters(r) ==
    {s \in Members(r) :
        \/ s = HostOf(r)
        \/ \E q \in {r.players, r.observers} : \E i \in SeatsOf(q, s) :
               q[i].state = "READY"}

\* Seeded fault: resetVotekick runs after m_hasMatchStarted is set.
StartedRoom_ResetLast(r) ==
    SetStateFor([ResetVotekick(r) EXCEPT !.vkStarters = {}], Starters(r), "NORMAL")

StartedRoom(r) ==
    SetStateFor([ResetVotekick(r) EXCEPT !.started = TRUE, !.vkStarters = {}],
                Starters(r), "NORMAL")

\* endMatch: everyone who is not in a menu or already waiting is set WAITING.
Returning(r, ps) ==
    {s \in Members(r) : ps[s] \notin {"LOBBY", "SHOP", "WAITING"}}

EndedRoom(r, ps) ==
    [SetStateFor(ClearVote(r), Returning(r, ps), "WAITING") EXCEPT !.started = FALSE]

\* getTotalPlayersInMatch counts seats, ghosts included.
TotalPlayersInMatch(r) ==
    Cardinality({i \in DOMAIN r.players : r.players[i].state = "NORMAL"})

\* handleRoomMiscellaneous: "Y" votes against the seats in the match.
VotePassed(r) ==
    LET total == TotalPlayersInMatch(r)
        no == IF r.vkYes <= total THEN total - r.vkYes ELSE 0
    IN  r.vkYes > no

\* changePlayerTeam between m_players and m_observerPlayers.
MovedToObservers(r, i) ==
    [r EXCEPT !.players = SwapRemove(@, i),
              !.observers = Append(@, r.players[i])]

\* Seeded fault: the observer is inserted at the front of m_players.
MovedToPlayers_Front(r, i) ==
    [r EXCEPT !.observers = Erase(@, i),
              !.players = <<r.observers[i]>> \o @]

MovedToPlayers(r, i) ==
    [r EXCEPT !.observers = Erase(@, i),
              !.players = Append(@, r.observers[i])]

\* switchSimpleSetting<SETTING_OBSERVER>: turning observers off empties the list.
ObserversToggled(r) ==
    [r EXCEPT !.obsOn = ~@, !.observers = IF r.obsOn THEN <<>> ELSE @]

\* The session s is destroyed: its weak_ptrs expire.
Expired(r, s) ==
    LET expire(q) == [i \in DOMAIN q |-> IF q[i].uid = s
                                         THEN [q[i] EXCEPT !.live = FALSE] ELSE q[i]]
    IN  [r EXCEPT !.players = expire(@), !.observers = expire(@)]
=============================================================================
