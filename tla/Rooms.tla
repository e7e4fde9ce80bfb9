------------------------------- MODULE Rooms -------------------------------
(***************************************************************************)
(* The rooms of the Main server: RoomsManager, the sessions' room number   *)
(* and player state, and every packet handler, chat command, IPC callback  *)
(* and disconnect that moves a session in or out of a room, moves the      *)
(* host, or starts and ends a match.                                       *)
(*                                                                         *)
(* All of them run on one asio io_context with one thread, so a handler is *)
(* one step.  Handlers call one another (a disconnect leaves the match and *)
(* then the room), so each is written as an operator from a World, what    *)
(* the handler can read and write, to the set of worlds it can leave.      *)
(***************************************************************************)
EXTENDS Room, RoomNumbers, Functions

CONSTANTS
    MaxRooms,      \* Constants::maxRooms
    Voters,        \* sessions whose isVotekickEnabled() holds
    Web,           \* sessions the administrators' web interface acts on
    ClientStates,  \* the states a client reports (order 158)
    CastStates,    \* the states the Cast server reports over IPC
    MaxVotes,      \* bound of the model on m_votekickYesses
    MaxWatchers    \* bound of the model on m_observerPlayers, which /join does not limit

ASSUME RoomsAssumption ==
    /\ MaxRooms \in Nat \ {0}
    /\ Voters \subseteq Session
    /\ Web \subseteq Session
    /\ ClientStates \subseteq State
    /\ CastStates \subseteq State
    /\ MaxVotes \in Nat
    /\ MaxWatchers \in Nat

VARIABLES
    rooms,    \* RoomsManager::m_roomByNumber
    gen,      \* RoomNumberGenerator<Room>
    roomNum,  \* Player::m_roomNumber; 0 when the session is in no room
    pstate,   \* Player::m_playerState
    online    \* SessionsManager::m_sessionsBySessionId

vars == <<rooms, gen, roomNum, pstate, online>>

Slot == {NoNumber} \cup Number

IsRoomTable(f) == DOMAIN f \subseteq Slot /\ f \in [DOMAIN f -> RoomRecord]

TypeOK ==
    /\ IsRoomTable(rooms)
    /\ gen \in Generator
    /\ roomNum \in [Session -> Slot]
    /\ pstate \in [Session -> State]
    /\ online \subseteq Session

Init ==
    /\ rooms = <<>>
    /\ gen = FreshGenerator
    /\ roomNum = [s \in Session |-> NoNumber]
    /\ pstate = [s \in Session |-> "EXIT"]
    /\ online = {}

-----------------------------------------------------------------------------
(* Worlds, and the effects the handlers share. *)

Now == [rooms |-> rooms, gen |-> gen, num |-> roomNum, ps |-> pstate]

Become(x) ==
    /\ rooms' = x.rooms
    /\ gen' = x.gen
    /\ roomNum' = x.num
    /\ pstate' = x.ps

\* Session::leaveRoom() on each of S.
Unhoused(num, S) == [s \in Session |-> IF s \in S THEN NoNumber ELSE num[s]]

Put(x, n, r) == [x EXCEPT !.rooms = [@ EXCEPT ![n] = r]]

\* Seeded fault: removeAllPlayers is not called.
CloseRoom_LeavesPlayers(x, n) ==
    IF n \notin DOMAIN x.rooms THEN x
    ELSE [x EXCEPT !.rooms = Restrict(@, DOMAIN @ \ {n}), !.gen = Released(@, n)]

\* Seeded fault: the room is not erased from the map.
CloseRoom_NotErased(x, n) ==
    IF n \notin DOMAIN x.rooms THEN x
    ELSE [x EXCEPT !.gen = Released(@, n),
                   !.num = Unhoused(@, Members(x.rooms[n]))]

\* RoomsManager::removeRoom: release the number, send everyone out, erase.
CloseRoom(x, n) ==
    IF n \notin DOMAIN x.rooms THEN x
    ELSE [x EXCEPT !.rooms = Restrict(@, DOMAIN @ \ {n}),
                   !.gen = Released(@, n),
                   !.num = Unhoused(@, Members(x.rooms[n]))]

\* What a member function of Room did to room n; the caller closes the room
\* when it was told to.
Settle(x, n, o) ==
    LET y == [Put(x, n, o.room) EXCEPT !.num = Unhoused(@, o.gone)]
    IN  IF o.close THEN CloseRoom(y, n) ELSE y

\* setStateFor reaches the seat and the session behind it.
SetStateIn(x, n, who, v) ==
    [Put(x, n, SetStateFor(x.rooms[n], who, v)) EXCEPT
        !.ps = [s \in Session |->
                   IF s \in who \cap Members(x.rooms[n]) THEN v ELSE @[s]]]

\* Seeded fault: the target is not told to leave the room.
LeaveAsTarget_Silent(x, n, s) ==
    {Settle(x, n, [o EXCEPT !.room = ResetVotekick(@), !.gone = {}]) :
        o \in VotekickPlayer(x.rooms[n], s, x.ps)}

\* votekickPlayer and then resetVotekick, for a target that tries to leave.
LeaveAsTarget(x, n, s) ==
    {Settle(x, n, [o EXCEPT !.room = ResetVotekick(@)]) :
        o \in VotekickPlayer(x.rooms[n], s, x.ps)}

\* handleRoomLeave, the branch of a normal leave.
RoomLeave(x, s) ==
    LET n == x.num[s]
    IN  IF n \notin DOMAIN x.rooms THEN {x}
        ELSE IF x.rooms[n].vkTarget = s THEN LeaveAsTarget(x, n, s)
        ELSE {Settle(x, n, o) : o \in RemovePlayer(x.rooms[n], s, x.ps)}

\* handleMatchLeave: the host leaves the room as well, anyone else is WAITING.
MatchLeave(x, s) ==
    LET n == x.num[s]
    IN  IF n \notin DOMAIN x.rooms THEN {x}
        ELSE IF x.rooms[n].vkTarget = s THEN LeaveAsTarget(x, n, s)
        ELSE IF IsHost(x.rooms[n], s)
             THEN {Settle(x, n, o) : o \in RemoveHostFromMatch(x.rooms[n], x.ps)}
        ELSE {SetStateIn(x, n, {s}, "WAITING")}

-----------------------------------------------------------------------------
(* Sessions come and go. *)

InRoom(s) == s \in online /\ roomNum[s] \in DOMAIN rooms
RoomOf(s) == rooms[roomNum[s]]

\* A step of session s, in a room, that changes that room alone.
Update(s, r) ==
    /\ rooms' = [rooms EXCEPT ![roomNum[s]] = r]
    /\ UNCHANGED <<gen, roomNum, pstate, online>>

Connect(s) ==
    /\ s \notin online
    /\ online' = online \cup {s}
    /\ UNCHANGED <<rooms, gen, roomNum, pstate>>

\* removeSession: out of the match, out of the room, and then the session
\* object dies and every weak_ptr to it expires.
Destroyed(x, s) ==
    [x EXCEPT !.rooms = [n \in DOMAIN @ |-> Expired(@[n], s)],
              !.num = [@ EXCEPT ![s] = NoNumber],
              !.ps = [@ EXCEPT ![s] = "EXIT"]]

\* Seeded fault: a session in a match leaves the match only.
Disconnect_MatchOnly(s) ==
    /\ s \in online
    /\ online' = online \ {s}
    /\ \E x \in IF roomNum[s] # NoNumber
                THEN IF InMatch(pstate[s]) THEN MatchLeave(Now, s) ELSE RoomLeave(Now, s)
                ELSE {Now} :
           Become(Destroyed(x, s))

Disconnect(s) ==
    /\ s \in online
    /\ online' = online \ {s}
    /\ \E x \in IF roomNum[s] # NoNumber /\ InMatch(pstate[s])
                THEN MatchLeave(Now, s) ELSE {Now} :
       \E y \in IF roomNum[s] # NoNumber THEN RoomLeave(x, s) ELSE {x} :
           Become(Destroyed(y, s))

-----------------------------------------------------------------------------
(* In and out of rooms. *)

\* handleRoomCreation: the constructor of Room draws the number before the
\* room count is tested, so a refused creation spends it.
CreateRoom(s) ==
    /\ s \in online
    /\ roomNum[s] = NoNumber
    /\ gen' = AfterGenerate(gen)
    /\ \/ /\ Cardinality(DOMAIN rooms) >= MaxRooms
          /\ UNCHANGED <<rooms, roomNum, pstate>>
       \/ /\ Cardinality(DOMAIN rooms) < MaxRooms
          /\ \E observersOn \in BOOLEAN :
                rooms' = [n \in DOMAIN rooms \cup {Generated(gen)} |->
                             IF n = Generated(gen) THEN NewRoom(s, observersOn)
                             ELSE rooms[n]]
          /\ roomNum' = [roomNum EXCEPT ![s] = Generated(gen)]
          /\ pstate' = [pstate EXCEPT ![s] = "WAITING"]
    /\ UNCHANGED online

Enter(s, n, r) ==
    /\ rooms' = [rooms EXCEPT ![n] = r]
    /\ roomNum' = [roomNum EXCEPT ![s] = n]
    /\ UNCHANGED <<gen, pstate, online>>

MayEnter(s, n) ==
    /\ s \in online
    /\ roomNum[s] = NoNumber
    /\ n \in DOMAIN rooms \ {NoNumber}
    /\ s \notin Members(rooms[n])

\* The second half of handleRoomJoin: everyone is told, and there is a new seat.
TakeSeat(s, n, asObserver) ==
    Enter(s, n, IF asObserver THEN [rooms[n] EXCEPT !.observers = Append(@, NewSeat(s))]
                              ELSE [rooms[n] EXCEPT !.players = Append(@, NewSeat(s))])

\* handleRoomJoin: a full room takes observers, while it allows them.
JoinRoom(s, n) ==
    /\ MayEnter(s, n)
    /\ s \notin rooms[n].kicked
    /\ \/ /\ Len(rooms[n].players) < MaxPlayers
          /\ TakeSeat(s, n, FALSE)
       \/ /\ Len(rooms[n].players) >= MaxPlayers
          /\ Len(rooms[n].observers) < MaxObservers
          /\ rooms[n].obsOn
          /\ TakeSeat(s, n, TRUE)

\* /join: staff in the lobby enter as observers, past the limits and the kick list.
JoinInvisible(s, n) ==
    /\ s \in Staff
    /\ pstate[s] = "LOBBY"
    /\ MayEnter(s, n)
    /\ Len(rooms[n].observers) < MaxWatchers
    /\ TakeSeat(s, n, TRUE)

\* handleJoinAndInvites: from the lobby into the room a friend is in.
JoinFriend(s, t) ==
    /\ t \in online /\ pstate[s] = "LOBBY"
    /\ roomNum[t] \in DOMAIN rooms
    /\ JoinRoom(s, roomNum[t])

LeaveRoom(s) ==
    /\ InRoom(s)
    /\ \E x \in RoomLeave(Now, s) : Become(x)
    /\ UNCHANGED online

\* Seeded fault: the kicked session always loses its room number.
KickPlayer_AnyTarget(s, t) ==
    /\ InRoom(s)
    /\ t \in online \ Staff
    /\ ~RoomOf(s).started
    /\ \E o \in RemovePlayer([RoomOf(s) EXCEPT !.kicked = @ \cup {t}], t, pstate) :
          Become(Settle(Now, roomNum[s], [IgnoreClose(o) EXCEPT !.gone = {t}]))
    /\ UNCHANGED online

\* handleRoomLeave with extra KICK_PLAYER: any member can send it, the target
\* need not be in the room, and a demand to close the room is dropped.  When
\* the target is no longer connected the request is a normal leave.
KickPlayer(s, t) ==
    /\ InRoom(s)
    /\ \/ /\ t \in online \ Staff
          /\ ~RoomOf(s).started
          /\ \E o \in RemovePlayer([RoomOf(s) EXCEPT !.kicked = @ \cup {t}], t, pstate) :
                Become(Settle(Now, roomNum[s], IgnoreClose(o)))
       \/ /\ t \notin online
          /\ \E x \in RoomLeave(Now, s) : Become(x)
    /\ UNCHANGED online

\* /kick, /unkick, /changehost and /breakroom, for the room the moderator is in.
ModKick(m, t) ==
    /\ m \in Staff /\ InRoom(m)
    /\ t \in Members(RoomOf(m)) \ Staff
    /\ \E o \in Kick(RoomOf(m), t, pstate) : Become(Settle(Now, roomNum[m], o))
    /\ UNCHANGED online

ModUnkick(m, t) ==
    /\ m \in Staff /\ InRoom(m)
    /\ t \in RoomOf(m).kicked
    /\ Update(m, [RoomOf(m) EXCEPT !.kicked = @ \ {t}])

ModChangeHost(m, t) ==
    /\ m \in Staff /\ InRoom(m)
    /\ Holds(RoomOf(m).players, t)
    /\ SeatOf(RoomOf(m).players, t) # 1
    /\ Update(m, [RoomOf(m) EXCEPT !.players = SwapHost(@, SeatOf(@, t))])

BreakRoom(m) ==
    /\ m \in Staff /\ InRoom(m)
    /\ Become(CloseRoom(Now, roomNum[m]))
    /\ UNCHANGED online

\* The same from the web interface, whose administrator is in no room.  It runs
\* on a thread of its own; its requests are taken to fall between two handlers.
HttpKick(t) ==
    /\ t \in Web \ Staff /\ InRoom(t)
    /\ \E o \in Kick(RoomOf(t), t, pstate) :
          Become(Settle(Now, roomNum[t], [o EXCEPT !.close = Members(o.room) = {}]))
    /\ UNCHANGED online

HttpHostChange(t) ==
    /\ t \in Web /\ InRoom(t)
    /\ Holds(RoomOf(t).players, t)
    /\ SeatOf(RoomOf(t).players, t) # 1
    /\ Update(t, [RoomOf(t) EXCEPT !.players = SwapHost(@, SeatOf(@, t))])

HttpBreakRoom(n) ==
    /\ Web # {}
    /\ Become(CloseRoom(Now, n))
    /\ UNCHANGED online

\* getRoomsList: a room without players is erased, and its number not released.
ListRooms ==
    LET empty == {n \in DOMAIN rooms : rooms[n].players = <<>>}
    IN  /\ empty # {}
        /\ rooms' = Restrict(rooms, DOMAIN rooms \ empty)
        /\ roomNum' = Unhoused(roomNum, UNION {Members(rooms[n]) : n \in empty})
        /\ UNCHANGED <<gen, pstate, online>>

-----------------------------------------------------------------------------
(* The host seat, the teams and the observers. *)

\* handleHostChange: the client names the seat.
GiveHost(s, i) ==
    /\ InRoom(s)
    /\ IsHost(RoomOf(s), s)
    /\ i \in DOMAIN RoomOf(s).players
    /\ Update(s, [RoomOf(s) EXCEPT !.players = SwapHost(@, i)])

\* changePlayerTeam: to the observers, whether or not the room allows them.
SwitchToObserver(s) ==
    /\ InRoom(s)
    /\ Holds(RoomOf(s).players, s)
    /\ ~InMatch(pstate[s])
    /\ Len(RoomOf(s).observers) < MaxObservers
    /\ Update(s, MovedToObservers(RoomOf(s), SeatOf(RoomOf(s).players, s)))

SwitchToPlayer(s) ==
    /\ InRoom(s)
    /\ ~Holds(RoomOf(s).players, s)
    /\ Holds(RoomOf(s).observers, s)
    /\ ~InMatch(pstate[s])
    /\ Len(RoomOf(s).players) < MaxPlayers
    /\ Update(s, MovedToPlayers(RoomOf(s), SeatOf(RoomOf(s).observers, s)))

ToggleObservers(s) ==
    /\ InRoom(s)
    /\ IsHost(RoomOf(s), s)
    /\ rooms' = [rooms EXCEPT ![roomNum[s]] = ObserversToggled(@)]
    /\ roomNum' = IF RoomOf(s).obsOn
                  THEN Unhoused(roomNum, LiveIn(RoomOf(s).observers)) ELSE roomNum
    /\ UNCHANGED <<gen, pstate, online>>

-----------------------------------------------------------------------------
(* The match. *)

\* handleRoomStart: the host starts the match, anyone else enters one that runs.
StartMatch(s) ==
    /\ InRoom(s)
    /\ \/ /\ IsHost(RoomOf(s), s)
          /\ HostOf(RoomOf(s)) # NoSession
          /\ rooms' = [rooms EXCEPT ![roomNum[s]] = StartedRoom(@)]
          /\ pstate' = [t \in Session |->
                           IF t \in Starters(RoomOf(s)) THEN "NORMAL" ELSE pstate[t]]
          /\ UNCHANGED <<gen, roomNum, online>>
       \/ /\ ~IsHost(RoomOf(s), s)
          /\ RoomOf(s).started
          /\ Become(SetStateIn(Now, roomNum[s], {s}, "NORMAL"))
          /\ UNCHANGED online

LeaveMatch(s) ==
    /\ InRoom(s)
    /\ \E x \in MatchLeave(Now, s) : Become(x)
    /\ UNCHANGED online

\* handleMatchEnding: the host's client reports the end; whether a match runs
\* is not tested.
EndMatch(s) ==
    /\ InRoom(s)
    /\ IsHost(RoomOf(s), s)
    /\ rooms' = [rooms EXCEPT ![roomNum[s]] = EndedRoom(@, pstate)]
    /\ pstate' = [t \in Session |->
                     IF t \in Returning(RoomOf(s), pstate) THEN "WAITING" ELSE pstate[t]]
    /\ UNCHANGED <<gen, roomNum, online>>

\* handlePlayerState: the session takes the state first, so the test that
\* should keep a fighter out of the menus reads the new state.
PlayerState(s, v) ==
    LET x == [Now EXCEPT !.ps = [@ EXCEPT ![s] = v]]
        refused == InMatch(x.ps[s]) /\ v \in {"SHOP", "READY"}
    IN  /\ s \in online
        /\ Become(IF InRoom(s) /\ ~refused THEN SetStateIn(x, roomNum[s], {s}, v) ELSE x)
        /\ UNCHANGED online

\* getPlayerStateUpdate, from the Cast server: the session only, not its seat.
CastState(s, v) ==
    /\ s \in online
    /\ pstate' = [pstate EXCEPT ![s] = v]
    /\ UNCHANGED <<rooms, gen, roomNum, online>>

-----------------------------------------------------------------------------
(* The votekick. *)

StartVotekick(s, t) ==
    /\ InRoom(s)
    /\ Holds(RoomOf(s).players, t)
    /\ t \notin Staff
    /\ s \in Voters \ RoomOf(s).vkStarters
    /\ RoomOf(s).vkYes < MaxVotes
    /\ Update(s, [RoomOf(s) EXCEPT !.vkTarget = t, !.vkYes = @ + 1,
                                   !.vkStarters = @ \cup {s}])

\* votekickVoteYes: who votes, and whether a votekick runs, is not tested.  A
\* model without voters has no client that votes or reports a result either.
VoteYes(s) ==
    /\ InRoom(s) /\ Voters # {}
    /\ RoomOf(s).vkYes < MaxVotes
    /\ Update(s, [RoomOf(s) EXCEPT !.vkYes = @ + 1])

VoteResult(s) ==
    /\ InRoom(s) /\ Voters # {}
    /\ \E o \in IF VotePassed(RoomOf(s))
                THEN VotekickPlayer(ClearVote(RoomOf(s)), RoomOf(s).vkTarget, pstate)
                ELSE {Stay(ClearVote(RoomOf(s)))} :
          Become(Settle(Now, roomNum[s], o))
    /\ UNCHANGED online

-----------------------------------------------------------------------------
Coming == \E s \in Session : Connect(s) \/ Disconnect(s)

Moving ==
    \/ \E s, t \in Session : KickPlayer(s, t) \/ JoinFriend(s, t)
    \/ \E s \in Session : CreateRoom(s) \/ LeaveRoom(s)
    \/ \E s \in Session, n \in DOMAIN rooms : JoinRoom(s, n) \/ JoinInvisible(s, n)
    \/ ListRooms

Moderating ==
    \/ \E m, t \in Session : ModKick(m, t) \/ ModUnkick(m, t) \/ ModChangeHost(m, t)
    \/ \E m \in Session : BreakRoom(m)
    \/ \E t \in Session : HttpKick(t) \/ HttpHostChange(t)
    \/ \E n \in DOMAIN rooms : HttpBreakRoom(n)

Seating ==
    \/ \E s \in Session, i \in 1 .. MaxPlayers : GiveHost(s, i)
    \/ \E s \in Session : SwitchToObserver(s) \/ SwitchToPlayer(s) \/ ToggleObservers(s)

Fighting ==
    \/ \E s \in Session : StartMatch(s) \/ LeaveMatch(s) \/ EndMatch(s)
    \/ \E s \in Session, v \in ClientStates : PlayerState(s, v)
    \/ \E s \in Session, v \in CastStates : CastState(s, v)

Voting ==
    \/ \E s, t \in Session : StartVotekick(s, t)
    \/ \E s \in Session : VoteYes(s) \/ VoteResult(s)

Next == Coming \/ Moving \/ Moderating \/ Seating \/ Fighting \/ Voting

Spec == Init /\ [][Next]_vars

-----------------------------------------------------------------------------
(* What the rooms promise. *)

\* The generator has not handed out its last fresh number, so no room was ever
\* created without one.  The claims below are made for such servers; in the run
\* RoomsOrders the numbers run out.
NumbersLeft == gen.next <= MaxNumber

\* A number is never handed out while a room carries it: RoomNumberManager.h
\* queues what removeRoom and getRoomsList give back without testing anything,
\* so this rests on who calls release and when.
NumbersConsistent ==
    /\ \A i, j \in DOMAIN gen.free : gen.free[i] = gen.free[j] => i = j
    /\ \A i \in DOMAIN gen.free : gen.free[i] < gen.next /\ gen.free[i] \notin DOMAIN rooms
    /\ \A n \in DOMAIN rooms : n < gen.next

\* The session's room number and the room's seats say the same: a connected
\* session is seated in the room it names and nowhere else, and no session has
\* two seats of a room.  Room and Player each keep half of this, and every
\* handler updates both by hand.
RoomAgreement ==
    /\ \A s \in Session : \A n \in DOMAIN rooms :
          Cardinality(SeatsOf(rooms[n].players, s))
            + Cardinality(SeatsOf(rooms[n].observers, s)) <= 1
    /\ NumbersLeft =>
          \A s \in Session :
              /\ roomNum[s] # NoNumber => s \in online /\ roomNum[s] \in DOMAIN rooms
              /\ \A n \in DOMAIN rooms : s \in Members(rooms[n]) <=> roomNum[s] = n

\* Without votekicks, every seat of a player belongs to a live session: the
\* disconnect path (removeSession, then handleMatchLeave and handleRoomLeave)
\* always frees the seat or closes the room.
NoGhostPlayers ==
    NumbersLeft =>
        \A n \in DOMAIN rooms : \A i \in DOMAIN rooms[n].players : rooms[n].players[i].live

\* A player whom the room shows as fighting is in a match the room knows of:
\* removeHostFromMatch and endMatch clear m_hasMatchStarted only when no
\* player's seat says otherwise, though they look at the sessions.
MatchImpliesStarted ==
    NumbersLeft =>
        \A n \in DOMAIN rooms : \A i \in DOMAIN rooms[n].players :
            InMatch(rooms[n].players[i].state) => rooms[n].started

\* A host that stays among the players and does not give the seat away keeps
\* it, whoever else leaves, joins or changes team: playerRoomLeaveNotification
\* reorders m_players, and seat 1 is the host.
HostKeepsSeat ==
    [][\A n \in DOMAIN rooms \cap DOMAIN rooms' :
          LET host == HostOf(rooms[n])
          IN  host \in LiveIn(rooms'[n].players) /\ HostOf(rooms'[n]) # host
              => \/ \E i \in 1 .. MaxPlayers : GiveHost(host, i)
                 \/ \E m \in Staff, t \in Session : ModChangeHost(m, t)
                 \/ \E t \in Web : HttpHostChange(t)]_vars

\* While there are numbers left, a host that leaves the match, or disconnects in
\* it, while others fight hands the room to one of them: the room survives and
\* its new host was fighting (the two searches of removeHostFromMatch).
SuccessorFights ==
    [][\A s \in Session :
          /\ NumbersLeft /\ InRoom(s) /\ HostOf(RoomOf(s)) = s /\ InMatch(pstate[s])
          /\ \E t \in LiveIn(RoomOf(s).players) \ {s} : InMatch(pstate[t])
          /\ LeaveMatch(s) \/ Disconnect(s)
          => LET n == roomNum[s]
             IN  /\ n \in DOMAIN rooms'
                 /\ HostOf(rooms'[n]) \in LiveIn(RoomOf(s).players) \ {s}
                 /\ InMatch(pstate[HostOf(rooms'[n])])]_vars

\* A room with two players or more, none of them fighting, is never closed
\* under them, whoever leaves: both ways out find a new host.
WaitingRoomSurvives ==
    [][\A n \in DOMAIN rooms :
          /\ Cardinality(LiveIn(rooms[n].players)) >= 2
          /\ \A s \in LiveIn(rooms[n].players) : ~InMatch(pstate[s])
          => \/ n \in DOMAIN rooms'
             \/ (\E m \in Staff : BreakRoom(m)) \/ HttpBreakRoom(n)]_vars

\* While a room survives, a step sends at most one session out of it, unless
\* the host turns the observers off.  Once the numbers have run out it is not
\* so: a session that made room 0 can lose its number and keep its seat in the
\* room it joined next; two such sessions that join a third room are sent out of
\* it together when the second is closed.
OthersUndisturbed ==
    [][NumbersLeft =>
          \A n \in DOMAIN rooms \cap DOMAIN rooms' :
              rooms[n].obsOn = rooms'[n].obsOn =>
                  Cardinality({s \in Session : roomNum[s] = n /\ roomNum'[s] # n}) <= 1]_vars
=============================================================================
