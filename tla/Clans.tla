------------------------------- MODULE Clans --------------------------------
(***************************************************************************)
(* Clan parties and clan rooms (Classes/ClanRoom.h, ClansManager.h,        *)
(* include/Handlers/Clan), composed with the rooms of module Rooms.        *)
(*                                                                         *)
(* The members of a clan wait in a party.  A party that is registered can  *)
(* be challenged by the party of another clan, and both are then seated in *)
(* a clan room.  Who waits where is kept by the party and by the session,  *)
(* who sits where by the room and by the session, and a leave has to undo  *)
(* both.  All rooms of this module are clan rooms; votekicks, kicks, ready *)
(* states and seats changed by hand work as in Rooms and are left out, and *)
(* so are the results of clan matches, which only the database keeps.      *)
(***************************************************************************)
EXTENDS Rooms, SequencesExt

CONSTANTS
    ClanOf,         \* the clan of each session
    MaxParties,     \* maxPartiesPerClan (4)
    PartySize,      \* PartyInfo::maxPlayers of a new party (8)
    Sizes,          \* the sizes a leader can set
    MaxRegistered   \* maxClanRooms (30)

ASSUME ClansAssumption ==
    /\ IsFiniteSet(Session) /\ DOMAIN ClanOf = Session
    /\ MaxParties \in Nat \ {0} /\ MaxRegistered \in Nat
    /\ Sizes \cup {PartySize} \subseteq 1 .. 15

VARIABLES
    parties,    \* m_clanRoomsByClanId, by clan and number
    partyNum    \* Player::m_clanRoomNumber, 0 for none

clanVars == <<vars, parties, partyNum>>

NoParty == 0
Clan == {ClanOf[s] : s \in Session}
Key == Clan \X (1 .. MaxParties)

\* m_waitingPlayers (the leader is the first), and of PartyInfo the count, the
\* limit and whether a match has started.
Party ==
    [waiting : Seq([uid : Session, live : BOOLEAN]), num : 0 .. 15, max : 1 .. 15,
     registered : BOOLEAN, started : BOOLEAN]

ClanTypeOK ==
    /\ TypeOK
    /\ DOMAIN parties \subseteq Key /\ parties \in [DOMAIN parties -> Party]
    /\ partyNum \in [Session -> 0 .. MaxParties]

ClanInit ==
    /\ Init
    /\ parties = <<>>
    /\ partyNum = [s \in Session |-> NoParty]

-----------------------------------------------------------------------------
(* Worlds (module Rooms) with parties. *)

ClanNow == [rooms |-> rooms, gen |-> gen, num |-> roomNum, ps |-> pstate,
            parties |-> parties, party |-> partyNum]

ClanBecome(x) ==
    /\ Become(x)
    /\ parties' = x.parties
    /\ partyNum' = x.party

\* getExactRoomFor, of the session's clan and number.
KeyOf(x, s) == <<ClanOf[s], x.party[s]>>
HasParty(x, s) == KeyOf(x, s) \in DOMAIN x.parties
PartyOf(x, s) == x.parties[KeyOf(x, s)]

IsLeader(p, s) == p.waiting # <<>> /\ p.waiting[1].live /\ p.waiting[1].uid = s
LeaderOf(p) == p.waiting[1].uid

\* getWaitingPlayerSessions: those alive, in the order they wait.
LiveWaiting(p) ==
    LET live == {i \in DOMAIN p.waiting : p.waiting[i].live}
        nth(n) == CHOOSE i \in live : Cardinality({j \in live : j <= i}) = n
    IN  [n \in 1 .. Cardinality(live) |-> p.waiting[nth(n)]]

\* getAllRegisteredClans: the list of what can be challenged.
OnList(ps) == {k \in DOMAIN ps : ps[k].registered /\ ps[k].waiting[1].live}

\* ClanRoom::addPlayer
AddedToParty(x, k, s) ==
    [x EXCEPT !.parties[k].waiting = Append(@, [uid |-> s, live |-> TRUE]),
              !.parties[k].num = @ + 1,
              !.party[s] = k[2]]

\* ClanRoom::removeAllPlayers: everyone is told that there is no party any more.
AllRemoved(x, k) ==
    [x EXCEPT !.party = [s \in Session |-> IF s \in LiveIn(x.parties[k].waiting)
                                           THEN NoParty ELSE @[s]]]

\* removeExactRoom
DropParty(x, k) == [AllRemoved(x, k) EXCEPT !.parties = Restrict(@, DOMAIN @ \ {k})]

\* changeLeaderToFirstAvailable: the first session alive after the leader.
Heirs(p) == {i \in 2 .. Len(p.waiting) : p.waiting[i].live}
Handed(p) ==
    IF Heirs(p) = {} THEN p
    ELSE [p EXCEPT !.waiting = SwapHost(@, CHOOSE i \in Heirs(p) : \A j \in Heirs(p) : i <= j)]

\* changeLeaderIfLeader
HandedIfLeader(p, s) == IF IsLeader(p, s) THEN Handed(p) ELSE p

\* ClanRoom::removePlayer does nothing for a session that does not wait here,
\* or for a leader nobody alive can follow.
CanLeave(p, s) ==
    Holds(p.waiting, s) /\ (IsLeader(p, s) => Len(p.waiting) = 1 \/ Heirs(p) # {})

\* Seeded fault: the session keeps its number.
LeftParty_KeepsNumber(x, s) ==
    LET p == HandedIfLeader(PartyOf(x, s), s)
        q == [p EXCEPT !.waiting = Erase(@, SeatOf(@, s)), !.num = IF @ = 0 THEN 0 ELSE @ - 1]
    IN  IF q.waiting = <<>> THEN DropParty(x, KeyOf(x, s))
        ELSE [x EXCEPT !.parties[KeyOf(x, s)] = q]

\* ClanRoom::removePlayer, and removeExactRoom when nobody is left.
LeftParty(x, s) ==
    LET p == HandedIfLeader(PartyOf(x, s), s)
        q == [p EXCEPT !.waiting = Erase(@, SeatOf(@, s)), !.num = IF @ = 0 THEN 0 ELSE @ - 1]
        y == [x EXCEPT !.party[s] = NoParty]
    IN  IF q.waiting = <<>> THEN DropParty(y, KeyOf(x, s))
        ELSE [y EXCEPT !.parties[KeyOf(x, s)] = q]

LastOfParty(x, s) == Len(PartyOf(x, s).waiting) = 1

\* Everyone alive in a room, players first (getAllPlayersWithSessions).
Seated(r) == SelectSeq(r.players \o r.observers, LAMBDA seat : seat.live)

\* handleClanRoomError: the party, the room and the other clan's party go.
ClanRoomError(x, s) ==
    LET n == x.num[s]
        y == DropParty(x, KeyOf(x, s))
        others == SelectSeq(Seated(x.rooms[n]), LAMBDA seat : ClanOf[seat.uid] # ClanOf[s])
        other == KeyOf(y, others[1].uid)
    IN  IF n \notin DOMAIN x.rooms THEN y
        ELSE IF others # <<>> /\ other \in DOMAIN y.parties
             THEN CloseRoom(DropParty(y, other), n)
        ELSE CloseRoom(y, n)

\* handlePartyRoomLeave: the last one of a party leaves no room with it, and a
\* demand to close the room is dropped.
PartyLeave(x, s) ==
    LET n == x.num[s]
        y == LeftParty(x, s)
        z == [y EXCEPT !.parties[KeyOf(x, s)].registered = FALSE]
    IN  IF ~HasParty(x, s) THEN {x}
        ELSE IF ~CanLeave(PartyOf(x, s), s) THEN {ClanRoomError(x, s)}
        ELSE IF LastOfParty(x, s) THEN {y}
        ELSE IF n \notin DOMAIN z.rooms THEN {z}
        ELSE {Settle(z, n, IgnoreClose(o)) : o \in RemovePlayer(z.rooms[n], s, z.ps)}

\* handleRoomLeave of a clan room: the last one of a party closes the party and
\* keeps the seat.
ClanRoomLeft(x, s) ==
    IF x.num[s] \notin DOMAIN x.rooms \/ ~HasParty(x, s) THEN RoomLeave(x, s)
    ELSE IF ~CanLeave(PartyOf(x, s), s) THEN {ClanRoomError(x, s)}
    ELSE IF LastOfParty(x, s) THEN {LeftParty(x, s)}
    ELSE RoomLeave(LeftParty(x, s), s)

\* Seeded fault: whoever leaves the match, the lead goes to the next.
ClanMatchLeft_AnyMember(x, s) ==
    IF x.num[s] \notin DOMAIN x.rooms \/ ~HasParty(x, s) THEN MatchLeave(x, s)
    ELSE IF ~IsHost(x.rooms[x.num[s]], s)
         THEN MatchLeave([x EXCEPT !.parties[KeyOf(x, s)] = Handed(@)], s)
    ELSE IF ~CanLeave(PartyOf(x, s), s) THEN {ClanRoomError(x, s)}
    ELSE MatchLeave(LeftParty(x, s), s)

\* handleMatchLeave: the host leaves the party as well; a leader who only leaves
\* the match leads no more.
ClanMatchLeft(x, s) ==
    IF x.num[s] \notin DOMAIN x.rooms \/ ~HasParty(x, s) THEN MatchLeave(x, s)
    ELSE IF ~IsHost(x.rooms[x.num[s]], s)
         THEN MatchLeave([x EXCEPT !.parties[KeyOf(x, s)] = HandedIfLeader(@, s)], s)
    ELSE IF ~CanLeave(PartyOf(x, s), s) THEN {ClanRoomError(x, s)}
    ELSE MatchLeave(LeftParty(x, s), s)

\* Room::addPlayer; who joins a clan room is not counted, and never refused.
ClanRoomJoined(x, n, s) ==
    IF n \notin DOMAIN x.rooms \/ s \in Members(x.rooms[n]) THEN x
    ELSE [Put(x, n, [x.rooms[n] EXCEPT !.players = Append(@, NewSeat(s))])
            EXCEPT !.num = [@ EXCEPT ![s] = n]]

Open(p) == p.waiting[1].live /\ ~p.started /\ p.num < p.max

\* Seeded fault: who joins a party that is in a clan room is not seated.
PartyJoined_NotSeated(x, k, s) ==
    IF k \notin DOMAIN x.parties \/ ~Open(x.parties[k]) THEN x
    ELSE AddedToParty(x, k, s)

\* handlePartyJoin: if the leader is in a clan room, so is who joins.
PartyJoined(x, k, s) ==
    IF k \notin DOMAIN x.parties \/ ~Open(x.parties[k]) THEN x
    ELSE ClanRoomJoined(AddedToParty(x, k, s), x.num[LeaderOf(x.parties[k])], s)

-----------------------------------------------------------------------------
(* Parties.  A client offers to create or to join a party only outside of    *)
(* one; the handlers do not ask.                                             *)

\* getNextAvailableRoomNumberFor
FreeNumbers(c) == {i \in 1 .. MaxParties : <<c, i>> \notin DOMAIN parties}

NewParty == [waiting |-> <<>>, num |-> 0, max |-> PartySize, registered |-> FALSE, started |-> FALSE]

PartyMade(x, k) ==
    [x EXCEPT !.parties = [m \in DOMAIN x.parties \cup {k} |->
                             IF m = k THEN NewParty ELSE x.parties[m]]]

\* handlePartyCreation
CreateParty(s) ==
    LET free == FreeNumbers(ClanOf[s])
        k == <<ClanOf[s], CHOOSE i \in free : \A j \in free : i <= j>>
    IN  /\ s \in online /\ partyNum[s] = NoParty
        /\ free # {}
        /\ ClanBecome(AddedToParty(PartyMade(ClanNow, k), k, s))
        /\ UNCHANGED online

JoinParty(s, k) ==
    /\ s \in online /\ partyNum[s] = NoParty
    /\ k \in DOMAIN parties /\ k[1] = ClanOf[s]
    /\ Open(parties[k])
    /\ ClanBecome(PartyJoined(ClanNow, k, s))
    /\ UNCHANGED online

LeaveParty(s) ==
    /\ s \in online /\ HasParty(ClanNow, s)
    /\ \E x \in PartyLeave(ClanNow, s) : ClanBecome(x)
    /\ UNCHANGED online

Leading(s) == s \in online /\ HasParty(ClanNow, s) /\ IsLeader(PartyOf(ClanNow, s), s)

UpdateParty(s, p) ==
    /\ parties' = [parties EXCEPT ![KeyOf(ClanNow, s)] = p]
    /\ UNCHANGED <<vars, partyNum>>

\* handlePartySettings<117>: how many already wait is not asked.
SetSize(s, size) ==
    /\ Leading(s)
    /\ UpdateParty(s, [PartyOf(ClanNow, s) EXCEPT !.max = size])

\* changeLeaderTo
CanLead(p, i) == i \in 2 .. Len(p.waiting) /\ p.waiting[i].live
ChangedLeader(p, i) == [p EXCEPT !.waiting = SwapHost(@, i)]

\* handlePartyLeaderChange
ChangeLeader(s, i) ==
    /\ Leading(s)
    /\ CanLead(PartyOf(ClanNow, s), i)
    /\ UpdateParty(s, ChangedLeader(PartyOf(ClanNow, s), i))

\* handleClanRegister<120>: a full party is put on the list, or taken off it.
\* The leader's client offers it outside of rooms.
Register(s) ==
    /\ Leading(s) /\ roomNum[s] = NoNumber
    /\ Cardinality(OnList(parties)) < MaxRegistered
    /\ LET p == PartyOf(ClanNow, s)
       IN  /\ Len(p.waiting) >= p.max
           /\ UpdateParty(s, [p EXCEPT !.registered = ~@])

-----------------------------------------------------------------------------
(* Clan rooms. *)

\* handleRoomCreationClan, for the leader of the party that was challenged.
ClanRoomCreated(x, s) ==
    LET n == Generated(x.gen)
    IN  [x EXCEPT !.rooms = [m \in DOMAIN @ \cup {n} |->
                               IF m = n THEN NewRoom(s, FALSE) ELSE @[m]],
                  !.gen = AfterGenerate(@),
                  !.num = [@ EXCEPT ![s] = n],
                  !.ps = [@ EXCEPT ![s] = "WAITING"]]

\* Room::addPlayer for everyone of q: nobody of q is in the room yet, and nobody
\* waits twice (PartyAgreement).
AllJoined(x, n, q) ==
    [Put(x, n, [x.rooms[n] EXCEPT !.players = @ \o [i \in DOMAIN q |-> NewSeat(q[i].uid)]])
        EXCEPT !.num = [s \in Session |-> IF s \in LiveIn(q) THEN n ELSE @[s]]]

\* handleOtherClanJoin: the challenged party is taken off the list, and both are
\* seated.  The list is offered outside of rooms, and what it shows is taken to
\* be there still: a party that is gone is a null pointer.
Challenge(s, k) ==
    LET own == KeyOf(ClanNow, s)
        host == LeaderOf(parties[k])
        guests == LiveWaiting(parties[k]) \o LiveWaiting(parties[own])
        x == [ClanRoomCreated(ClanNow, host) EXCEPT !.parties[k].registered = FALSE]
    IN  /\ s \in online /\ HasParty(ClanNow, s) /\ roomNum[s] = NoNumber
        /\ k \in OnList(parties) /\ k[1] # ClanOf[s]
        /\ Len(parties[k].waiting) <= Len(parties[own].waiting)
        /\ ClanBecome(AllJoined(x, x.num[host], Tail(guests)))
        /\ UNCHANGED online

\* getPartyRooms: the parties of the first two clans in the room.
PartiesIn(r) ==
    LET in(i) == KeyOf(ClanNow, Seated(r)[i].uid)
        with == {i \in DOMAIN Seated(r) : in(i) \in DOMAIN parties}
        first == CHOOSE i \in with : \A j \in with : i <= j
        rest == {i \in with : in(i)[1] # in(first)[1]}
    IN  IF with = {} THEN <<>>
        ELSE IF rest = {} THEN <<in(first)>>
        ELSE <<in(first), in(CHOOSE i \in rest : \A j \in rest : i <= j)>>

\* updatePartyStatus on the parties of the room.
PartiesStarted(r, v) ==
    [k \in DOMAIN parties |->
        IF \E i \in DOMAIN PartiesIn(r) : PartiesIn(r)[i] = k
        THEN [parties[k] EXCEPT !.started = v, !.registered = @ /\ ~v] ELSE parties[k]]

\* handleRoomStart; the host needs one party to be there.
StartClanMatch(s) ==
    /\ StartMatch(s)
    /\ IF IsHost(RoomOf(s), s)
       THEN PartiesIn(RoomOf(s)) # <<>> /\ parties' = PartiesStarted(RoomOf(s), TRUE)
       ELSE UNCHANGED parties
    /\ UNCHANGED partyNum

\* handleMatchEnding
EndClanMatch(s) ==
    /\ EndMatch(s)
    /\ parties' = PartiesStarted(RoomOf(s), FALSE)
    /\ UNCHANGED partyNum

LeaveClanMatch(s) ==
    /\ InRoom(s)
    /\ \E x \in ClanMatchLeft(ClanNow, s) : ClanBecome(x)
    /\ UNCHANGED online

LeaveClanRoom(s) ==
    /\ InRoom(s)
    /\ \E x \in ClanRoomLeft(ClanNow, s) : ClanBecome(x)
    /\ UNCHANGED online

\* handlePartyRoomLeave and then handlePartyJoin.
Rejoin(x, k, s) == {PartyJoined(y, k, s) : y \in PartyLeave(x, s)}

\* One after the other, everyone of a party but the leader leaves it and joins it
\* again.
BackToParty(x, k) ==
    LET p == x.parties[k]
        after[i \in 0 .. Len(p.waiting)] ==
            IF i = 0 THEN {[x EXCEPT !.parties[k].started = FALSE]}
            ELSE UNION {IF p.waiting[i].live /\ ~IsLeader(p, p.waiting[i].uid)
                        THEN Rejoin(y, k, p.waiting[i].uid) ELSE {y} : y \in after[i - 1]}
    IN  after[Len(p.waiting)]

AllBack(x, ks) ==
    LET after[i \in 0 .. Len(ks)] ==
            IF i = 0 THEN {x} ELSE UNION {BackToParty(y, ks[i]) : y \in after[i - 1]}
    IN  after[Len(ks)]

\* The party of each clan of a room: the one of the clan's last session in it.
ClanParties(r) ==
    LET seats == r.players \o r.observers
        live == {i \in DOMAIN seats : seats[i].live}
        key(i) == KeyOf(ClanNow, seats[i].uid)
    IN  {key(i) : i \in {j \in live : \A later \in live :
                            later > j => key(later)[1] # key(j)[1]}}

\* handleClanRoomLeave: a leader closes the room, and everyone goes back to the
\* party.  Which clan is first is up to an unordered_map.
CloseClanRoom(s) ==
    /\ InRoom(s) /\ Leading(s)
    /\ \E ks \in SetToSeqs(ClanParties(RoomOf(s)) \cap DOMAIN parties) :
       \E x \in AllBack(CloseRoom(ClanNow, roomNum[s]), ks) : ClanBecome(x)
    /\ UNCHANGED online

-----------------------------------------------------------------------------
ClanConnect(s) == Connect(s) /\ UNCHANGED <<parties, partyNum>>

\* Every weak_ptr to the session expires.
Lapsed(p, s) ==
    [p EXCEPT !.waiting = [i \in DOMAIN p.waiting |->
                             [p.waiting[i] EXCEPT !.live = @ /\ p.waiting[i].uid # s]]]

Gone(x, s) ==
    [Destroyed(x, s) EXCEPT !.parties = [k \in DOMAIN x.parties |-> Lapsed(x.parties[k], s)],
                            !.party = [x.party EXCEPT ![s] = NoParty]]

\* removeSession: out of the match, the room and the party; then the session
\* object dies.
ClanDisconnect(s) ==
    /\ s \in online
    /\ online' = online \ {s}
    /\ \E x \in IF roomNum[s] # NoNumber /\ InMatch(pstate[s])
                THEN ClanMatchLeft(ClanNow, s) ELSE {ClanNow} :
       \E y \in IF roomNum[s] # NoNumber THEN ClanRoomLeft(x, s) ELSE {x} :
       \E z \in IF y.party[s] # NoParty THEN PartyLeave(y, s) ELSE {y} :
          ClanBecome(Gone(z, s))

ClanNext ==
    \/ \E s \in Session : ClanConnect(s) \/ ClanDisconnect(s)
    \/ \E s \in Session : CreateParty(s) \/ LeaveParty(s) \/ Register(s)
    \/ \E s \in Session, k \in Key : JoinParty(s, k) \/ Challenge(s, k)
    \/ \E s \in Session, n \in Sizes : SetSize(s, n)
    \/ \E s \in Session, i \in 2 .. Cardinality(Session) : ChangeLeader(s, i)
    \/ \E s \in Session : StartClanMatch(s) \/ EndClanMatch(s) \/ LeaveClanMatch(s)
    \/ \E s \in Session : LeaveClanRoom(s) \/ CloseClanRoom(s)

ClanSpec == ClanInit /\ [][ClanNext]_clanVars

-----------------------------------------------------------------------------
(* Properties. *)

\* What the code lets happen and the claims below are not made for: a party is
\* challenged while it sits in a room, so that somebody sits in two rooms, or
\* the last one of a party leaves and keeps the seat.
RoomsInOrder ==
    \A s \in Session :
        /\ Cardinality({n \in DOMAIN rooms : s \in Members(rooms[n])}) <= 1
        /\ roomNum[s] # NoNumber => partyNum[s] # NoParty

\* The party and the session agree on who waits where, nobody waits twice or
\* after the session has ended, the count is right and no party is empty: leaves
\* come from four handlers, each of which takes the party apart on its own way,
\* and a count that goes wrong refuses players for ever.
PartyAgreement ==
    /\ \A k \in DOMAIN parties :
          /\ parties[k].waiting # <<>>
          /\ parties[k].num = Len(parties[k].waiting)
          /\ \A i, j \in DOMAIN parties[k].waiting :
                /\ parties[k].waiting[i].live
                /\ parties[k].waiting[i].uid = parties[k].waiting[j].uid => i = j
    /\ \A s \in Session : \A k \in Key :
          (k = KeyOf(ClanNow, s))
             <=> (k \in DOMAIN parties /\ s \in LiveIn(parties[k].waiting))

\* The members of a party are in the room its leader is in, or in none like the
\* leader: late joiners are seated, and who leaves one leaves the other.
PartyTogether ==
    \A k \in DOMAIN parties : \A i \in DOMAIN parties[k].waiting :
        roomNum[parties[k].waiting[i].uid] = roomNum[LeaderOf(parties[k])]

\* A leader who stays in the party leads it until he hands it on or leaves a
\* match: also when a clan room is closed and everyone else joins anew.
LeaderKeepsParty ==
    [][\A k \in DOMAIN parties \cap DOMAIN parties' :
          LET leader == LeaderOf(parties[k])
          IN  leader \in LiveIn(parties'[k].waiting) /\ LeaderOf(parties'[k]) # leader
              => (\E i \in 2 .. Cardinality(Session) : ChangeLeader(leader, i))
                 \/ LeaveClanMatch(leader)]_clanVars
=============================================================================
