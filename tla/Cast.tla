-------------------------------- MODULE Cast --------------------------------
(***************************************************************************)
(* The Cast server's sessions and rooms: the session table, the slots that *)
(* lead from a session id to a room, and the rooms' lists of players.      *)
(*                                                                         *)
(* A client holds a session of the Main server, whose id it also carries   *)
(* on the Cast server.  The Main server gives a freed id to the next       *)
(* client at once, while the Cast server may not have noticed yet that the *)
(* old client's connection is dead; closing a connection clears its entry  *)
(* in the table, and neither its slot nor its place in a room.             *)
(*                                                                         *)
(* All handlers run on one thread, so a handler is one step.               *)
(***************************************************************************)
EXTENDS Naturals, FiniteSets, Functions

CONSTANTS
    Client,       \* accounts
    Conn,         \* connections the Cast server can have open at once
    Id,           \* session ids (SessionIdManager)
    CastRoom,     \* room objects
    NoClient, NoConn, NoId, NoRoom

ASSUME CastAssumption ==
    /\ NoClient \notin Client /\ NoConn \notin Conn
    /\ NoId \notin Id /\ NoRoom \notin CastRoom

VARIABLES
    mainId,   \* the id of the client's session on the Main server
    active,   \* the connection the client uses; an older one may still be open
    inRoom,   \* the client has entered a room and not left it
    conn,     \* the connections: who opened them, and Session::m_id once it is the Main server's
    table,    \* SessionsManager::m_sessionsBySessionId
    slot,     \* RoomsManager::m_playerSessionIdToRoom
    rooms     \* RoomsManager::m_rooms

castVars == <<mainId, active, inRoom, conn, table, slot, rooms>>

Closed == [client |-> NoClient, id |-> NoId]

\* A room keeps weak pointers: the players whose session lives, and whether
\* entries are left whose session is gone.
RoomObject == [players : SUBSET Conn, expired : BOOLEAN]

CastTypeOK ==
    /\ mainId \in [Client -> Id \cup {NoId}]
    /\ active \in [Client -> Conn \cup {NoConn}]
    /\ inRoom \in [Client -> BOOLEAN]
    /\ conn \in [Conn -> [client : Client \cup {NoClient}, id : Id \cup {NoId}]]
    /\ DOMAIN table \subseteq Id /\ table \in [DOMAIN table -> Conn]
    /\ slot \in [Id -> CastRoom \cup {NoRoom}]
    /\ DOMAIN rooms \subseteq CastRoom /\ rooms \in [DOMAIN rooms -> RoomObject]
    \* The table keeps no connection alive that the server has closed.
    /\ \A i \in DOMAIN table : conn[table[i]].client # NoClient

CastInit ==
    /\ mainId = [a \in Client |-> NoId]
    /\ active = [a \in Client |-> NoConn]
    /\ inRoom = [a \in Client |-> FALSE]
    /\ conn = [c \in Conn |-> Closed]
    /\ table = <<>>
    /\ slot = [i \in Id |-> NoRoom]
    /\ rooms = <<>>

Identified(a) == active[a] # NoConn /\ conn[active[a]].id # NoId
IdOf(a) == conn[active[a]].id

-----------------------------------------------------------------------------
(* Clients come and go. *)

\* A login on the Main server, whose ids are unique among its live sessions,
\* and then asyncAccept on the Cast server: a new session object.
Connect(a) ==
    /\ active[a] = NoConn
    /\ \E c \in Conn : conn[c] = Closed
    /\ \E i \in Id \ Range(mainId) : mainId' = [mainId EXCEPT ![a] = i]
    /\ LET c == CHOOSE c \in Conn : conn[c] = Closed
       IN  /\ active' = [active EXCEPT ![a] = c]
           /\ conn' = [conn EXCEPT ![c] = [client |-> a, id |-> NoId]]
    /\ UNCHANGED <<inRoom, table, slot, rooms>>

\* The client is gone; the Main server has noticed and the Cast server not.
Quit(a) ==
    /\ active[a] # NoConn
    /\ mainId' = [mainId EXCEPT ![a] = NoId]
    /\ active' = [active EXCEPT ![a] = NoConn]
    /\ inRoom' = [inRoom EXCEPT ![a] = FALSE]
    /\ UNCHANGED <<conn, table, slot, rooms>>

\* addSession: an id the table knows is left to the session that has it.
Added(c, i) ==
    [j \in DOMAIN table \cup {i} |-> IF j \in DOMAIN table THEN table[j] ELSE c]

\* Seeded fault: the session stays in the table.
Removed_Kept(i) == table

\* removeSession, by id: whichever session the table has under it.
Removed(i) == Restrict(table, DOMAIN table \ {i})

\* The destructor runs: the rooms' pointers to the session expire.
Expire(R, c) ==
    [r \in DOMAIN R |-> IF c \in R[r].players
                        THEN [players |-> R[r].players \ {c}, expired |-> TRUE] ELSE R[r]]

\* Until it is identified a session has an id from the Cast server's own pool.
\* The pool takes back the Main server's ids, so that may be any session's id.
LastId(c) == IF conn[c].id # NoId THEN {conn[c].id} ELSE Id

\* closeSocket, of a connection whose client is gone.
CloseSocket(c) ==
    /\ conn[c] # Closed
    /\ active[conn[c].client] # c
    /\ \E i \in LastId(c) : table' = Removed(i)
    /\ conn' = [conn EXCEPT ![c] = Closed]
    /\ rooms' = Expire(rooms, c)
    /\ UNCHANGED <<mainId, active, inRoom, slot>>

\* connectionHandler: the Main server is asked for the id of the account's
\* session, and the connection closed when there is none.
Connection(c) ==
    /\ conn[c] # Closed /\ conn[c].id = NoId
    /\ \/ /\ mainId[conn[c].client] # NoId
          /\ conn' = [conn EXCEPT ![c].id = mainId[conn[c].client]]
          /\ table' = Added(c, mainId[conn[c].client])
          /\ UNCHANGED <<mainId, active, inRoom, slot, rooms>>
       \/ /\ mainId[conn[c].client] = NoId
          /\ CloseSocket(c)

\* Seeded fault: the session is entered when it is identified and never again.
Ping_NotEntered(a) ==
    /\ Identified(a)
    /\ UNCHANGED castVars

\* pongHandler enters the session again.
Ping(a) ==
    /\ Identified(a)
    /\ table' = Added(active[a], IdOf(a))
    /\ UNCHANGED <<mainId, active, inRoom, conn, slot, rooms>>

-----------------------------------------------------------------------------
(* Rooms. *)

\* addRoom: the slot's former room keeps the player in its list.
CreateRoom(a) ==
    /\ Identified(a) /\ ~inRoom[a]
    /\ inRoom' = [inRoom EXCEPT ![a] = TRUE]
    /\ CastRoom \ DOMAIN rooms # {}
    /\ LET r == CHOOSE r \in CastRoom : r \notin DOMAIN rooms
       IN  /\ rooms' = [q \in DOMAIN rooms \cup {r} |->
                           IF q = r THEN [players |-> {active[a]}, expired |-> FALSE]
                           ELSE rooms[q]]
           /\ slot' = [slot EXCEPT ![IdOf(a)] = r]
    /\ UNCHANGED <<mainId, active, conn, table>>

\* The players of room r without those whose session has id i.
Without(r, i) == {c \in rooms[r].players : conn[c].id # i}

\* Seeded fault: the room is closed when a player leaves, whoever is left.
Leave_ClosesRoom(i) ==
    LET r == slot[i]
    IN  /\ rooms' = Restrict(rooms, DOMAIN rooms \ {r})
        /\ slot' = [j \in Id |-> IF slot[j] = r THEN NoRoom ELSE slot[j]]

\* removePlayerFromRoom: the room without entries is erased, from the list and
\* from every slot; an entry whose session is gone still counts.
Leave(i) ==
    LET r == slot[i]
    IN  IF Without(r, i) = {} /\ ~rooms[r].expired
        THEN /\ rooms' = Restrict(rooms, DOMAIN rooms \ {r})
             /\ slot' = [j \in Id |-> IF slot[j] = r THEN NoRoom ELSE slot[j]]
        ELSE /\ rooms' = [rooms EXCEPT ![r].players = Without(r, i)]
             /\ slot' = [slot EXCEPT ![i] = NoRoom]

\* Seeded fault: the slot is not set.
JoinRoom_SlotNotSet(a, host) ==
    /\ Identified(a) /\ ~inRoom[a]
    /\ inRoom' = [inRoom EXCEPT ![a] = TRUE]
    /\ \/ /\ slot[IdOf(a)] # NoRoom
          /\ Leave(IdOf(a))
       \/ /\ slot[IdOf(a)] = NoRoom /\ slot[host] # NoRoom
          /\ rooms' = [rooms EXCEPT ![slot[host]].players =
                          Without(slot[host], IdOf(a)) \cup {active[a]}]
          /\ UNCHANGED slot
    /\ UNCHANGED <<mainId, active, conn, table>>

\* switchRoomJoinOrExit, for order 140: a slot that is taken makes the join an
\* exit, and a host without a room makes it nothing.
JoinRoom(a, host) ==
    /\ Identified(a) /\ ~inRoom[a]
    /\ inRoom' = [inRoom EXCEPT ![a] = TRUE]
    /\ \/ /\ slot[IdOf(a)] # NoRoom
          /\ Leave(IdOf(a))
       \/ /\ slot[IdOf(a)] = NoRoom /\ slot[host] # NoRoom
          /\ rooms' = [rooms EXCEPT ![slot[host]].players =
                          Without(slot[host], IdOf(a)) \cup {active[a]}]
          /\ slot' = [slot EXCEPT ![IdOf(a)] = slot[host]]
       \/ /\ slot[IdOf(a)] = NoRoom /\ slot[host] = NoRoom
          /\ UNCHANGED <<slot, rooms>>
    /\ UNCHANGED <<mainId, active, conn, table>>

\* Order 279, and handleCrash (order 253): out of the room the slot names.
LeaveRoom(a) ==
    /\ Identified(a) /\ inRoom[a]
    /\ inRoom' = [inRoom EXCEPT ![a] = FALSE]
    /\ IF slot[IdOf(a)] # NoRoom THEN Leave(IdOf(a)) ELSE UNCHANGED <<slot, rooms>>
    /\ UNCHANGED <<mainId, active, conn, table>>

-----------------------------------------------------------------------------
CastNext ==
    \/ \E a \in Client : Connect(a) \/ Quit(a) \/ Ping(a)
    \/ \E c \in Conn : Connection(c) \/ CloseSocket(c)
    \/ \E a \in Client : CreateRoom(a) \/ LeaveRoom(a)
    \/ \E a \in Client, host \in Id : JoinRoom(a, host)

\* Clients ping every few seconds, a request that has arrived is answered, and
\* a connection without a client fails at the next write to it.
CastFairness ==
    /\ \A a \in Client : WF_castVars(Ping(a))
    /\ \A c \in Conn : WF_castVars(Connection(c)) /\ WF_castVars(CloseSocket(c))

CastSpec == CastInit /\ [][CastNext]_castVars /\ CastFairness

-----------------------------------------------------------------------------
(* What the Cast server promises. *)

\* A slot leads to a room the server lists, and a client is listed in the room
\* its slot leads to and in no other: broadcasts are sent along the slot and
\* received along the list, and each is updated by hand.
SlotsMatchRooms ==
    /\ \A i \in Id : slot[i] # NoRoom => slot[i] \in DOMAIN rooms
    /\ \A a \in Client : Identified(a) =>
          \A r \in DOMAIN rooms : active[a] \in rooms[r].players => slot[IdOf(a)] = r

\* Nobody else's step takes a connected client out of its room: not a leave of
\* a player who shares the room, not a join of one who has inherited a slot, and
\* not the end of a connection, whatever id that still carries.
KeptInRoom ==
    [][\A a \in Client : \A r \in DOMAIN rooms :
          Identified(a) /\ active[a] \in rooms[r].players =>
              \/ r \in DOMAIN rooms' /\ active[a] \in rooms'[r].players
              \/ LeaveRoom(a) \/ Quit(a)]_castVars

\* A client that stays connected is found under its id in the end, although a
\* dead connection may hold the id when it arrives, and the end of that or of
\* another connection may remove the entry again: the kill handlers and the
\* respawn look sessions up by id.
Registered ==
    \A a \in Client :
        Identified(a) ~> (~Identified(a) \/ (IdOf(a) \in DOMAIN table /\ table[IdOf(a)] = active[a]))
=============================================================================
