----------------------------- MODULE MatchProof ------------------------------
(***************************************************************************)
(* For every set of clients, connections, ids and rooms: on the Cast       *)
(* server a client is listed in the room its slot leads to and in no       *)
(* other, and nobody else's step takes it out.  CastInv adds what the two  *)
(* rest on: ids are unique among the clients of the Main server, a closed  *)
(* connection is in no list, and a client that is listed has not left.     *)
(* (First part.)                                                           *)
(*                                                                         *)
(* For any number of attempts, any time limits and any traffic: what the   *)
(* Cast server knows of a match that is running on the Main server.  The   *)
(* messages of one attempt are read in the order in which they were sent,  *)
(* so all rests on what may still lie in the Cast server's sockets at each *)
(* point of handleRoomStart: once a call was answered, nothing that was    *)
(* sent before it.  The invariant says so point by point.  (Second part.)  *)
(*                                                                         *)
(* The rounds of the arena and the chat of the dead, for every set of      *)
(* players, teams, staff and observers.                                    *)
(*                                                                         *)
(* RoundRunsOut is not inductive: the thread's loop brings players back to *)
(* life one by one, so that a round declared over meanwhile must be known  *)
(* as disturbed until the loop is over (LoopDisturbs).  DeadUnheard is     *)
(* about what the Main server makes of what it was told; that it was told  *)
(* the truth (ToldTruly) needs that no thread ever respawns anyone outside *)
(* the arena.  (Third part.)                                               *)
(***************************************************************************)
EXTENDS Cast, Ipc, Arena, FiniteSetTheorems, TLAPS

\* The connections and ids that the clients use.
Sessions ==
    /\ mainId \in [Client -> Id \cup {NoId}]
    /\ active \in [Client -> Conn \cup {NoConn}]
    /\ inRoom \in [Client -> BOOLEAN]
    /\ conn \in [Conn -> [client : Client \cup {NoClient}, id : Id \cup {NoId}]]
    /\ \A a, b \in Client : mainId[a] = mainId[b] => a = b \/ mainId[a] = NoId
    /\ \A a \in Client :
          /\ active[a] # NoConn => conn[active[a]].client = a
          /\ Identified(a) => IdOf(a) = mainId[a]

\* The rooms, and the slots that lead to them.
SlotsLead ==
    /\ DOMAIN rooms \subseteq CastRoom /\ rooms \in [DOMAIN rooms -> RoomObject]
    /\ slot \in [Id -> CastRoom \cup {NoRoom}]
    /\ \A i \in Id : slot[i] # NoRoom => slot[i] \in DOMAIN rooms
    /\ \A r \in DOMAIN rooms : \A c \in rooms[r].players : conn[c].id # NoId

\* Who is listed where.
Listed ==
    \A a \in Client : \A r \in DOMAIN rooms :
        Identified(a) /\ active[a] \in rooms[r].players => slot[IdOf(a)] = r /\ inRoom[a]

CastInv == Sessions /\ SlotsLead /\ Listed

LEMMA CastConstants == NoClient \notin Client /\ NoConn \notin Conn /\ NoId \notin Id /\ NoRoom \notin CastRoom
BY CastAssumption

\* A client that the Cast server knows.
LEMMA Known ==
    ASSUME CastInv, NEW a \in Client, Identified(a)
    PROVE  /\ active[a] \in Conn /\ conn[active[a]].client = a /\ conn[active[a]].id = IdOf(a)
           /\ IdOf(a) \in Id /\ IdOf(a) = mainId[a]
           /\ \A b \in Client \ {a} : Identified(b) => IdOf(b) # IdOf(a) /\ active[b] # active[a]
BY CastConstants DEF CastInv, Sessions, Identified, IdOf

\* Nobody is taken out of a room, unless it is by its own leave.
Undisturbed ==
    \A a \in Client : \A r \in DOMAIN rooms :
        Identified(a) /\ active[a] \in rooms[r].players =>
            \/ r \in DOMAIN rooms' /\ active[a] \in rooms'[r].players
            \/ LeaveRoom(a) \/ Quit(a)

Keeps == CastInv' /\ Undisturbed

LEMMA Unlisted ==
    ASSUME CastInv, NEW c \in Conn, conn[c].id = NoId, NEW r \in DOMAIN rooms
    PROVE  c \notin rooms[r].players
BY DEF CastInv, SlotsLead

-----------------------------------------------------------------------------
(* Clients come and go.                                                     *)

\* A closed connection is in no list, so a new session finds itself in no room.
LEMMA ConnectKeeps == ASSUME CastInv, NEW a \in Client, Connect(a) PROVE Keeps
<1>1. PICK i \in Id \ Range(mainId) : mainId' = [mainId EXCEPT ![a] = i]
  BY DEF Connect
<1>2. PICK c \in Conn : /\ conn[c] = Closed /\ active' = [active EXCEPT ![a] = c]
                        /\ conn' = [conn EXCEPT ![c] = [client |-> a, id |-> NoId]]
  BY DEF Connect
<1>3. UNCHANGED <<inRoom, table, slot, rooms>>
  BY DEF Connect
<1>4. /\ mainId \in [Client -> Id \cup {NoId}] /\ active \in [Client -> Conn \cup {NoConn}]
      /\ conn \in [Conn -> [client : Client \cup {NoClient}, id : Id \cup {NoId}]]
  BY DEF CastInv, Sessions
<1>5. /\ active'[a] = c /\ conn'[c] = [client |-> a, id |-> NoId] /\ mainId'[a] = i
      /\ conn[c].client = NoClient /\ conn[c].id = NoId
      /\ \A b \in Client \ {a} : active'[b] = active[b] /\ mainId'[b] = mainId[b]
      /\ \A d \in Conn \ {c} : conn'[d] = conn[d]
  BY <1>1, <1>2, <1>4 DEF Closed
<1>6. \A b \in Client \ {a} : active[b] # NoConn => active[b] \in Conn \ {c}
  BY <1>4, <1>5, CastConstants DEF CastInv, Sessions
<1>7. \A b \in Client \ {a} : (Identified(b)' <=> Identified(b)) /\ (Identified(b) => IdOf(b)' = IdOf(b))
  BY <1>5, <1>6 DEF Identified, IdOf
<1>8. ~Identified(a)'
  BY <1>5 DEF Identified
<1>9. Sessions'
  <2>1. /\ mainId' \in [Client -> Id \cup {NoId}] /\ active' \in [Client -> Conn \cup {NoConn}]
        /\ conn' \in [Conn -> [client : Client \cup {NoClient}, id : Id \cup {NoId}]]
        /\ inRoom' \in [Client -> BOOLEAN]
    BY <1>1, <1>2, <1>3, <1>4 DEF CastInv, Sessions
  <2>2. \A b \in Client : mainId[b] # i
    BY <1>1, <1>4 DEF Range
  <2>3. \A b, d \in Client : mainId'[b] = mainId'[d] => b = d \/ mainId'[b] = NoId
    BY <1>5, <2>2 DEF CastInv, Sessions
  <2>4. ASSUME NEW b \in Client
        PROVE  /\ active'[b] # NoConn => conn'[active'[b]].client = b
               /\ Identified(b)' => IdOf(b)' = mainId'[b]
    <3>1. CASE b = a
      BY <1>5, <1>8, <3>1
    <3>2. CASE b # a
      BY <1>5, <1>6, <1>7, <3>2 DEF CastInv, Sessions
    <3>3. QED
      BY <3>1, <3>2
  <2>5. QED
    BY <2>1, <2>3, <2>4 DEF Sessions
<1>10. SlotsLead'
  BY <1>3, <1>5, Unlisted DEF CastInv, SlotsLead, RoomObject
<1>11. Listed'
  BY <1>3, <1>5, <1>7, <1>8 DEF CastInv, Listed
<1>12. Undisturbed
  BY <1>3 DEF Undisturbed
<1>13. QED
  BY <1>9, <1>10, <1>11, <1>12 DEF Keeps, CastInv

LEMMA QuitKeeps == ASSUME CastInv, NEW a \in Client, Quit(a) PROVE Keeps
<1>1. /\ mainId' = [mainId EXCEPT ![a] = NoId] /\ active' = [active EXCEPT ![a] = NoConn]
      /\ inRoom' = [inRoom EXCEPT ![a] = FALSE] /\ UNCHANGED <<conn, table, slot, rooms>>
  BY DEF Quit
<1>2. /\ active'[a] = NoConn /\ mainId'[a] = NoId
      /\ \A b \in Client \ {a} : /\ active'[b] = active[b] /\ mainId'[b] = mainId[b]
                                 /\ inRoom'[b] = inRoom[b]
  BY <1>1 DEF CastInv, Sessions
<1>3. \A b \in Client \ {a} : (Identified(b)' <=> Identified(b)) /\ (Identified(b) => IdOf(b)' = IdOf(b))
  BY <1>1, <1>2 DEF Identified, IdOf
<1>4. ~Identified(a)'
  BY <1>2 DEF Identified
<1>5. Sessions'
  <2>1. /\ mainId' \in [Client -> Id \cup {NoId}] /\ active' \in [Client -> Conn \cup {NoConn}]
        /\ conn' \in [Conn -> [client : Client \cup {NoClient}, id : Id \cup {NoId}]]
        /\ inRoom' \in [Client -> BOOLEAN]
    BY <1>1 DEF CastInv, Sessions
  <2>2. \A b, d \in Client : mainId'[b] = mainId'[d] => b = d \/ mainId'[b] = NoId
    BY <1>2 DEF CastInv, Sessions
  <2>3. \A b \in Client : /\ active'[b] # NoConn => conn'[active'[b]].client = b
                          /\ Identified(b)' => IdOf(b)' = mainId'[b]
    BY <1>1, <1>2, <1>3, <1>4 DEF CastInv, Sessions
  <2>4. QED
    BY <2>1, <2>2, <2>3 DEF Sessions
<1>6. SlotsLead'
  BY <1>1 DEF CastInv, SlotsLead
<1>7. Listed'
  BY <1>1, <1>2, <1>3, <1>4 DEF CastInv, Listed
<1>8. QED
  BY <1>1, <1>5, <1>6, <1>7 DEF Keeps, CastInv, Undisturbed

\* The session of a connection that nobody uses expires; whichever entry of the
\* table goes with it, the lists of the others stay.
LEMMA CloseSocketKeeps == ASSUME CastInv, NEW c \in Conn, CloseSocket(c) PROVE Keeps
<1>1. /\ conn[c] # Closed /\ active[conn[c].client] # c
      /\ conn' = [conn EXCEPT ![c] = Closed] /\ rooms' = Expire(rooms, c)
      /\ UNCHANGED <<mainId, active, inRoom, slot>>
  BY DEF CloseSocket
<1>2. conn'[c] = Closed /\ \A d \in Conn \ {c} : conn'[d] = conn[d]
  BY <1>1 DEF CastInv, Sessions
<1>3. \A b \in Client : active[b] # c
  BY <1>1, CastConstants DEF CastInv, Sessions
<1>4. \A b \in Client : active[b] # NoConn => active[b] \in Conn \ {c}
  BY <1>3 DEF CastInv, Sessions
<1>5. \A b \in Client : (Identified(b)' <=> Identified(b)) /\ (Identified(b) => IdOf(b)' = IdOf(b))
  BY <1>1, <1>2, <1>4 DEF Identified, IdOf
<1>6. Sessions'
  <2>1. conn' \in [Conn -> [client : Client \cup {NoClient}, id : Id \cup {NoId}]]
    BY <1>1 DEF Closed, CastInv, Sessions
  <2>2. \A b \in Client : /\ active'[b] # NoConn => conn'[active'[b]].client = b
                          /\ Identified(b)' => IdOf(b)' = mainId'[b]
    BY <1>1, <1>2, <1>4, <1>5 DEF CastInv, Sessions
  <2>3. QED
    BY <1>1, <2>1, <2>2 DEF CastInv, Sessions
<1>7. /\ DOMAIN rooms' = DOMAIN rooms
      /\ \A r \in DOMAIN rooms : /\ rooms'[r] \in RoomObject
                                 /\ rooms'[r].players = rooms[r].players \ {c}
  BY <1>1 DEF Expire, CastInv, SlotsLead, RoomObject
<1>8. SlotsLead'
  <2>1. rooms' = [r \in DOMAIN rooms |-> IF c \in rooms[r].players
                        THEN [players |-> rooms[r].players \ {c}, expired |-> TRUE] ELSE rooms[r]]
    BY <1>1 DEF Expire
  <2>2. rooms' \in [DOMAIN rooms -> RoomObject]
    BY <1>7, <2>1
  <2>3. \A r \in DOMAIN rooms' : \A d \in rooms'[r].players : d \in Conn \ {c} /\ conn[d].id # NoId
    BY <1>7 DEF CastInv, SlotsLead, RoomObject
  <2>4. QED
    BY <1>1, <1>2, <1>7, <2>2, <2>3 DEF CastInv, SlotsLead
<1>9. Listed'
  BY <1>1, <1>5, <1>7 DEF CastInv, Listed
<1>10. Undisturbed
  BY <1>3, <1>7 DEF Undisturbed
<1>11. QED
  BY <1>6, <1>8, <1>9, <1>10 DEF Keeps, CastInv

\* The id comes when the session is in no room yet.
LEMMA ConnectionKeeps == ASSUME CastInv, NEW c \in Conn, Connection(c) PROVE Keeps
<1> DEFINE a == conn[c].client
<1>1. conn[c] # Closed /\ conn[c].id = NoId
  BY DEF Connection
<1>2. CASE mainId[a] = NoId /\ CloseSocket(c)
  BY <1>2, CloseSocketKeeps
<1>3. CASE /\ mainId[a] # NoId /\ conn' = [conn EXCEPT ![c].id = mainId[a]]
           /\ UNCHANGED <<mainId, active, inRoom, slot, rooms>>
  <2>1. /\ conn[c] \in [client : Client \cup {NoClient}, id : Id \cup {NoId}] /\ a \in Client
    <3>1. conn[c] \in [client : Client \cup {NoClient}, id : Id \cup {NoId}]
      BY DEF CastInv, Sessions
    <3>2. conn[c] = [client |-> a, id |-> conn[c].id]
      BY <3>1
    <3>3. a # NoClient
      BY <1>1, <3>2 DEF Closed
    <3>4. QED
      BY <3>1, <3>3
  <2>2. mainId[a] \in Id
    BY <1>3, <2>1 DEF CastInv, Sessions
  <2>3. /\ conn'[c].client = a /\ conn'[c].id = mainId[a]
        /\ \A d \in Conn \ {c} : conn'[d] = conn[d]
        /\ conn' \in [Conn -> [client : Client \cup {NoClient}, id : Id \cup {NoId}]]
    BY <1>3, <2>1, <2>2 DEF CastInv, Sessions
  <2>4. ASSUME NEW b \in Client, active[b] # c
        PROVE  (Identified(b)' <=> Identified(b)) /\ (Identified(b) => IdOf(b)' = IdOf(b))
    BY <1>3, <2>3, <2>4 DEF Identified, IdOf, CastInv, Sessions
  <2>5. ASSUME NEW b \in Client, active[b] = c
        PROVE  Identified(b)' /\ IdOf(b)' = mainId[b] /\ b = a
    <3>1. active[b] # NoConn /\ b = a
      BY <2>5, CastConstants DEF CastInv, Sessions
    <3>2. QED
      BY <1>3, <2>2, <2>3, <2>5, <3>1, CastConstants DEF Identified, IdOf
  <2>6. Sessions'
    <3>1. \A b \in Client : /\ active'[b] # NoConn => conn'[active'[b]].client = b
                            /\ Identified(b)' => IdOf(b)' = mainId'[b]
      BY <1>3, <2>3, <2>4, <2>5 DEF CastInv, Sessions
    <3>2. QED
      BY <1>3, <2>3, <3>1 DEF CastInv, Sessions
  <2>7. \A r \in DOMAIN rooms : c \notin rooms[r].players
    BY <1>1, Unlisted
  <2>8. SlotsLead'
    BY <1>3, <2>3, <2>7 DEF CastInv, SlotsLead, RoomObject
  <2>9. Listed'
    BY <1>3, <2>4, <2>7 DEF CastInv, Listed
  <2>10. QED
    BY <1>3, <2>6, <2>8, <2>9 DEF Keeps, CastInv, Undisturbed
<1>4. QED
  BY <1>2, <1>3 DEF Connection

LEMMA PingKeeps == ASSUME CastInv, UNCHANGED <<mainId, active, inRoom, conn, slot, rooms>> PROVE Keeps
<1>1. \A b \in Client : (Identified(b)' <=> Identified(b)) /\ (Identified(b) => IdOf(b)' = IdOf(b))
  BY DEF Identified, IdOf
<1>2. QED
  BY <1>1 DEF Keeps, CastInv, Sessions, SlotsLead, Listed, Undisturbed

-----------------------------------------------------------------------------
(* Rooms.                                                                   *)

\* The connections stay as they are, and one client enters or leaves a room.
LEMMA SameSessions ==
    ASSUME CastInv, NEW a \in Client, NEW v \in BOOLEAN, UNCHANGED <<mainId, active, conn>>,
           inRoom' = [inRoom EXCEPT ![a] = v]
    PROVE  /\ Sessions'
           /\ \A b \in Client : /\ Identified(b)' <=> Identified(b)
                                /\ IdOf(b)' = IdOf(b)
           /\ inRoom'[a] = v /\ \A b \in Client \ {a} : inRoom'[b] = inRoom[b]
<1>1. \A b \in Client : (Identified(b)' <=> Identified(b)) /\ IdOf(b)' = IdOf(b)
  BY DEF Identified, IdOf
<1>2. QED
  BY <1>1 DEF CastInv, Sessions

\* What removePlayerFromRoom leaves: the room without the client, or no room
\* when that was the last entry, and no slot that leads to a room that is gone.
LEMMA LeaveRooms ==
    ASSUME CastInv, NEW a \in Client, Identified(a), slot[IdOf(a)] # NoRoom, Leave(IdOf(a)),
           UNCHANGED <<mainId, active, conn>>
    PROVE  /\ SlotsLead'
           /\ DOMAIN rooms' \subseteq DOMAIN rooms
           /\ \A b \in Client \ {a} : Identified(b) =>
                 \A r \in DOMAIN rooms : active[b] \in rooms[r].players =>
                    r \in DOMAIN rooms' /\ active[b] \in rooms'[r].players
           /\ \A b \in Client : Identified(b) =>
                 \A r \in DOMAIN rooms' : active[b] \in rooms'[r].players =>
                    b # a /\ active[b] \in rooms[r].players /\ slot'[IdOf(b)] = r
<1> DEFINE i == IdOf(a)
           r == slot[i]
           w == Without(r, i)
<1>1. /\ i \in Id /\ active[a] \in Conn /\ conn[active[a]].id = i /\ r \in DOMAIN rooms
      /\ \A b \in Client \ {a} : Identified(b) =>
            IdOf(b) # i /\ IdOf(b) \in Id /\ conn[active[b]].id = IdOf(b)
  BY Known DEF CastInv, SlotsLead
<1>2. \A b \in Client : Identified(b) =>
         \A q \in DOMAIN rooms : active[b] \in rooms[q].players => slot[IdOf(b)] = q
  BY DEF CastInv, Listed
<1>3. /\ w \subseteq rooms[r].players /\ active[a] \notin w
      /\ \A b \in Client \ {a} : Identified(b) /\ active[b] \in rooms[r].players => active[b] \in w
  BY <1>1 DEF Without
<1>4. rooms[r] \in RoomObject /\ \A q \in DOMAIN rooms : rooms[q] \in RoomObject
  BY <1>1 DEF CastInv, SlotsLead
<1>5. CASE /\ w = {} /\ rooms' = Restrict(rooms, DOMAIN rooms \ {r})
           /\ slot' = [j \in Id |-> IF slot[j] = r THEN NoRoom ELSE slot[j]]
  <2>1. /\ DOMAIN rooms' = DOMAIN rooms \ {r} /\ \A q \in DOMAIN rooms' : rooms'[q] = rooms[q]
        /\ rooms' \in [DOMAIN rooms' -> RoomObject]
    BY <1>4, <1>5 DEF Restrict
  <2>2. \A j \in Id : slot'[j] = IF slot[j] = r THEN NoRoom ELSE slot[j]
    BY <1>5
  <2>3. slot' \in [Id -> CastRoom \cup {NoRoom}]
    BY <1>5 DEF CastInv, SlotsLead
  <2> HIDE DEF w, r
  <2>4. SlotsLead'
    BY <2>1, <2>2, <2>3 DEF CastInv, SlotsLead
  <2>5. \A b \in Client \ {a} : Identified(b) =>
           \A q \in DOMAIN rooms : active[b] \in rooms[q].players => q # r
    BY <1>3, <1>5
  <2>6. ASSUME NEW b \in Client, Identified(b), NEW q \in DOMAIN rooms',
               active[b] \in rooms'[q].players
        PROVE  b # a /\ active[b] \in rooms[q].players /\ slot'[IdOf(b)] = q
    <3>1. q # r /\ active[b] \in rooms[q].players /\ slot[IdOf(b)] = q /\ IdOf(b) \in Id
      BY <1>2, <2>1, <2>6, Known
    <3>2. QED
      BY <2>2, <3>1 DEF r
  <2>7. QED
    BY <2>1, <2>4, <2>5, <2>6
<1>6. CASE /\ rooms' = [rooms EXCEPT ![r].players = w]
           /\ slot' = [slot EXCEPT ![i] = NoRoom]
  <2>1. /\ DOMAIN rooms' = DOMAIN rooms /\ rooms'[r].players = w
        /\ \A q \in DOMAIN rooms \ {r} : rooms'[q] = rooms[q]
        /\ rooms' \in [DOMAIN rooms' -> RoomObject]
    <3>1. [rooms[r] EXCEPT !.players = w] \in RoomObject
      BY <1>3, <1>4 DEF RoomObject
    <3>2. [rooms[r] EXCEPT !.players = w].players = w
      BY <1>4 DEF RoomObject
    <3> HIDE DEF w, r
    <3>3. QED
      BY <1>1, <1>4, <1>6, <3>1, <3>2
  <2>2. slot' \in [Id -> CastRoom \cup {NoRoom}] /\ slot'[i] = NoRoom
        /\ \A j \in Id \ {i} : slot'[j] = slot[j]
    BY <1>1, <1>6 DEF CastInv, SlotsLead
  <2> HIDE DEF w, r
  <2>3. SlotsLead'
    BY <1>1, <1>3, <2>1, <2>2 DEF CastInv, SlotsLead
  <2>4. ASSUME NEW b \in Client, Identified(b), NEW q \in DOMAIN rooms',
               active[b] \in rooms'[q].players
        PROVE  b # a /\ active[b] \in rooms[q].players /\ slot'[IdOf(b)] = q
    <3>1. active[b] \in rooms[q].players /\ slot[IdOf(b)] = q
      BY <1>2, <1>3, <2>1, <2>4
    <3>2. b # a
      <4>1. ASSUME b = a PROVE FALSE
        <5>1. q = r
          BY <3>1, <4>1 DEF r
        <5>2. QED
          BY <1>3, <2>1, <2>4, <4>1, <5>1
      <4>2. QED
        BY <4>1
    <3>3. QED
      BY <1>1, <2>2, <2>4, <3>1, <3>2
  <2>5. \A b \in Client \ {a} : Identified(b) =>
           \A q \in DOMAIN rooms : active[b] \in rooms[q].players => active[b] \in rooms'[q].players
    BY <1>3, <2>1
  <2>6. QED
    BY <2>1, <2>3, <2>4, <2>5
<1>7. QED
  BY <1>5, <1>6 DEF Leave

\* A room of one's own, whose number nobody had.
LEMMA CreateRoomKeeps == ASSUME CastInv, NEW a \in Client, CreateRoom(a) PROVE Keeps
<1>1. /\ Identified(a) /\ inRoom[a] = FALSE /\ inRoom' = [inRoom EXCEPT ![a] = TRUE]
      /\ UNCHANGED <<mainId, active, conn, table>>
  BY DEF CreateRoom, CastInv, Sessions
<1>2. PICK r \in CastRoom :
         /\ r \notin DOMAIN rooms
         /\ rooms' = [q \in DOMAIN rooms \cup {r} |->
                         IF q = r THEN [players |-> {active[a]}, expired |-> FALSE] ELSE rooms[q]]
         /\ slot' = [slot EXCEPT ![IdOf(a)] = r]
  <2>1. \E r \in CastRoom : r \notin DOMAIN rooms
    BY DEF CreateRoom
  <2>2. QED
    BY <2>1 DEF CreateRoom
<1>3. /\ active[a] \in Conn /\ conn[active[a]].id = IdOf(a) /\ IdOf(a) \in Id
      /\ \A b \in Client \ {a} : Identified(b) =>
            active[b] # active[a] /\ IdOf(b) # IdOf(a) /\ IdOf(b) \in Id
  BY <1>1, Known
<1>4. /\ DOMAIN rooms' = DOMAIN rooms \cup {r} /\ rooms'[r].players = {active[a]}
      /\ \A q \in DOMAIN rooms : rooms'[q] = rooms[q]
      /\ rooms' \in [DOMAIN rooms' -> RoomObject]
  BY <1>2, <1>3 DEF CastInv, SlotsLead, RoomObject
<1>5. slot'[IdOf(a)] = r /\ \A j \in Id \ {IdOf(a)} : slot'[j] = slot[j]
  BY <1>2, <1>3 DEF CastInv, SlotsLead
<1>6. SlotsLead'
  <2>1. slot' \in [Id -> CastRoom \cup {NoRoom}]
    BY <1>2 DEF CastInv, SlotsLead
  <2>2. IdOf(a) # NoId
    BY <1>3, CastConstants
  <2>3. DOMAIN rooms' \subseteq CastRoom
        /\ \A j \in Id : slot'[j] # NoRoom => slot'[j] \in DOMAIN rooms'
    BY <1>3, <1>4, <1>5 DEF CastInv, SlotsLead
  <2>4. \A q \in DOMAIN rooms' : \A c \in rooms'[q].players : conn'[c].id # NoId
    BY <1>1, <1>3, <1>4, <2>2 DEF CastInv, SlotsLead
  <2>5. QED
    BY <1>4, <2>1, <2>3, <2>4 DEF SlotsLead
<1>7. /\ Sessions' /\ \A b \in Client : (Identified(b)' <=> Identified(b)) /\ IdOf(b)' = IdOf(b)
      /\ inRoom'[a] = TRUE /\ \A b \in Client \ {a} : inRoom'[b] = inRoom[b]
  BY <1>1, SameSessions
<1>8. ASSUME NEW b \in Client, NEW q \in DOMAIN rooms', Identified(b), active[b] \in rooms'[q].players
      PROVE  slot'[IdOf(b)] = q /\ inRoom'[b]
  <2>1. CASE b = a
    <3>1. \A p \in DOMAIN rooms : active[a] \notin rooms[p].players
      BY <1>1 DEF CastInv, Listed
    <3>2. QED
      BY <1>4, <1>5, <1>7, <1>8, <2>1, <3>1
  <2>2. CASE b # a
    <3>1. q \in DOMAIN rooms /\ active[b] \in rooms[q].players
      BY <1>3, <1>4, <1>8, <2>2
    <3>2. slot[IdOf(b)] = q /\ inRoom[b]
      BY <1>8, <3>1 DEF CastInv, Listed
    <3>3. QED
      BY <1>3, <1>5, <1>7, <1>8, <2>2, <3>2
  <2>3. QED
    BY <2>1, <2>2
<1>9. Listed'
  BY <1>1, <1>7, <1>8 DEF Listed
<1>10. Undisturbed
  BY <1>4 DEF Undisturbed
<1>11. QED
  BY <1>6, <1>7, <1>9, <1>10 DEF Keeps, CastInv

\* Out of the room that the slot leads to; for a join that is an exit as well.
LEMMA LeaveKeeps ==
    ASSUME CastInv, NEW a \in Client, NEW v \in BOOLEAN, Identified(a),
           inRoom' = [inRoom EXCEPT ![a] = v], UNCHANGED <<mainId, active, conn>>,
           IF slot[IdOf(a)] # NoRoom THEN Leave(IdOf(a)) ELSE UNCHANGED <<slot, rooms>>
    PROVE  /\ CastInv'
           /\ \A b \in Client \ {a} : Identified(b) =>
                 \A r \in DOMAIN rooms : active[b] \in rooms[r].players =>
                    r \in DOMAIN rooms' /\ active[b] \in rooms'[r].players
<1>1. /\ Sessions' /\ \A b \in Client : (Identified(b)' <=> Identified(b)) /\ IdOf(b)' = IdOf(b)
      /\ \A b \in Client \ {a} : inRoom'[b] = inRoom[b]
  BY SameSessions
<1>2. CASE slot[IdOf(a)] # NoRoom
  <2>1. /\ SlotsLead' /\ DOMAIN rooms' \subseteq DOMAIN rooms
        /\ \A b \in Client \ {a} : Identified(b) =>
              \A r \in DOMAIN rooms : active[b] \in rooms[r].players =>
                 r \in DOMAIN rooms' /\ active[b] \in rooms'[r].players
        /\ \A b \in Client : Identified(b) =>
              \A r \in DOMAIN rooms' : active[b] \in rooms'[r].players =>
                 b # a /\ active[b] \in rooms[r].players /\ slot'[IdOf(b)] = r
    BY <1>2, LeaveRooms
  <2>2. Listed'
    BY <1>1, <2>1 DEF CastInv, Listed
  <2>3. QED
    BY <1>1, <2>1, <2>2 DEF CastInv
<1>3. CASE slot[IdOf(a)] = NoRoom
  <2>1. UNCHANGED <<slot, rooms>>
    BY <1>3
  <2>2. IdOf(a) \in Id
    BY Known
  <2>3. \A r \in DOMAIN rooms : active[a] \notin rooms[r].players
    BY <1>3, CastConstants DEF CastInv, Listed, SlotsLead
  <2>4. SlotsLead'
    BY <2>1 DEF CastInv, SlotsLead
  <2>5. Listed'
    BY <1>1, <2>1, <2>3 DEF CastInv, Listed
  <2>6. QED
    BY <1>1, <2>1, <2>4, <2>5 DEF CastInv
<1>4. QED
  BY <1>2, <1>3

LEMMA LeaveRoomKeeps == ASSUME CastInv, NEW a \in Client, LeaveRoom(a) PROVE Keeps
<1>1. /\ Identified(a) /\ inRoom' = [inRoom EXCEPT ![a] = FALSE]
      /\ UNCHANGED <<mainId, active, conn>>
      /\ IF slot[IdOf(a)] # NoRoom THEN Leave(IdOf(a)) ELSE UNCHANGED <<slot, rooms>>
  BY DEF LeaveRoom
<1>2. CastInv' /\ \A b \in Client \ {a} : Identified(b) =>
                    \A r \in DOMAIN rooms : active[b] \in rooms[r].players =>
                       r \in DOMAIN rooms' /\ active[b] \in rooms'[r].players
  BY <1>1, LeaveKeeps
<1>3. QED
  BY <1>2 DEF Keeps, Undisturbed

\* A client that has not entered a room is in no list, so a slot it has come
\* into takes nobody but itself out.
LEMMA JoinRoomKeeps == ASSUME CastInv, NEW a \in Client, NEW host \in Id, JoinRoom(a, host) PROVE Keeps
<1> DEFINE i == IdOf(a)
           r == slot[host]
           w == Without(r, i) \cup {active[a]}
<1>1. /\ Identified(a) /\ inRoom[a] = FALSE /\ inRoom' = [inRoom EXCEPT ![a] = TRUE]
      /\ UNCHANGED <<mainId, active, conn, table>>
  BY DEF JoinRoom, CastInv, Sessions
<1>2. \A q \in DOMAIN rooms : active[a] \notin rooms[q].players
  BY <1>1 DEF CastInv, Listed
<1>3. CASE IF slot[i] # NoRoom THEN Leave(i) ELSE UNCHANGED <<slot, rooms>>
  <2>1. CastInv' /\ \A b \in Client \ {a} : Identified(b) =>
                      \A q \in DOMAIN rooms : active[b] \in rooms[q].players =>
                         q \in DOMAIN rooms' /\ active[b] \in rooms'[q].players
    BY <1>1, <1>3, LeaveKeeps
  <2>2. QED
    BY <1>2, <2>1 DEF Keeps, Undisturbed
<1>4. CASE /\ slot[i] = NoRoom /\ r # NoRoom
           /\ rooms' = [rooms EXCEPT ![r].players = w] /\ slot' = [slot EXCEPT ![i] = r]
  <2>1. /\ active[a] \in Conn /\ conn[active[a]].id = i /\ i \in Id /\ r \in DOMAIN rooms
        /\ i # NoId /\ r \in CastRoom
        /\ \A b \in Client \ {a} : Identified(b) =>
              /\ active[b] # active[a] /\ IdOf(b) # i /\ IdOf(b) \in Id
              /\ conn[active[b]].id = IdOf(b)
    BY <1>1, <1>4, Known, CastConstants DEF CastInv, SlotsLead
  <2>2. /\ DOMAIN rooms' = DOMAIN rooms /\ rooms'[r].players = w
        /\ \A q \in DOMAIN rooms \ {r} : rooms'[q] = rooms[q]
        /\ rooms' \in [DOMAIN rooms' -> RoomObject]
    <3>1. \A q \in DOMAIN rooms : rooms[q] \in RoomObject
      BY DEF CastInv, SlotsLead
    <3>2. w \subseteq Conn
      BY <2>1, <3>1 DEF Without, RoomObject
    <3> HIDE DEF w, r
    <3>3. [rooms[r] EXCEPT !.players = w] \in RoomObject /\ [rooms[r] EXCEPT !.players = w].players = w
      BY <2>1, <3>1, <3>2 DEF RoomObject
    <3>4. QED
      BY <1>4, <2>1, <3>1, <3>3
  <2>3. slot' \in [Id -> CastRoom \cup {NoRoom}] /\ slot'[i] = r
        /\ \A j \in Id \ {i} : slot'[j] = slot[j]
    BY <1>4, <2>1 DEF CastInv, SlotsLead
  <2>4. /\ \A c \in w : c = active[a] \/ c \in rooms[r].players
        /\ active[a] \in w
        /\ \A b \in Client \ {a} : Identified(b) => (active[b] \in w <=> active[b] \in rooms[r].players)
    BY <2>1 DEF Without
  <2> HIDE DEF w, r
  <2>5. SlotsLead'
    BY <1>1, <2>1, <2>2, <2>3, <2>4 DEF CastInv, SlotsLead
  <2>6. /\ Sessions' /\ \A b \in Client : (Identified(b)' <=> Identified(b)) /\ IdOf(b)' = IdOf(b)
        /\ inRoom'[a] = TRUE /\ \A b \in Client \ {a} : inRoom'[b] = inRoom[b]
    BY <1>1, SameSessions
  <2>7. ASSUME NEW b \in Client, NEW q \in DOMAIN rooms', Identified(b), active[b] \in rooms'[q].players
        PROVE  slot'[IdOf(b)] = q /\ inRoom'[b]
    <3>1. CASE b = a
      BY <1>2, <2>2, <2>3, <2>6, <2>7, <3>1
    <3>2. CASE b # a
      <4>1. active[b] \in rooms[q].players
        BY <2>2, <2>4, <2>7, <3>2
      <4>2. slot[IdOf(b)] = q /\ inRoom[b]
        BY <2>2, <2>7, <4>1 DEF CastInv, Listed
      <4>3. QED
        BY <2>1, <2>3, <2>6, <2>7, <3>2, <4>2
    <3>3. QED
      BY <3>1, <3>2
  <2>8. Listed'
    BY <1>1, <2>6, <2>7 DEF Listed
  <2>9. Undisturbed
    BY <1>2, <2>2, <2>4 DEF Undisturbed
  <2>10. QED
    BY <2>5, <2>6, <2>8, <2>9 DEF Keeps, CastInv
<1>5. QED
  BY <1>3, <1>4 DEF JoinRoom

-----------------------------------------------------------------------------
(* The theorems.                                                            *)

LEMMA NextKeeps == ASSUME CastInv, [CastNext]_castVars PROVE Keeps
<1>1. ASSUME NEW a \in Client, Ping(a) PROVE Keeps
  BY <1>1, PingKeeps DEF Ping
<1>2. CASE UNCHANGED castVars
  BY <1>2, PingKeeps DEF castVars
<1>3. QED
  BY <1>1, <1>2, ConnectKeeps, QuitKeeps, ConnectionKeeps, CloseSocketKeeps, CreateRoomKeeps,
     LeaveRoomKeeps, JoinRoomKeeps DEF CastNext

LEMMA CastHolds == CastSpec => []CastInv
<1>1. CastInit => CastInv
  <2> SUFFICES ASSUME CastInit PROVE CastInv
    OBVIOUS
  <2>1. /\ rooms = <<>> /\ DOMAIN rooms = {} /\ \A a \in Client : active[a] = NoConn
        /\ \A a \in Client : mainId[a] = NoId
    BY DEF CastInit
  <2>2. \A a \in Client : ~Identified(a)
    BY <2>1 DEF Identified
  <2>3. Sessions
    BY <2>1, <2>2 DEF CastInit, Sessions, Closed
  <2>4. SlotsLead /\ Listed
    BY <2>1, <2>2 DEF CastInit, SlotsLead, Listed
  <2>5. QED
    BY <2>3, <2>4 DEF CastInv
<1>2. CastInv /\ [CastNext]_castVars => CastInv'
  BY NextKeeps DEF Keeps
<1>3. QED
  BY <1>1, <1>2, PTL DEF CastSpec

\* SlotsMatchRooms: what is sent along a client's slot and what it receives as
\* one of a room's list is the same room, although Main's session ids are
\* handed on while the Cast server still keeps the slots and lists of their
\* former owners.
THEOREM SlotsAgree == CastSpec => []SlotsMatchRooms
<1>1. CastInv => SlotsMatchRooms
  BY DEF CastInv, SlotsLead, Listed, SlotsMatchRooms
<1>2. QED
  BY <1>1, CastHolds, PTL

\* KeptInRoom: no leave, join or end of another connection takes a client that
\* is connected out of its room.
THEOREM NobodyIsTakenOut == CastSpec => KeptInRoom
<1>1. CastInv /\ [CastNext]_castVars => Undisturbed
  BY NextKeeps DEF Keeps
<1>2. QED
  BY <1>1, CastHolds, PTL DEF CastSpec, KeptInRoom, Undisturbed

-----------------------------------------------------------------------------
(* The Main server's calls (Ipc): types. *)

\* IpcTypeOK, cut into what the steps of one server disturb.
MainTypeOK ==
    /\ attempt \in Attempt /\ running \in Attempt /\ assassins \in {0, running}
    /\ room \in {"no", "made", "both"}
    /\ call \in {NoCall} \cup [kind : Calls, n : Attempt]
    /\ mainTimer \in 0 .. MainWait
    /\ outcome \in {"none", "reply", "reset"}
    /\ call = NoCall => outcome = "none"

CastSideTypeOK ==
    /\ castUp \in BOOLEAN /\ castRoom \in BOOLEAN
    /\ castMap \in Attempt /\ castAssassins \in Attempt /\ castTeams \in Attempt
    /\ asking \in BOOLEAN /\ castTimer \in 0 .. CastWait /\ answer \in BOOLEAN
    /\ requested \in Nat
    /\ asking /\ ~answer => requested > 0

Typed == MainTypeOK /\ CastSideTypeOK /\ inbox \in Seq(Message)

LEMMA TypedIsTypeOK == Typed <=> IpcTypeOK
BY DEF Typed, MainTypeOK, CastSideTypeOK, IpcTypeOK

LEMMA AttemptFacts ==
    /\ 0 \in Attempt /\ Attempt \subseteq Nat
    /\ \A n \in Attempt : n < MaxStarts => n + 1 \in Attempt
BY IpcAssumption DEF Attempt

LEMMA TimerFacts == /\ 0 \in 0 .. MainWait /\ MainWait \in 0 .. MainWait
                     /\ 0 \in 0 .. CastWait /\ CastWait \in 0 .. CastWait
BY IpcAssumption

\* A call and the message that carries it.
LEMMA CallFacts ==
    /\ \A k \in Calls, n \in Attempt :
          /\ [kind |-> k, n |-> n] \in Message
          /\ [kind |-> k, n |-> n] \in [kind : Calls, n : Attempt]
    /\ NoCall.kind = "none" /\ NoCall.kind \notin Calls
    /\ \A c \in [kind : Calls, n : Attempt] : c # NoCall
    /\ \A n \in Attempt : /\ [kind |-> "teams", n |-> n] \in Message
                          /\ [kind |-> "leave", n |-> n] \in Message
                          /\ [kind |-> "create", n |-> n] \in Message
                          /\ [kind |-> "connect", n |-> n] \in Message
BY DEF Message, Calls, NoCall

\* What one message more, or one less, does to a queue.
LEMMA Appended ==
    ASSUME NEW q \in Seq(Message), NEW m \in Message
    PROVE  /\ Append(q, m) \in Seq(Message)
           /\ DOMAIN q = 1 .. Len(q) /\ Len(q) \in Nat
           /\ DOMAIN Append(q, m) = 1 .. (Len(q) + 1)
           /\ \A i \in DOMAIN q : Append(q, m)[i] = q[i]
           /\ Append(q, m)[Len(q) + 1] = m
           /\ \A i \in DOMAIN Append(q, m) : i \in DOMAIN q \/ i = Len(q) + 1
OBVIOUS

LEMMA Dropped ==
    ASSUME NEW q \in Seq(Message), q # <<>>
    PROVE  /\ Tail(q) \in Seq(Message) /\ Head(q) \in Message
           /\ Head(q) = q[1] /\ 1 \in DOMAIN q
           /\ \A i \in DOMAIN Tail(q) : i + 1 \in DOMAIN q /\ Tail(q)[i] = q[i + 1] /\ i \in Nat
           /\ \A i \in DOMAIN q : i # 1 => i - 1 \in DOMAIN Tail(q) /\ Tail(q)[i - 1] = q[i]
           /\ DOMAIN q \subseteq Nat /\ DOMAIN Tail(q) \subseteq Nat \ {0}
OBVIOUS

LEMMA CalledType ==
    ASSUME Typed, NEW k \in Calls, NEW n \in Attempt, Called(k, n)
    PROVE  /\ call' \in [kind : Calls, n : Attempt] /\ call' # NoCall
           /\ mainTimer' \in 0 .. MainWait /\ outcome' \in {"none", "reset"}
           /\ inbox' \in Seq(Message)
<1>1. [kind |-> k, n |-> n] \in Message /\ inbox \in Seq(Message)
  BY CallFacts DEF Typed
<1>2. inbox' \in Seq(Message)
  BY <1>1, Appended DEF Called
<1>3. QED
  BY <1>2, CallFacts, IpcAssumption DEF Called

LEMMA ReturnedType ==
    Returned => /\ call' = NoCall /\ mainTimer' \in 0 .. MainWait /\ outcome' = "none"
BY IpcAssumption DEF Returned

LEMMA HandleType == ASSUME Typed, Handle PROVE Typed'
<1> DEFINE m == Head(inbox)
<1>1. inbox \in Seq(Message) /\ inbox # <<>> /\ CastSideTypeOK /\ MainTypeOK
  BY DEF Typed, Handle
<1>2. m \in Message /\ inbox' = Tail(inbox) /\ inbox' \in Seq(Message)
  BY <1>1, Dropped DEF Handle
<1>3. m.n \in Attempt
  BY <1>2 DEF Message
<1> HIDE DEF m
<1>4. castMap' \in Attempt /\ castAssassins' \in Attempt /\ castTeams' \in Attempt
  <2>1. \/ NewMatch \/ SetRoomNumberFor(m) \/ SetMapFor(m) \/ SetAssassinModeInfoFor(m)
        \/ SetPlayerTeamsFor(m) \/ UNCHANGED castMatch
    BY DEF Handle, m
  <2>2. QED
    BY <2>1, <1>1, <1>3, AttemptFacts
       DEF CastSideTypeOK, NewMatch, SetRoomNumberFor, SetMapFor, SetAssassinModeInfoFor,
           SetPlayerTeamsFor, castMatch
<1>5. outcome' \in {"none", "reply", "reset"} /\ (call = NoCall => outcome' = "none")
  <2>1. call = m => call # NoCall
    BY <1>2, CallFacts DEF Message, Calls, NoCall
  <2>2. outcome' = outcome \/ (call = m /\ outcome' = "reply")
    BY DEF Handle, Reply, m
  <2>3. QED
    BY <2>1, <2>2, <1>1 DEF MainTypeOK
<1>6. MainTypeOK'
  BY <1>1, <1>5 DEF Handle, MainTypeOK, match
<1>7. /\ asking' \in BOOLEAN /\ castTimer' \in 0 .. CastWait /\ requested' \in Nat
      /\ asking' /\ ~answer' => requested' > 0
  <2>1. CASE m.kind = "connect"
    BY <2>1, <1>1, IpcAssumption DEF Handle, m, CastSideTypeOK
  <2>2. CASE m.kind # "connect"
    BY <2>2, <1>1 DEF Handle, m, CastSideTypeOK
  <2>3. QED
    BY <2>1, <2>2
<1>8. castRoom' \in BOOLEAN
  <2>1. castRoom' = (m.kind = "create" \/ (castRoom /\ m.kind # "leave"))
    BY DEF Handle, m
  <2>2. QED
    BY <2>1
<1>9. CastSideTypeOK'
  BY <1>1, <1>4, <1>7, <1>8 DEF Handle, CastSideTypeOK
<1>10. QED
  BY <1>2, <1>6, <1>9 DEF Typed

LEMMA GoOnType == ASSUME Typed, GoOn PROVE Typed'
<1>1. inbox \in Seq(Message) /\ CastSideTypeOK /\ MainTypeOK
  BY DEF Typed
<1>2. call # NoCall /\ call \in [kind : Calls, n : Attempt] /\ call.n \in Attempt
  BY <1>1 DEF GoOn, Over, MainTypeOK
<1>3. CASE (Called("assassin", call.n) \/ Called("plain", call.n)) /\ UNCHANGED match
  <2>1. /\ call' \in [kind : Calls, n : Attempt] /\ call' # NoCall
        /\ mainTimer' \in 0 .. MainWait /\ outcome' \in {"none", "reset"}
        /\ inbox' \in Seq(Message)
    BY <1>2, <1>3, CalledType DEF Calls
  <2>2. QED
    BY <1>1, <1>3, <2>1 DEF GoOn, castSide, castMatch, match, Typed, MainTypeOK, CastSideTypeOK
<1>4. CASE GivesUp
  BY <1>1, <1>4, ReturnedType
     DEF GoOn, GivesUp, castSide, castMatch, match, Typed, MainTypeOK, CastSideTypeOK
<1>5. CASE MatchStarted
  <2>1. inbox' \in Seq(Message)
    BY <1>1, <1>2, <1>5, CallFacts, Appended DEF MatchStarted
  <2>2. running' \in Attempt /\ assassins' \in {0, running'}
    BY <1>2, <1>5 DEF MatchStarted
  <2>3. Returned
    BY <1>5 DEF MatchStarted
  <2>4. QED
    BY <1>1, <2>1, <2>2, <2>3, ReturnedType
       DEF GoOn, castSide, castMatch, Typed, MainTypeOK, CastSideTypeOK
<1>6. QED
  BY <1>3, <1>4, <1>5 DEF GoOn, ModeChosen, WithAssassins, GivesUp

LEMMA NextType == ASSUME Typed, [IpcNext]_ipcVars PROVE Typed'
<1>1. inbox \in Seq(Message) /\ CastSideTypeOK /\ MainTypeOK
  BY DEF Typed
<1>2. CASE RoomCreation
  <2>1. Called("number", 0) /\ "number" \in Calls /\ 0 \in Attempt
    BY <1>2, AttemptFacts DEF RoomCreation, Calls
  <2>2. QED
    BY <1>1, <1>2, <2>1, CalledType
       DEF RoomCreation, Typed, MainTypeOK, CastSideTypeOK, match, castSide, castMatch
<1>3. CASE StartMatch
  <2>1. attempt + 1 \in Attempt
    BY <1>1, <1>3, AttemptFacts DEF StartMatch, MainTypeOK
  <2>2. Called("map", attempt + 1) /\ "map" \in Calls
    BY <1>3 DEF StartMatch, Calls
  <2>3. QED
    BY <1>1, <1>3, <2>1, <2>2, CalledType
       DEF StartMatch, Typed, MainTypeOK, CastSideTypeOK, match, castSide, castMatch
<1>4. CASE EndMatch
  BY <1>1, <1>4, AttemptFacts DEF EndMatch, Typed, MainTypeOK, CastSideTypeOK, castSide, castMatch
<1>5. CASE RoomLeave
  <2>1. inbox' \in Seq(Message)
    BY <1>1, <1>5, AttemptFacts, CallFacts, Appended DEF RoomLeave
  <2>2. QED
    BY <1>1, <1>5, <2>1, AttemptFacts
       DEF RoomLeave, Typed, MainTypeOK, CastSideTypeOK, castSide, castMatch
<1>6. CASE GoOn
  BY <1>6, GoOnType
<1>7. CASE GetSessionIdFor
  BY <1>1, <1>7 DEF GetSessionIdFor, Typed, MainTypeOK, CastSideTypeOK, mainVars, match, castMatch
<1>8. CASE ClientSends
  <2>1. inbox' \in Seq(Message)
    <3>1. \E m \in Message : inbox' = Append(inbox, m)
      BY <1>8, AttemptFacts, CallFacts DEF ClientSends
    <3>2. QED
      BY <1>1, <3>1, Appended
  <2>2. QED
    BY <1>1, <1>8, <2>1 DEF ClientSends, Typed, MainTypeOK, CastSideTypeOK, match, castSide, castMatch
<1>9. CASE Handle
  BY <1>9, HandleType
<1>10. CASE SessionIdReturned
  BY <1>1, <1>10, TimerFacts
     DEF SessionIdReturned, Typed, MainTypeOK, CastSideTypeOK, mainVars, match, castMatch
<1>11. CASE CastStops
  <2>1. inbox' \in Seq(Message)
    BY <1>11 DEF CastStops
  <2>2. QED
    BY <1>1, <1>11, <2>1, AttemptFacts, TimerFacts
       DEF CastStops, NewMatch, Typed, MainTypeOK, CastSideTypeOK, match
<1>12. CASE CastStarts
  BY <1>1, <1>12 DEF CastStarts, Typed, MainTypeOK, CastSideTypeOK, mainVars, match, castMatch
<1>13. CASE Tick
  <2>1. mainTimer' \in 0 .. MainWait /\ castTimer' \in 0 .. CastWait
    BY <1>1, <1>13, IpcAssumption DEF Tick, MainTypeOK, CastSideTypeOK
  <2>2. QED
    BY <1>1, <1>13, <2>1 DEF Tick, Typed, MainTypeOK, CastSideTypeOK, match, castMatch
<1>14. CASE UNCHANGED ipcVars
  BY <1>1, <1>14 DEF ipcVars, mainVars, castSide, match, castMatch, Typed, MainTypeOK, CastSideTypeOK
<1>15. QED
  BY <1>2, <1>3, <1>4, <1>5, <1>6, <1>7, <1>8, <1>9, <1>10, <1>11, <1>12, <1>13, <1>14
     DEF IpcNext

LEMMA InitTyped == ASSUME IpcInit PROVE Typed
<1>1. MainTypeOK
  BY AttemptFacts, TimerFacts DEF IpcInit, MainTypeOK
<1>2. CastSideTypeOK
  BY AttemptFacts, TimerFacts DEF IpcInit, CastSideTypeOK
<1>3. inbox \in Seq(Message)
  BY DEF IpcInit
<1>4. QED
  BY <1>1, <1>2, <1>3 DEF Typed

\* The variables of the calls stay in their types: in particular the Cast
\* server never waits for a session id that the Main server does not owe it.
THEOREM IpcTypeCorrect == IpcSpec => []IpcTypeOK
<1>1. IpcInit => Typed
  BY InitTyped
<1>2. Typed /\ [IpcNext]_ipcVars => Typed'
  BY NextType
<1>3. QED
  BY <1>1, <1>2, TypedIsTypeOK, PTL DEF IpcSpec

-----------------------------------------------------------------------------
(* What lies in the Cast server's sockets. *)

Only(q, kinds) == \A i \in DOMAIN q : q[i].kind \in kinds

\* After this message there are only clients who connect.
Closes(q, m) == \A i, j \in DOMAIN q : q[i] = m /\ i < j => q[j].kind = "connect"

\* Before the teams comes the word that the mode is off.
PlainFirst(q) ==
    \A i \in DOMAIN q : q[i].kind = "teams" =>
        \E j \in DOMAIN q : j < i /\ q[j].kind = "plain"

Within(q, n) == \A i \in DOMAIN q : q[i].n <= n

TeamsBelow(q, n) == \A i \in DOMAIN q : q[i].kind = "teams" => q[i].n < n

MapsFrom(q, n) == \A i \in DOMAIN q : q[i].kind = "map" => q[i].n >= n

LEMMA AppendedQueue ==
    ASSUME NEW q \in Seq(Message), NEW m \in Message
    PROVE  /\ \A ks : Only(q, ks) /\ m.kind \in ks => Only(Append(q, m), ks)
           /\ \A c : Closes(q, c) /\ m.kind = "connect" => Closes(Append(q, m), c)
           /\ (\A i \in DOMAIN q : q[i] # m) => Closes(Append(q, m), m)
           /\ PlainFirst(q) /\ m.kind # "teams" => PlainFirst(Append(q, m))
           /\ PlainFirst(q) /\ (\E i \in DOMAIN q : q[i].kind = "plain") => PlainFirst(Append(q, m))
           /\ (\E i \in DOMAIN q : q[i].kind = "plain")
                 => \E i \in DOMAIN Append(q, m) : Append(q, m)[i].kind = "plain"
           /\ \A n \in Nat : Within(q, n) /\ m.n <= n => Within(Append(q, m), n)
           /\ \A n \in Nat : TeamsBelow(q, n) /\ m.kind # "teams" => TeamsBelow(Append(q, m), n)
           /\ \A n \in Nat : MapsFrom(q, n) /\ (m.kind = "map" => m.n >= n)
                               => MapsFrom(Append(q, m), n)
<1> DEFINE p == Append(q, m)
<1>1. /\ DOMAIN q = 1 .. Len(q) /\ Len(q) \in Nat
      /\ DOMAIN p = 1 .. (Len(q) + 1)
      /\ \A i \in DOMAIN q : p[i] = q[i]
      /\ p[Len(q) + 1] = m
      /\ \A i \in DOMAIN p : i \in DOMAIN q \/ i = Len(q) + 1
  BY Appended
<1> HIDE DEF p
<1>2. \A ks : Only(q, ks) /\ m.kind \in ks => Only(p, ks)
  BY <1>1 DEF Only
<1>3. \A c : Closes(q, c) /\ m.kind = "connect" => Closes(p, c)
  <2>1. SUFFICES ASSUME NEW c, Closes(q, c), m.kind = "connect",
                        NEW i \in DOMAIN p, NEW j \in DOMAIN p, p[i] = c, i < j
                 PROVE  p[j].kind = "connect"
    BY DEF Closes
  <2>2. i \in DOMAIN q
    BY <1>1, <2>1
  <2>3. QED
    BY <1>1, <2>1, <2>2 DEF Closes
<1>4. (\A i \in DOMAIN q : q[i] # m) => Closes(p, m)
  <2>1. SUFFICES ASSUME \A i \in DOMAIN q : q[i] # m,
                        NEW i \in DOMAIN p, NEW j \in DOMAIN p, p[i] = m, i < j
                 PROVE  FALSE
    BY DEF Closes
  <2>2. QED
    BY <1>1, <2>1
<1>5. PlainFirst(q) /\ m.kind # "teams" => PlainFirst(p)
  BY <1>1 DEF PlainFirst
<1>6. PlainFirst(q) /\ (\E i \in DOMAIN q : q[i].kind = "plain") => PlainFirst(p)
  <2>1. SUFFICES ASSUME PlainFirst(q), NEW k \in DOMAIN q, q[k].kind = "plain",
                        NEW i \in DOMAIN p, p[i].kind = "teams"
                 PROVE  \E j \in DOMAIN p : j < i /\ p[j].kind = "plain"
    BY DEF PlainFirst
  <2>2. CASE i \in DOMAIN q
    BY <1>1, <2>1, <2>2 DEF PlainFirst
  <2>3. CASE i = Len(q) + 1
    BY <1>1, <2>1, <2>3
  <2>4. QED
    BY <1>1, <2>2, <2>3
<1>7. (\E i \in DOMAIN q : q[i].kind = "plain") => \E i \in DOMAIN p : p[i].kind = "plain"
  BY <1>1
<1>8. \A n \in Nat : Within(q, n) /\ m.n <= n => Within(p, n)
  BY <1>1 DEF Within
<1>9. \A n \in Nat : TeamsBelow(q, n) /\ m.kind # "teams" => TeamsBelow(p, n)
  BY <1>1 DEF TeamsBelow
<1>10. \A n \in Nat : MapsFrom(q, n) /\ (m.kind = "map" => m.n >= n) => MapsFrom(p, n)
  BY <1>1 DEF MapsFrom
<1>11. QED
  BY <1>2, <1>3, <1>4, <1>5, <1>6, <1>7, <1>8, <1>9, <1>10 DEF p

LEMMA DroppedQueue ==
    ASSUME NEW q \in Seq(Message), q # <<>>
    PROVE  /\ \A ks : Only(q, ks) => Only(Tail(q), ks) /\ Head(q).kind \in ks
           /\ \A c : Closes(q, c) => Closes(Tail(q), c)
           /\ Closes(q, Head(q)) => Only(Tail(q), {"connect"})
           /\ PlainFirst(q) => Head(q).kind # "teams"
           /\ PlainFirst(q) /\ Head(q).kind # "plain" => PlainFirst(Tail(q))
           /\ (\E i \in DOMAIN q : q[i].kind = "plain") /\ Head(q).kind # "plain"
                 => \E i \in DOMAIN Tail(q) : Tail(q)[i].kind = "plain"
           /\ \A n : Within(q, n) => Within(Tail(q), n) /\ Head(q).n <= n
           /\ \A n : TeamsBelow(q, n) => /\ TeamsBelow(Tail(q), n)
                                         /\ Head(q).kind = "teams" => Head(q).n < n
           /\ \A n : MapsFrom(q, n) => /\ MapsFrom(Tail(q), n)
                                       /\ Head(q).kind = "map" => Head(q).n >= n
<1> DEFINE p == Tail(q)
           m == Head(q)
<1>1. /\ m = q[1] /\ 1 \in DOMAIN q
      /\ \A i \in DOMAIN p : i + 1 \in DOMAIN q /\ p[i] = q[i + 1] /\ i \in Nat /\ i # 0
      /\ \A i \in DOMAIN q : i # 1 => i - 1 \in DOMAIN p /\ p[i - 1] = q[i]
      /\ \A i \in DOMAIN q : i \in Nat /\ i # 0
  <2>1. \A i \in DOMAIN q : i # 0
    OBVIOUS
  <2>2. QED
    BY <2>1, Dropped
<1> HIDE DEF p, m
<1>2. \A ks : Only(q, ks) => Only(p, ks) /\ m.kind \in ks
  BY <1>1 DEF Only
<1>3. \A c : Closes(q, c) => Closes(p, c)
  <2>1. SUFFICES ASSUME NEW c, Closes(q, c), NEW i \in DOMAIN p, NEW j \in DOMAIN p, p[i] = c, i < j
                 PROVE  p[j].kind = "connect"
    BY DEF Closes
  <2>2. /\ i + 1 \in DOMAIN q /\ j + 1 \in DOMAIN q /\ i + 1 < j + 1
        /\ q[i + 1] = c /\ p[j] = q[j + 1]
    BY <1>1, <2>1
  <2>3. QED
    BY <2>1, <2>2 DEF Closes
<1>4. Closes(q, m) => Only(p, {"connect"})
  <2>1. SUFFICES ASSUME Closes(q, m), NEW j \in DOMAIN p PROVE p[j].kind = "connect"
    BY DEF Only
  <2>2. j + 1 \in DOMAIN q /\ 1 < j + 1 /\ p[j] = q[j + 1] /\ q[1] = m /\ 1 \in DOMAIN q
    BY <1>1
  <2>3. QED
    BY <2>1, <2>2 DEF Closes
<1>5. PlainFirst(q) => m.kind # "teams"
  <2>1. \A j \in DOMAIN q : ~(j < 1)
    BY <1>1
  <2>2. QED
    BY <1>1, <2>1 DEF PlainFirst
<1>6. PlainFirst(q) /\ m.kind # "plain" => PlainFirst(p)
  <2>1. SUFFICES ASSUME PlainFirst(q), m.kind # "plain", NEW i \in DOMAIN p, p[i].kind = "teams"
                 PROVE  \E j \in DOMAIN p : j < i /\ p[j].kind = "plain"
    BY DEF PlainFirst
  <2>2. i + 1 \in DOMAIN q /\ q[i + 1].kind = "teams" /\ i \in Nat
    BY <1>1, <2>1
  <2>3. PICK k \in DOMAIN q : k < i + 1 /\ q[k].kind = "plain"
    BY <2>1, <2>2 DEF PlainFirst
  <2>4. k # 1 /\ k \in Nat /\ k - 1 \in DOMAIN p /\ p[k - 1] = q[k]
    BY <1>1, <2>1, <2>3
  <2>5. k - 1 < i
    BY <2>2, <2>3, <2>4
  <2>6. QED
    BY <2>3, <2>4, <2>5
<1>7. (\E i \in DOMAIN q : q[i].kind = "plain") /\ m.kind # "plain"
         => \E i \in DOMAIN p : p[i].kind = "plain"
  <2>1. SUFFICES ASSUME NEW i \in DOMAIN q, q[i].kind = "plain", m.kind # "plain"
                 PROVE  \E k \in DOMAIN p : p[k].kind = "plain"
    OBVIOUS
  <2>2. i - 1 \in DOMAIN p /\ p[i - 1] = q[i]
    BY <1>1, <2>1
  <2>3. QED
    BY <2>1, <2>2
<1>8. \A n : Within(q, n) => Within(p, n) /\ m.n <= n
  BY <1>1 DEF Within
<1>9. \A n : TeamsBelow(q, n) => TeamsBelow(p, n) /\ (m.kind = "teams" => m.n < n)
  BY <1>1 DEF TeamsBelow
<1>10. \A n : MapsFrom(q, n) => MapsFrom(p, n) /\ (m.kind = "map" => m.n >= n)
  BY <1>1 DEF MapsFrom
<1>11. QED
  BY <1>2, <1>3, <1>4, <1>5, <1>6, <1>7, <1>8, <1>9, <1>10 DEF p, m

\* An empty queue.
LEMMA EmptyQueue ==
    /\ \A ks : Only(<<>>, ks)
    /\ \A c : Closes(<<>>, c)
    /\ PlainFirst(<<>>)
    /\ \A n : Within(<<>>, n) /\ TeamsBelow(<<>>, n) /\ MapsFrom(<<>>, n)
BY DEF Only, Closes, PlainFirst, Within, TeamsBelow, MapsFrom

-----------------------------------------------------------------------------
(* The inductive invariant: one part per point of handleRoomStart. *)

\* No message is ahead of the attempts, and a server that is down has nothing.
NoneAhead ==
    /\ castTeams <= attempt /\ Within(inbox, attempt)
    /\ ~castUp => ~castRoom /\ inbox = <<>>

\* A match is started, and runs, in a room that both servers have been told of,
\* so no message is under way that would create or close one.
InItsRoom ==
    /\ running # 0 => /\ running <= attempt /\ room = "both"
                      /\ running = attempt => call = NoCall
    /\ room # "both" => call.kind \in {"none", "number"}

\* The call for the map: whatever else waits is older.  Its answer shows that
\* all of it has been handled.
MapCalled ==
    call.kind = "map" =>
        /\ call.n = attempt /\ castTeams < attempt /\ TeamsBelow(inbox, attempt)
        /\ Closes(inbox, call)
        /\ outcome = "reply" => /\ Only(inbox, {"connect"})
                                /\ castRoom => castMap = attempt

\* The call for the assassins, made only after the answer to the map.
AssassinsCalled ==
    call.kind = "assassin" =>
        /\ call.n = attempt
        /\ Only(inbox, {"connect", "assassin"}) /\ Closes(inbox, call)
        /\ castRoom => castMap = attempt
        /\ outcome = "reply" => /\ Only(inbox, {"connect"})
                                /\ castRoom => castAssassins = attempt

\* The call that tells that the mode is off, whose answer nobody looks at.
PlainCalled ==
    call.kind = "plain" =>
        /\ call.n = attempt /\ castTeams < attempt
        /\ Only(inbox, {"connect", "plain"})
        /\ castRoom => castMap = attempt
        /\ castRoom => castAssassins = 0 \/ \E i \in DOMAIN inbox : inbox[i].kind = "plain"

\* The match: with assassins nothing is left that would unset them, without
\* them the word that there are none comes before the teams.
RunsAlone ==
    /\ Only(inbox, {"connect", "plain", "teams"})
    /\ castRoom => castMap = running
    /\ assassins # 0 => /\ Only(inbox, {"connect", "teams"})
                        /\ castRoom => castAssassins = running
    /\ assassins = 0 /\ castRoom =>
          /\ castTeams = running => castAssassins = 0
          /\ castAssassins = 0 \/ PlainFirst(inbox)

\* A later attempt during the match sends a map, never an older one's.
Runs ==
    running # 0 =>
        /\ Only(inbox, {"connect", "map", "assassin", "plain", "teams"})
        /\ MapsFrom(inbox, running)
        /\ castRoom => castMap >= running
        /\ running = attempt => RunsAlone

Points == NoneAhead /\ InItsRoom /\ MapCalled /\ AssassinsCalled /\ PlainCalled /\ Runs

IpcInv == Typed /\ Points

LEMMA PointsKept ==
    ASSUME Points, UNCHANGED <<attempt, room, running, assassins, call, inbox,
                               castUp, castRoom, castMap, castAssassins, castTeams>>,
           outcome' = outcome
    PROVE  Points'
BY DEF Points, NoneAhead, InItsRoom, MapCalled, AssassinsCalled, PlainCalled, Runs, RunsAlone

\* What a call leaves in the queue, and what a message without a number does.
LEMMA CalledQueue ==
    ASSUME NEW k, NEW n, Called(k, n)
    PROVE  inbox' = inbox \/ (castUp /\ inbox' = Append(inbox, [kind |-> k, n |-> n]))
<1>1. castUp => inbox' = Append(inbox, [kind |-> k, n |-> n])
  BY DEF Called
<1>2. ~castUp => inbox' = inbox
  BY DEF Called
<1>3. QED
  BY <1>1, <1>2

LEMMA Unnumbered ==
    ASSUME NEW q \in Seq(Message), NEW k \in {"number", "create", "leave"}, NEW a \in Nat,
           Within(q, a)
    PROVE  Within(Append(q, [kind |-> k, n |-> 0]), a)
<1> DEFINE m == [kind |-> k, n |-> 0]
<1>1. m \in Message /\ m.n <= a
  BY AttemptFacts DEF Message, Calls
<1> HIDE DEF m
<1>2. Within(Append(q, m), a)
  BY <1>1, AppendedQueue
<1>3. QED
  BY <1>2 DEF m

LEMMA RoomCreationKeeps == ASSUME IpcInv, RoomCreation PROVE Points'
<1>1. /\ inbox \in Seq(Message) /\ attempt \in Nat /\ Points
      /\ running = 0 /\ call' = [kind |-> "number", n |-> 0]
  BY AttemptFacts DEF IpcInv, Typed, MainTypeOK, Points, InItsRoom, RoomCreation, Called
<1>3. inbox' = inbox \/ (castUp /\ inbox' = Append(inbox, [kind |-> "number", n |-> 0]))
  BY CalledQueue DEF RoomCreation
<1>4. Within(inbox', attempt) /\ (~castUp => inbox' = <<>>)
  BY <1>1, <1>3, Unnumbered DEF Points, NoneAhead
<1>5. QED
  BY <1>1, <1>4 DEF RoomCreation, castSide, castMatch, match, Points, NoneAhead, InItsRoom,
     MapCalled, AssassinsCalled, PlainCalled, Runs

LEMMA StartMatchKeeps == ASSUME IpcInv, StartMatch PROVE Points'
<1> DEFINE c == [kind |-> "map", n |-> attempt + 1]
<1>1. /\ inbox \in Seq(Message) /\ attempt \in Nat /\ attempt + 1 \in Attempt
      /\ castTeams \in Nat /\ running \in Nat /\ Points
  BY AttemptFacts DEF IpcInv, Typed, MainTypeOK, CastSideTypeOK, StartMatch
<1>2. c \in Message /\ call' = c /\ attempt' = attempt + 1 /\ running' = running
  BY <1>1, CallFacts DEF Calls, StartMatch, Called, match
<1>3. inbox' = inbox \/ (castUp /\ inbox' = Append(inbox, c))
  BY CalledQueue DEF StartMatch
<1>4. \A i \in DOMAIN inbox : inbox[i] \in Message /\ inbox[i].n \in Nat /\ inbox[i].n <= attempt
  <2>1. \A i \in DOMAIN inbox : inbox[i] \in Message
    BY <1>1
  <2>2. QED
    BY <1>1, <2>1, AttemptFacts DEF Points, NoneAhead, Within, Message
<1>5. \A i \in DOMAIN inbox : inbox[i] # c /\ inbox[i].n <= attempt + 1 /\ inbox[i].n < attempt + 1
  BY <1>1, <1>4
<1> HIDE DEF c
<1>6. /\ Within(inbox, attempt + 1) /\ TeamsBelow(inbox, attempt + 1) /\ Closes(inbox, c)
  BY <1>5 DEF Within, TeamsBelow, Closes
<1>7. attempt + 1 \in Nat /\ c.n <= attempt + 1 /\ c.kind = "map"
  BY <1>1 DEF c
<1>8. /\ Within(inbox', attempt + 1) /\ TeamsBelow(inbox', attempt + 1)
      /\ Closes(inbox', c) /\ (~castUp => inbox' = <<>>)
  <2>1. CASE inbox' = inbox
    BY <1>1, <1>6, <2>1 DEF Points, NoneAhead
  <2>2. CASE castUp /\ inbox' = Append(inbox, c)
    BY <1>1, <1>2, <1>5, <1>6, <1>7, <2>2, AppendedQueue
  <2>3. QED
    BY <1>3, <2>1, <2>2
<1>9. /\ outcome' # "reply" /\ castTeams' = castTeams
      /\ castTeams < attempt + 1 /\ castTeams <= attempt + 1
  BY <1>1 DEF StartMatch, Called, castSide, castMatch, Points, NoneAhead
<1>10. NoneAhead'
  BY <1>1, <1>2, <1>8, <1>9 DEF NoneAhead, Points, StartMatch, castSide
<1>11. running # 0 => running <= attempt + 1 /\ running # attempt + 1 /\ c.n >= running
  BY <1>1 DEF Points, InItsRoom, c
<1>12. InItsRoom'
  BY <1>2, <1>11 DEF InItsRoom, StartMatch
<1>13. MapCalled'
  BY <1>2, <1>8, <1>9 DEF MapCalled, c
<1>14. AssassinsCalled' /\ PlainCalled'
  BY <1>2, <1>7 DEF AssassinsCalled, PlainCalled
<1>15. Runs'
  <2>1. UNCHANGED <<castRoom, castMap>>
    BY DEF StartMatch, castSide, castMatch
  <2>2. ASSUME running # 0
        PROVE  /\ Only(inbox', {"connect", "map", "assassin", "plain", "teams"})
               /\ MapsFrom(inbox', running)
    <3>1. /\ Only(inbox, {"connect", "map", "assassin", "plain", "teams"})
          /\ MapsFrom(inbox, running)
      BY <1>1, <2>2 DEF Points, Runs
    <3>2. CASE inbox' = inbox
      BY <3>1, <3>2
    <3>3. CASE inbox' = Append(inbox, c)
      <4>1. /\ c.kind \in {"connect", "map", "assassin", "plain", "teams"}
            /\ c.n >= running /\ c \in Message
        BY <1>2, <1>7, <1>11, <2>2
      <4>2. Only(Append(inbox, c), {"connect", "map", "assassin", "plain", "teams"})
        BY <1>1, <3>1, <4>1, AppendedQueue
      <4>3. MapsFrom(Append(inbox, c), running)
        BY <1>1, <3>1, <4>1, AppendedQueue
      <4>4. QED
        BY <3>3, <4>2, <4>3
    <3>4. QED
      BY <1>3, <3>2, <3>3
  <2>3. QED
    BY <1>1, <1>2, <1>11, <2>1, <2>2 DEF Points, Runs
<1>16. QED
  BY <1>10, <1>12, <1>13, <1>14, <1>15 DEF Points

LEMMA EndsKeep == ASSUME IpcInv, EndMatch \/ RoomLeave PROVE Points'
<1>1. /\ inbox \in Seq(Message) /\ attempt \in Nat /\ Points /\ call = NoCall /\ call' = NoCall
      /\ running' = 0 /\ attempt' = attempt
  BY AttemptFacts DEF IpcInv, Typed, MainTypeOK, EndMatch, RoomLeave, MainIdle
<1>2. Within(inbox', attempt) /\ (~castUp => inbox' = <<>>)
  <2>1. CASE inbox' = inbox
    BY <1>1, <2>1 DEF Points, NoneAhead
  <2>2. CASE castUp /\ inbox' = Append(inbox, [kind |-> "leave", n |-> 0])
    BY <1>1, <2>2, Unnumbered DEF Points, NoneAhead
  <2>3. QED
    BY <2>1, <2>2 DEF EndMatch, RoomLeave
<1>3. NoCall.kind = "none"
  BY CallFacts
<1>4. NoneAhead'
  BY <1>1, <1>2 DEF EndMatch, RoomLeave, castSide, castMatch, Points, NoneAhead
<1>5. InItsRoom' /\ MapCalled' /\ AssassinsCalled' /\ PlainCalled' /\ Runs'
  BY <1>1, <1>3 DEF InItsRoom, MapCalled, AssassinsCalled, PlainCalled, Runs
<1>6. QED
  BY <1>4, <1>5 DEF Points

LEMMA ClientSendsKeeps == ASSUME IpcInv, ClientSends PROVE Points'
<1>1. inbox \in Seq(Message) /\ attempt \in Nat /\ Points
  BY AttemptFacts DEF IpcInv, Typed, MainTypeOK
<1>2. UNCHANGED <<attempt, running, assassins, call, outcome, castUp, castRoom, castMap,
                  castAssassins, castTeams>> /\ castUp
  BY DEF ClientSends, castSide, castMatch, match
<1>3. CASE room' = room /\ inbox' = Append(inbox, [kind |-> "connect", n |-> 0])
  <2> DEFINE m == [kind |-> "connect", n |-> 0]
  <2>1. m \in Message /\ m.kind = "connect" /\ m.n = 0 /\ inbox' = Append(inbox, m)
    BY <1>3, CallFacts, AttemptFacts
  <2> HIDE DEF m
  <2>2. NoneAhead' /\ InItsRoom'
    BY <1>1, <1>2, <1>3, <2>1, AppendedQueue DEF NoneAhead, InItsRoom, Points
  <2>3. MapCalled' /\ AssassinsCalled' /\ PlainCalled'
    BY <1>1, <1>2, <1>3, <2>1, AppendedQueue DEF MapCalled, AssassinsCalled, PlainCalled, Points
  <2>4. Runs'
    <3>1. running \in Nat
      BY AttemptFacts DEF IpcInv, Typed, MainTypeOK
    <3>2. RunsAlone => RunsAlone'
      BY <1>1, <1>2, <2>1, AppendedQueue DEF RunsAlone
    <3>3. QED
      BY <1>1, <1>2, <2>1, <3>1, <3>2, AppendedQueue DEF Runs, Points
  <2>5. QED
    BY <2>2, <2>3, <2>4 DEF Points
<1>4. CASE /\ MainIdle /\ room = "made" /\ room' = "both"
           /\ inbox' = Append(inbox, [kind |-> "create", n |-> 0])
  <2>1. running = 0 /\ call = NoCall /\ call.kind = "none"
    BY <1>1, <1>4, CallFacts DEF Points, InItsRoom, MainIdle
  <2>2. Within(inbox', attempt)
    BY <1>1, <1>4, Unnumbered DEF Points, NoneAhead
  <2>3. QED
    BY <1>1, <1>2, <1>4, <2>1, <2>2
       DEF Points, NoneAhead, InItsRoom, MapCalled, AssassinsCalled, PlainCalled, Runs
<1>5. QED
  BY <1>3, <1>4 DEF ClientSends

LEMMA CastStopsKeeps == ASSUME IpcInv, CastStops PROVE Points'
<1>1. /\ attempt \in Nat /\ castTeams \in Nat /\ Points
      /\ inbox' = <<>> /\ castRoom' = FALSE /\ castTeams' = 0
      /\ UNCHANGED <<attempt, room, running, assassins, call>>
  BY AttemptFacts DEF IpcInv, Typed, MainTypeOK, CastSideTypeOK, CastStops, NewMatch, match
<1>2. castTeams < attempt => 0 < attempt
  BY <1>1
<1>3. NoneAhead' /\ InItsRoom'
  BY <1>1, EmptyQueue DEF Points, NoneAhead, InItsRoom
<1>4. MapCalled' /\ AssassinsCalled' /\ PlainCalled' /\ Runs'
  BY <1>1, <1>2, EmptyQueue
     DEF Points, MapCalled, AssassinsCalled, PlainCalled, Runs, RunsAlone
<1>5. QED
  BY <1>3, <1>4 DEF Points

LEMMA CastStartsKeeps == ASSUME IpcInv, CastStarts PROVE Points'
BY DEF IpcInv, CastStarts, mainVars, match, castMatch,
       Points, NoneAhead, InItsRoom, MapCalled, AssassinsCalled, PlainCalled, Runs, RunsAlone

\* handleRoomStart goes on after an answer, or after waiting for one in vain.
LEMMA GoOnKeeps == ASSUME IpcInv, GoOn PROVE Points'
<1>1. /\ inbox \in Seq(Message) /\ attempt \in Nat /\ castTeams \in Nat /\ Points
      /\ call # NoCall /\ call.n \in Attempt /\ call.kind \in Calls
      /\ castUp \in BOOLEAN /\ castRoom \in BOOLEAN
  BY AttemptFacts DEF IpcInv, Typed, MainTypeOK, CastSideTypeOK, GoOn, Over
<1>2. UNCHANGED <<attempt, room, castUp, castRoom, castMap, castAssassins, castTeams>>
  BY DEF GoOn, castSide, castMatch
<1>3. /\ running \in Nat
      /\ running # 0 => running <= attempt /\ running # attempt /\ room = "both"
  BY <1>1, AttemptFacts DEF Points, InItsRoom, IpcInv, Typed, MainTypeOK
<1>4. call.kind = "map" /\ ~Failed => /\ outcome = "reply" /\ call.n = attempt /\ room = "both"
                                      /\ Only(inbox, {"connect"})
                                      /\ castRoom => castMap = attempt
  BY <1>1 DEF GoOn, Over, Points, MapCalled, InItsRoom
<1>5. CASE GivesUp
  <2>1. call' = NoCall /\ NoCall.kind = "none" /\ running' = running /\ inbox' = inbox
    BY <1>5, CallFacts DEF GivesUp, Returned, match
  <2>2. NoneAhead' /\ InItsRoom'
    BY <1>1, <1>2, <1>3, <2>1 DEF Points, NoneAhead, InItsRoom
  <2>3. MapCalled' /\ AssassinsCalled' /\ PlainCalled'
    BY <2>1 DEF MapCalled, AssassinsCalled, PlainCalled
  <2>4. Runs'
    BY <1>1, <1>2, <1>3, <2>1 DEF Points, Runs
  <2>5. QED
    BY <2>2, <2>3, <2>4 DEF Points
<1>6. ASSUME call.kind = "map", ~Failed, NEW k \in {"assassin", "plain"}, Called(k, call.n),
             UNCHANGED match
      PROVE  Points'
  <2> DEFINE c == [kind |-> k, n |-> attempt]
  <2>1. c \in Message /\ c.n <= attempt /\ c.kind = k /\ c.n = attempt
    <3>1. k \in Calls /\ attempt \in Attempt
      BY <1>1, <1>4, <1>6 DEF Calls
    <3>2. QED
      BY <1>1, <3>1, CallFacts
  <2>2. /\ call' = c /\ running' = running /\ outcome' # "reply"
    BY <1>4, <1>6 DEF Called, match
  <2>3. inbox' = inbox \/ (castUp /\ inbox' = Append(inbox, c))
    BY <1>4, <1>6, CalledQueue
  <2>4. castUp => inbox' = Append(inbox, c)
    BY <1>4, <1>6 DEF Called
  <2>5. \A i \in DOMAIN inbox : inbox[i].kind = "connect"
    BY <1>4, <1>6 DEF Only
  <2>6. \A i \in DOMAIN inbox : inbox[i] # c
    BY <2>1, <2>5, <1>6
  <2>7. Only(inbox, {"connect", k}) /\ Closes(inbox, c)
    BY <2>5, <2>6 DEF Only, Closes
  <2>8. castUp => \E i \in DOMAIN inbox' : inbox'[i].kind = k
    <3>1. SUFFICES ASSUME castUp PROVE \E i \in DOMAIN inbox' : inbox'[i].kind = k
      OBVIOUS
    <3>2. DOMAIN inbox' = 1 .. (Len(inbox) + 1) /\ Len(inbox) \in Nat
          /\ inbox'[Len(inbox) + 1] = c
      BY <1>1, <2>1, <2>4, <3>1, Appended
    <3>3. QED
      BY <2>1, <3>2
  <2> HIDE DEF c
  <2>9. /\ Within(inbox', attempt) /\ Only(inbox', {"connect", k}) /\ Closes(inbox', c)
        /\ ~castUp => inbox' = <<>>
    <3>1. CASE inbox' = inbox
      BY <1>1, <2>7, <3>1 DEF Points, NoneAhead
    <3>2. CASE castUp /\ inbox' = Append(inbox, c)
      <4>1. Within(inbox, attempt) /\ c.kind \in {"connect", k}
        BY <1>1, <2>1 DEF Points, NoneAhead
      <4>2. QED
        BY <1>1, <2>1, <2>6, <2>7, <3>2, <4>1, AppendedQueue
    <3>3. QED
      BY <2>3, <3>1, <3>2
  <2>10. castTeams < attempt
    BY <1>1, <1>6 DEF Points, MapCalled
  <2>11. castRoom => castUp
    BY <1>1 DEF Points, NoneAhead
  <2>12. NoneAhead' /\ InItsRoom'
    BY <1>1, <1>2, <1>3, <1>4, <1>6, <2>2, <2>9 DEF Points, NoneAhead, InItsRoom
  <2>13. MapCalled' /\ Runs'
    <3>1. /\ Only(inbox', {"connect", "map", "assassin", "plain", "teams"})
          /\ MapsFrom(inbox', running)
      BY <1>6, <2>9 DEF Only, MapsFrom
    <3>2. QED
      BY <1>1, <1>2, <1>3, <1>6, <2>1, <2>2, <3>1 DEF MapCalled, Runs, Points
  <2>14. AssassinsCalled'
    BY <1>2, <1>4, <1>6, <2>1, <2>2, <2>9 DEF AssassinsCalled
  <2>15. PlainCalled'
    BY <1>2, <1>4, <1>6, <2>1, <2>2, <2>8, <2>9, <2>10, <2>11 DEF PlainCalled
  <2>16. QED
    BY <2>12, <2>13, <2>14, <2>15 DEF Points
<1>7. ASSUME MatchStarted, \/ call.kind = "assassin" /\ ~Failed
                           \/ call.kind = "plain"
      PROVE  Points'
  <2> DEFINE m == [kind |-> "teams", n |-> call.n]
  <2>1. m \in Message /\ m.kind = "teams" /\ m.n = call.n
    BY <1>1, CallFacts
  <2>2. /\ call' = NoCall /\ NoCall.kind = "none" /\ running' = call.n
        /\ assassins' = IF call.kind = "assassin" THEN call.n ELSE 0
        /\ inbox' = IF castUp THEN Append(inbox, m) ELSE inbox
    BY <1>7, CallFacts DEF MatchStarted, Returned
  <2> HIDE DEF m
  <2>3. call.n = attempt /\ room = "both" /\ (castRoom => castMap = attempt)
    BY <1>1, <1>7 DEF Points, AssassinsCalled, PlainCalled, InItsRoom
  <2>4. Within(inbox', attempt) /\ (~castUp => inbox' = <<>>)
    <3>1. CASE castUp
      BY <1>1, <2>1, <2>2, <2>3, <3>1, AppendedQueue DEF Points, NoneAhead
    <3>2. CASE ~castUp
      BY <1>1, <2>2, <3>2 DEF Points, NoneAhead
    <3>3. QED
      BY <3>1, <3>2
  <2>5. NoneAhead' /\ InItsRoom' /\ MapCalled' /\ AssassinsCalled' /\ PlainCalled'
    BY <1>1, <1>2, <2>2, <2>3, <2>4
       DEF Points, NoneAhead, InItsRoom, MapCalled, AssassinsCalled, PlainCalled
  <2>6. CASE call.kind = "assassin" /\ ~Failed
    <3>1. /\ outcome = "reply" /\ Only(inbox, {"connect"})
          /\ castRoom => castAssassins = attempt
      BY <1>1, <2>6 DEF GoOn, Over, Points, AssassinsCalled
    <3>2. Only(inbox, {"connect", "teams"}) /\ Only(inbox, {"connect", "plain", "teams"})
      BY <3>1 DEF Only
    <3>3. Only(inbox', {"connect", "teams"}) /\ Only(inbox', {"connect", "plain", "teams"})
      <4>1. CASE castUp
        BY <1>1, <2>1, <2>2, <3>2, <4>1, AppendedQueue
      <4>2. CASE ~castUp
        BY <2>2, <3>2, <4>2
      <4>3. QED
        BY <4>1, <4>2
    <3>4. assassins' = attempt /\ running' = attempt
      BY <2>2, <2>3, <2>6
    <3>5. Runs'
      BY <1>1, <1>2, <2>3, <3>1, <3>3, <3>4 DEF Runs, RunsAlone, Only, MapsFrom
    <3>6. QED
      BY <2>5, <3>5 DEF Points
  <2>7. CASE call.kind = "plain"
    <3>1. /\ castTeams < attempt /\ Only(inbox, {"connect", "plain"})
          /\ castRoom => \/ castAssassins = 0
                         \/ \E i \in DOMAIN inbox : inbox[i].kind = "plain"
      BY <1>1, <2>7 DEF Points, PlainCalled
    <3>2. Only(inbox, {"connect", "plain", "teams"}) /\ PlainFirst(inbox)
      BY <3>1 DEF Only, PlainFirst
    <3>3. Only(inbox', {"connect", "plain", "teams"})
      <4>1. CASE castUp
        BY <1>1, <2>1, <2>2, <3>2, <4>1, AppendedQueue
      <4>2. CASE ~castUp
        BY <2>2, <3>2, <4>2
      <4>3. QED
        BY <4>1, <4>2
    <3>4. castRoom => castAssassins = 0 \/ PlainFirst(inbox')
      <4>1. SUFFICES ASSUME castRoom, castAssassins # 0 PROVE PlainFirst(inbox')
        OBVIOUS
      <4>2. castUp /\ \E i \in DOMAIN inbox : inbox[i].kind = "plain"
        BY <1>1, <3>1, <4>1 DEF Points, NoneAhead
      <4>3. QED
        BY <1>1, <2>1, <2>2, <3>2, <4>2, AppendedQueue
    <3>5. assassins' = 0 /\ running' = attempt /\ castTeams # attempt
      BY <1>1, <2>2, <2>3, <2>7, <3>1
    <3>6. Only(inbox', {"connect", "map", "assassin", "plain", "teams"}) /\ MapsFrom(inbox', attempt)
      BY <3>3 DEF Only, MapsFrom
    <3>7. Runs'
      BY <1>1, <1>2, <2>3, <3>3, <3>4, <3>5, <3>6 DEF Runs, RunsAlone
    <3>8. QED
      BY <2>5, <3>7 DEF Points
  <2>8. QED
    BY <1>7, <2>6, <2>7
<1>8. QED
  <2>1. \/ GivesUp
        \/ /\ call.kind = "map" /\ ~Failed /\ UNCHANGED match
           /\ Called("assassin", call.n) \/ Called("plain", call.n)
        \/ MatchStarted /\ call.kind = "assassin" /\ ~Failed
        \/ MatchStarted /\ call.kind = "plain"
    BY DEF GoOn, ModeChosen, WithAssassins
  <2>2. QED
    BY <1>5, <1>6, <1>7, <2>1

\* The Cast server handles the first message of its queue.
LEMMA HandleKeeps == ASSUME IpcInv, Handle PROVE Points'
<1> DEFINE m == Head(inbox)
<1>1. /\ inbox \in Seq(Message) /\ inbox # <<>> /\ attempt \in Nat /\ castTeams \in Nat
      /\ Points /\ castUp
  BY AttemptFacts DEF IpcInv, Typed, MainTypeOK, CastSideTypeOK, Handle, CastIdle
<1>2. /\ UNCHANGED <<attempt, room, running, assassins, call, castUp>>
      /\ inbox' = Tail(inbox)
      /\ castRoom' = (m.kind = "create" \/ (castRoom /\ m.kind # "leave"))
  BY DEF Handle, match
<1>3. outcome' = outcome \/ (call = m /\ outcome' = "reply")
  BY DEF Handle, Reply
<1>4. m \in Message /\ m.n \in Nat
  BY <1>1, Dropped, AttemptFacts DEF Message
<1>5. /\ \A ks : Only(inbox, ks) => Only(inbox', ks) /\ m.kind \in ks
      /\ \A c : Closes(inbox, c) => Closes(inbox', c)
      /\ Closes(inbox, m) => Only(inbox', {"connect"})
      /\ PlainFirst(inbox) => m.kind # "teams"
      /\ PlainFirst(inbox) /\ m.kind # "plain" => PlainFirst(inbox')
      /\ (\E i \in DOMAIN inbox : inbox[i].kind = "plain") /\ m.kind # "plain"
            => \E i \in DOMAIN inbox' : inbox'[i].kind = "plain"
      /\ \A n : Within(inbox, n) => Within(inbox', n) /\ m.n <= n
      /\ \A n : TeamsBelow(inbox, n) => /\ TeamsBelow(inbox', n)
                                        /\ m.kind = "teams" => m.n < n
      /\ \A n : MapsFrom(inbox, n) => MapsFrom(inbox', n) /\ (m.kind = "map" => m.n >= n)
  BY <1>1, <1>2, DroppedQueue
<1>6. /\ m.kind \in {"create", "leave"} => castMap' = 0 /\ castAssassins' = 0 /\ castTeams' = 0
      /\ m.kind \in {"number", "connect"} => UNCHANGED castMatch
      /\ m.kind = "map" => SetMapFor(m)
      /\ m.kind \in {"assassin", "plain"} => SetAssassinModeInfoFor(m)
      /\ m.kind = "teams" => SetPlayerTeamsFor(m)
  BY DEF Handle, NewMatch, SetRoomNumberFor
<1>7. m.kind \in {"create", "leave", "number", "connect", "map", "assassin", "plain", "teams"}
  BY <1>4 DEF Message, Calls
<1> HIDE DEF m
<1>8. castTeams' = castTeams \/ castTeams' = 0 \/ (m.kind = "teams" /\ castTeams' = m.n)
  BY <1>6, <1>7 DEF castMatch, SetMapFor, SetAssassinModeInfoFor, SetPlayerTeamsFor
<1>9. castTeams' \in Nat
  BY <1>1, <1>4, <1>8
<1>10. NoneAhead'
  BY <1>1, <1>2, <1>4, <1>8, <1>5 DEF Points, NoneAhead
<1>11. InItsRoom'
  BY <1>1, <1>2 DEF Points, InItsRoom
\* What a message other than the rooms' own leaves of the match.
<1>12. ASSUME m.kind \notin {"create", "leave"}
       PROVE  /\ castRoom' = castRoom
              /\ castMap' = IF m.kind = "map" /\ castRoom THEN m.n ELSE castMap
              /\ castAssassins' = IF castRoom /\ m.kind = "assassin" THEN m.n
                                  ELSE IF castRoom /\ m.kind = "plain" THEN 0 ELSE castAssassins
              /\ castTeams' = IF m.kind = "teams" /\ castRoom THEN m.n ELSE castTeams
  <2>0. castRoom \in BOOLEAN
    BY DEF IpcInv, Typed, CastSideTypeOK
  <2>1. castRoom' = castRoom
    BY <1>2, <1>12, <2>0
  <2>2. QED
    BY <1>6, <1>7, <1>12, <2>0, <2>1
       DEF castMatch, SetMapFor, SetAssassinModeInfoFor, SetPlayerTeamsFor
<1>13. MapCalled'
  <2>1. SUFFICES ASSUME call.kind = "map"
                 PROVE  /\ call.n = attempt /\ castTeams' < attempt /\ TeamsBelow(inbox', attempt)
                        /\ Closes(inbox', call)
                        /\ outcome' = "reply" => /\ Only(inbox', {"connect"})
                                                 /\ castRoom' => castMap' = attempt
    BY <1>2 DEF MapCalled
  <2>2. /\ call.n = attempt /\ castTeams < attempt /\ TeamsBelow(inbox, attempt)
        /\ Closes(inbox, call)
        /\ outcome = "reply" => /\ Only(inbox, {"connect"})
                                /\ castRoom => castMap = attempt
    BY <1>1, <2>1 DEF Points, MapCalled
  <2>3. castTeams' < attempt /\ TeamsBelow(inbox', attempt) /\ Closes(inbox', call)
    BY <1>1, <1>4, <1>8, <1>9, <1>5, <2>2
  <2>4. CASE outcome = "reply"
    <3>1. m.kind = "connect" /\ Only(inbox', {"connect"})
      BY <1>5, <2>2, <2>4
    <3>2. QED
      BY <1>12, <2>2, <2>3, <2>4, <3>1
  <2>5. CASE call = m /\ outcome' = "reply"
    <3>1. Only(inbox', {"connect"})
      BY <1>5, <2>2, <2>5
    <3>2. m.kind = "map" /\ m.n = attempt
      BY <2>1, <2>2, <2>5
    <3>3. QED
      BY <1>12, <2>2, <2>3, <3>1, <3>2
  <2>6. QED
    BY <1>3, <2>2, <2>3, <2>4, <2>5
<1>14. AssassinsCalled'
  <2>1. SUFFICES ASSUME call.kind = "assassin"
                 PROVE  /\ call.n = attempt
                        /\ Only(inbox', {"connect", "assassin"}) /\ Closes(inbox', call)
                        /\ castRoom' => castMap' = attempt
                        /\ outcome' = "reply" => /\ Only(inbox', {"connect"})
                                                 /\ castRoom' => castAssassins' = attempt
    BY <1>2 DEF AssassinsCalled
  <2>2. /\ call.n = attempt
        /\ Only(inbox, {"connect", "assassin"}) /\ Closes(inbox, call)
        /\ castRoom => castMap = attempt
        /\ outcome = "reply" => /\ Only(inbox, {"connect"})
                                /\ castRoom => castAssassins = attempt
    BY <1>1, <2>1 DEF Points, AssassinsCalled
  <2>3. /\ Only(inbox', {"connect", "assassin"}) /\ Closes(inbox', call)
        /\ m.kind \in {"connect", "assassin"}
    BY <1>5, <2>2
  <2>4. castRoom' = castRoom /\ castMap' = castMap
    BY <1>12, <2>3
  <2>5. CASE outcome = "reply"
    <3>1. m.kind = "connect" /\ Only(inbox', {"connect"})
      BY <1>5, <2>2, <2>5
    <3>2. castAssassins' = castAssassins
      BY <1>12, <3>1
    <3>3. QED
      BY <2>2, <2>3, <2>4, <2>5, <3>1, <3>2
  <2>6. CASE call = m /\ outcome' = "reply"
    <3>1. Only(inbox', {"connect"})
      BY <1>5, <2>2, <2>6
    <3>2. m.kind = "assassin" /\ m.n = attempt
      BY <2>1, <2>2, <2>6
    <3>3. QED
      BY <1>12, <2>2, <2>3, <2>4, <3>1, <3>2
  <2>7. QED
    BY <1>3, <2>2, <2>3, <2>4, <2>5, <2>6
<1>15. PlainCalled'
  <2>1. SUFFICES ASSUME call.kind = "plain"
                 PROVE  /\ call.n = attempt /\ castTeams' < attempt
                        /\ Only(inbox', {"connect", "plain"})
                        /\ castRoom' => castMap' = attempt
                        /\ castRoom' => \/ castAssassins' = 0
                                        \/ \E i \in DOMAIN inbox' : inbox'[i].kind = "plain"
    BY <1>2 DEF PlainCalled
  <2>2. /\ call.n = attempt /\ castTeams < attempt
        /\ Only(inbox, {"connect", "plain"})
        /\ castRoom => castMap = attempt
        /\ castRoom => castAssassins = 0 \/ \E i \in DOMAIN inbox : inbox[i].kind = "plain"
    BY <1>1, <2>1 DEF Points, PlainCalled
  <2>3. Only(inbox', {"connect", "plain"}) /\ m.kind \in {"connect", "plain"}
    BY <1>5, <2>2
  <2>4. castRoom' = castRoom /\ castMap' = castMap /\ castTeams' = castTeams
    BY <1>12, <2>3
  <2>5. castRoom' => \/ castAssassins' = 0
                     \/ \E i \in DOMAIN inbox' : inbox'[i].kind = "plain"
    <3>1. CASE m.kind = "plain"
      BY <1>12, <2>4, <3>1
    <3>2. CASE m.kind = "connect"
      BY <1>12, <1>5, <2>2, <2>4, <3>2
    <3>3. QED
      BY <2>3, <3>1, <3>2
  <2>6. QED
    BY <2>2, <2>3, <2>4, <2>5
<1>16. ASSUME RunsAlone PROVE RunsAlone'
  <2>2. /\ Only(inbox, {"connect", "plain", "teams"})
        /\ castRoom => castMap = running
        /\ assassins # 0 => /\ Only(inbox, {"connect", "teams"})
                            /\ castRoom => castAssassins = running
        /\ assassins = 0 /\ castRoom =>
              /\ castTeams = running => castAssassins = 0
              /\ castAssassins = 0 \/ PlainFirst(inbox)
    BY <1>16 DEF RunsAlone
  <2>3. Only(inbox', {"connect", "plain", "teams"}) /\ m.kind \in {"connect", "plain", "teams"}
    BY <1>5, <2>2
  <2>4. castRoom' = castRoom /\ castMap' = castMap
    BY <1>12, <2>3
  <2>5. assassins # 0 => /\ Only(inbox', {"connect", "teams"})
                         /\ castRoom' => castAssassins' = running
    <3>1. SUFFICES ASSUME assassins # 0
                   PROVE  /\ Only(inbox', {"connect", "teams"})
                          /\ castRoom' => castAssassins' = running
      OBVIOUS
    <3>2. Only(inbox', {"connect", "teams"}) /\ m.kind \in {"connect", "teams"}
      BY <1>5, <2>2, <3>1
    <3>3. castAssassins' = castAssassins
      BY <1>12, <3>2
    <3>4. QED
      BY <2>2, <2>4, <3>1, <3>2, <3>3
  <2>6. ASSUME assassins = 0, castRoom
        PROVE  /\ castTeams' = running => castAssassins' = 0
               /\ castAssassins' = 0 \/ PlainFirst(inbox')
    <3>1. /\ castTeams = running => castAssassins = 0
          /\ castAssassins = 0 \/ PlainFirst(inbox)
      BY <2>2, <2>6
    <3>2. CASE m.kind = "plain"
      BY <1>12, <2>6, <3>2
    <3>3. CASE m.kind = "connect"
      BY <1>12, <1>5, <3>1, <3>3
    <3>4. CASE m.kind = "teams"
      BY <1>12, <1>5, <3>1, <3>4
    <3>5. QED
      BY <2>3, <3>2, <3>3, <3>4
  <2>7. QED
    BY <1>2, <2>2, <2>3, <2>4, <2>5, <2>6 DEF RunsAlone
<1>17. Runs'
  <2>1. SUFFICES ASSUME running # 0
                 PROVE  /\ Only(inbox', {"connect", "map", "assassin", "plain", "teams"})
                        /\ MapsFrom(inbox', running)
                        /\ castRoom' => castMap' >= running
                        /\ running = attempt => RunsAlone'
    BY <1>2 DEF Runs
  <2>2. /\ Only(inbox, {"connect", "map", "assassin", "plain", "teams"})
        /\ MapsFrom(inbox, running)
        /\ castRoom => castMap >= running
        /\ running = attempt => RunsAlone
    BY <1>1, <2>1 DEF Points, Runs
  <2>3. /\ Only(inbox', {"connect", "map", "assassin", "plain", "teams"})
        /\ m.kind \in {"connect", "map", "assassin", "plain", "teams"}
        /\ MapsFrom(inbox', running) /\ (m.kind = "map" => m.n >= running)
    BY <1>5, <2>2
  <2>4. castRoom' => castMap' >= running
    BY <1>12, <2>2, <2>3
  <2>5. QED
    BY <1>16, <2>2, <2>3, <2>4
<1>18. QED
  BY <1>10, <1>11, <1>13, <1>14, <1>15, <1>17 DEF Points

-----------------------------------------------------------------------------
LEMMA NextKeepsPoints == ASSUME IpcInv, [IpcNext]_ipcVars PROVE Points'
<1>1. CASE GetSessionIdFor \/ SessionIdReturned \/ Tick \/ UNCHANGED ipcVars
  <2>1. UNCHANGED <<attempt, room, running, assassins, call, inbox,
                    castUp, castRoom, castMap, castAssassins, castTeams, outcome>>
    BY <1>1 DEF GetSessionIdFor, SessionIdReturned, Tick, ipcVars, mainVars, castSide, match, castMatch
  <2>2. QED
    BY <2>1, PointsKept DEF IpcInv
<1>2. QED
  BY <1>1, RoomCreationKeeps, StartMatchKeeps, EndsKeep, GoOnKeeps, ClientSendsKeeps, HandleKeeps,
     CastStopsKeeps, CastStartsKeeps DEF IpcNext

LEMMA InitPoints == ASSUME IpcInit PROVE Points
<1>1. NoneAhead /\ InItsRoom
  BY EmptyQueue DEF IpcInit, NoneAhead, InItsRoom, NoCall
<1>2. MapCalled /\ AssassinsCalled /\ PlainCalled /\ Runs
  BY CallFacts DEF IpcInit, MapCalled, AssassinsCalled, PlainCalled, Runs
<1>3. QED
  BY <1>1, <1>2 DEF Points

LEMMA PointsTell == ASSUME IpcInv PROVE CastKnowsTheMatch
<1>1. assassins \in {0, running} /\ Points
  BY DEF IpcInv, Typed, MainTypeOK
<1>2. QED
  BY <1>1 DEF CastKnowsTheMatch, Points, Runs, RunsAlone

\* While a match runs, the Cast server's room has the map and the assassins that
\* the attempt which succeeded has sent, however many attempts timed out before
\* it and however late their messages were handled; only an attempt that the host
\* starts during the match can replace them.
THEOREM TheMatchIsKnown == IpcSpec => []CastKnowsTheMatch
<1>1. IpcInit => IpcInv
  BY InitTyped, InitPoints DEF IpcInv
<1>2. IpcInv /\ [IpcNext]_ipcVars => IpcInv'
  BY NextType, NextKeepsPoints DEF IpcInv
<1>3. IpcInv => CastKnowsTheMatch
  BY PointsTell
<1>4. QED
  BY <1>1, <1>2, <1>3, PTL DEF IpcSpec

-----------------------------------------------------------------------------
(* Third part: the rounds of the arena and the chat of the dead.           *)

\* While the loop of a thread goes on, another sleep is disturbed.
LoopDisturbs == visiting # {} /\ asleep > 0 => disturbed

\* Outside the arena nothing waits to respawn, and the Main server knows who is
\* dead, but for the observers and those whose request is with the host.
ToldTruly ==
    ~Arena =>
        /\ asleep = 0 /\ visiting = {} /\ counted = Nothing
        /\ \A p \in Player \ (asked \cup observer) : p \in told <=> p \in dead

IInv == TypeOK /\ RoundRunsOut /\ LoopDisturbs /\ ToldTruly

-----------------------------------------------------------------------------
(* Counting the living. *)

\* How many players of a set there are is a number, and Nothing is more.
LEMMA CountType ==
    /\ Nothing \in Nat
    /\ \A A \in SUBSET Player : Cardinality(A) \in Nat /\ Cardinality(A) < Nothing
<1>1. IsFiniteSet(Player)
  BY ArenaAssumption
<1>2. Cardinality(Player) \in Nat
  BY <1>1, FS_CardinalityType
<1>3. ASSUME NEW A \in SUBSET Player
      PROVE  Cardinality(A) \in Nat /\ Cardinality(A) <= Cardinality(Player)
  <2>1. IsFiniteSet(A) /\ Cardinality(A) <= Cardinality(Player)
    BY <1>1, FS_Subset
  <2>2. QED
    BY <2>1, FS_CardinalityType
<1>4. QED
  BY <1>2, <1>3 DEF Nothing

\* Fewer living are not more.
LEMMA FewerAlive ==
    ASSUME NEW A \in SUBSET Player, NEW B \in SUBSET A, Cardinality(A) <= 1
    PROVE  Cardinality(B) <= 1
<1>1. IsFiniteSet(A)
  BY ArenaAssumption, FS_Subset
<1>2. Cardinality(B) <= Cardinality(A)
  BY <1>1, FS_Subset
<1>3. Cardinality(A) \in Nat /\ Cardinality(B) \in Nat
  BY CountType
<1>4. QED
  BY <1>2, <1>3

\* The living are players.
LEMMA AliveType ==
    ASSUME NEW P \in SUBSET Player, NEW F, NEW D
    PROVE  Alive(P, F, D) \in SUBSET Player
BY DEF Alive

-----------------------------------------------------------------------------
(* The invariant. *)

LEMMA Initially == Init => IInv
<1> SUFFICES ASSUME Init PROVE IInv
  OBVIOUS
<1>1. TypeOK
  BY CountType DEF Init, TypeOK
<1>2. RoundRunsOut
  BY DEF Init, RoundRunsOut
<1>3. LoopDisturbs /\ ToldTruly
  BY DEF Init, LoopDisturbs, ToldTruly
<1>4. QED
  BY <1>1, <1>2, <1>3 DEF IInv

\* Every step keeps the types.
LEMMA TypeStep == TypeOK /\ [Next]_vars => TypeOK'
<1> SUFFICES ASSUME TypeOK, [Next]_vars PROVE TypeOK'
  OBVIOUS
<1> USE DEF TypeOK
<1>0. ASSUME NEW F, NEW D PROVE Cardinality(Alive(players, F, D)) \in Nat
  BY CountType, AliveType
<1>1. ASSUME NEW p \in Player, AddPlayer(p) PROVE TypeOK'
  BY <1>1 DEF AddPlayer, setup
<1>2. ASSUME NEW p \in Player, RemovePlayer(p) PROVE TypeOK'
  <2>1. /\ UNCHANGED <<setup, dead, asked, counted, told>>
        /\ players' = players \ {p} /\ fighting' = fighting \ {p}
        /\ visiting' \in SUBSET visiting
    BY <1>2 DEF RemovePlayer
  <2>2. started' \in BOOLEAN /\ finished' \in BOOLEAN /\ disturbed' \in BOOLEAN
    BY <1>2, Zenon DEF RemovePlayer
  <2>3. asleep' \in Nat
    BY <1>2 DEF RemovePlayer
  <2>4. QED
    BY <2>1, <2>2, <2>3 DEF setup
<1>3. CASE MatchEnds
  <2>1. UNCHANGED <<setup, players, dead, asked, finished, asleep, visiting, counted, told>>
    BY <1>3 DEF MatchEnds
  <2>2. fighting' = fighting \ players /\ started' \in BOOLEAN
    BY <1>3 DEF MatchEnds
  <2>3. disturbed' \in BOOLEAN
    <3>1. (asleep > 0) \in BOOLEAN
      OBVIOUS
    <3>2. QED
      BY <1>3, <3>1, Zenon DEF MatchEnds
  <2>4. QED
    BY <2>1, <2>2, <2>3 DEF setup
<1>4. ASSUME NEW p \in Player, MatchInitialLoading(p) PROVE TypeOK'
  BY <1>4 DEF MatchInitialLoading, SendPlayerStateUpdate, setup, round
<1>5. ASSUME NEW p \in Player, RespawnRequest(p) PROVE TypeOK'
  BY <1>5 DEF RespawnRequest, setup
<1>6. ASSUME NEW h \in Player, NEW t \in Player, PlayerRespawn(h, t) PROVE TypeOK'
  BY <1>6 DEF PlayerRespawn, SendPlayerStateUpdate, setup
<1>7. ASSUME NEW T \in SUBSET Player, Deaths(T) PROVE TypeOK'
  BY <1>0, <1>7 DEF Deaths, ArenaMode, SendPlayerStateUpdate, setup, round
<1>8. ASSUME NEW p \in Player, LeaveMatch(p) PROVE TypeOK'
  BY <1>0, <1>8 DEF LeaveMatch, ArenaMode, setup, round
<1>9. CASE Declare
  <2>1. UNCHANGED <<setup, fighters, started, visiting, told>> /\ counted' = Nothing
    BY <1>9 DEF Declare
  <2>2. finished' \in BOOLEAN /\ disturbed' \in BOOLEAN
    BY <1>9, Zenon DEF Declare
  <2>3. asleep' \in Nat
    BY <1>9 DEF Declare
  <2>4. QED
    BY <2>1, <2>2, <2>3, CountType DEF setup, fighters
<1>10. CASE Wake
  <2>1. /\ UNCHANGED <<setup, fighters, started, disturbed, counted, told>>
        /\ finished' = FALSE /\ visiting' = players
    BY <1>10 DEF Wake
  <2>2. asleep' \in Nat
    BY <1>10 DEF Wake
  <2>3. QED
    BY <2>1, <2>2 DEF setup, fighters
<1>11. ASSUME NEW p \in Player, Visit(p) PROVE TypeOK'
  BY <1>11 DEF Visit, setup
<1>12. CASE UNCHANGED vars
  BY <1>12 DEF vars, setup, fighters, round
<1>13. ASSUME NEW h \in Player, NEW t \in Player, WeaponKill(h, t) PROVE TypeOK'
  BY <1>13, <1>7 DEF WeaponKill
<1>14. ASSUME NEW T \in SUBSET Player, NEW t \in T, ExplosiveKill(t, T) PROVE TypeOK'
  BY <1>14, <1>7 DEF ExplosiveKill
<1>15. QED
  BY <1>1, <1>2, <1>3, <1>4, <1>5, <1>6, <1>8, <1>9, <1>10, <1>11, <1>12, <1>13, <1>14
  DEF Next, NormalWeaponDamage, SpecialWeaponDamage

\* A step after which no more players are alive, and which leaves the round as it
\* is but for what disturbs it, keeps what is said of the round.
LEMMA RoundKept ==
    ASSUME IInv,
           UNCHANGED <<finished, asleep, visiting>>,
           disturbed \/ asleep = 0 => disturbed' \/ asleep = 0,
           \/ Alive(players, fighting, dead)' \subseteq Alive(players, fighting, dead)
           \/ disturbed' \/ asleep = 0
    PROVE  RoundRunsOut' /\ LoopDisturbs'
<1> USE DEF IInv
<1>1. asleep' = IF finished' THEN 1 ELSE 0
  BY DEF RoundRunsOut
<1>2. ASSUME asleep' > 0, ~disturbed'
      PROVE  Cardinality(Alive(players, fighting, dead)') <= 1
  <2>1. asleep > 0 /\ ~disturbed
    BY <1>2 DEF TypeOK
  <2>2. Alive(players, fighting, dead)' \subseteq Alive(players, fighting, dead)
    BY <1>2, <2>1 DEF TypeOK
  <2>3. Cardinality(Alive(players, fighting, dead)) <= 1
    BY <2>1 DEF RoundRunsOut
  <2>4. Alive(players, fighting, dead) \in SUBSET Player
    BY AliveType DEF TypeOK
  <2>5. QED
    BY <2>2, <2>3, <2>4, FewerAlive
<1>3. LoopDisturbs'
  BY DEF LoopDisturbs, TypeOK
<1>4. QED
  BY <1>1, <1>2, <1>3 DEF RoundRunsOut

\* Deaths leave the round to the second half of the handler.
LEMMA DeathsStep ==
    ASSUME IInv, NEW T \in SUBSET Player, Deaths(T)
    PROVE  RoundRunsOut' /\ LoopDisturbs' /\ ToldTruly'
<1> USE DEF IInv, TypeOK
<1>1. UNCHANGED <<setup, players, fighting, asked, finished, asleep, visiting, disturbed>>
  BY DEF Deaths, ArenaMode, round
<1>2. dead' = dead \cup T
  BY DEF Deaths
<1>3. Alive(players, fighting, dead)' \subseteq Alive(players, fighting, dead)
  BY <1>1, <1>2 DEF Alive, setup
<1>4. RoundRunsOut' /\ LoopDisturbs'
  BY <1>1, <1>3, RoundKept
<1>5. ToldTruly'
  BY <1>1, <1>2 DEF ToldTruly, Deaths, SendPlayerStateUpdate, Arena, round, setup, Nothing
<1>6. QED
  BY <1>4, <1>5

LEMMA InvariantStep == IInv /\ [Next]_vars => IInv'
<1> SUFFICES ASSUME IInv, [Next]_vars PROVE IInv'
  OBVIOUS
<1>0. TypeOK'
  BY TypeStep DEF IInv
<1> DEFINE Disturbs == disturbed' \/ asleep = 0
           Rest == RoundRunsOut' /\ LoopDisturbs' /\ ToldTruly'
<1> SUFFICES Rest
  BY <1>0 DEF IInv
<1> USE DEF IInv, TypeOK
<1>a. asleep # 0 => asleep > 0
  OBVIOUS
<1>1. ASSUME NEW p \in Player, AddPlayer(p) PROVE Rest
  <2>1. UNCHANGED <<setup, fighting, dead, asked, finished, asleep, visiting, counted, told>>
    BY <1>1 DEF AddPlayer
  <2>2. \/ Alive(players, fighting, dead)' \subseteq Alive(players, fighting, dead)
        \/ disturbed'
    BY <1>1, <2>1 DEF AddPlayer, Alive, setup
  <2>3. disturbed => disturbed'
    BY <1>1 DEF AddPlayer
  <2>4. RoundRunsOut' /\ LoopDisturbs'
    BY <2>1, <2>2, <2>3, RoundKept
  <2>5. ToldTruly'
    BY <2>1 DEF ToldTruly, Arena, setup, Nothing
  <2>6. QED
    BY <2>4, <2>5
<1>2. ASSUME NEW p \in Player, RemovePlayer(p) PROVE Rest
  <2>1. UNCHANGED <<setup, dead, asked, counted, told>>
    BY <1>2 DEF RemovePlayer
  <2>2. CASE players' # {}
    <3>1. UNCHANGED <<finished, asleep, disturbed>> /\ visiting' \subseteq visiting
      BY <1>2, <2>2 DEF RemovePlayer
    <3>2. Alive(players, fighting, dead)' \subseteq Alive(players, fighting, dead)
      BY <1>2, <2>1 DEF RemovePlayer, Alive, setup
    <3>3. Alive(players, fighting, dead) \in SUBSET Player
      BY AliveType
    <3>4. Cardinality(Alive(players, fighting, dead)) <= 1
             => Cardinality(Alive(players, fighting, dead)') <= 1
      BY <3>2, <3>3, FewerAlive
    <3>5. RoundRunsOut'
      BY <3>1, <3>4 DEF RoundRunsOut
    <3>6. LoopDisturbs' /\ ToldTruly'
      BY <2>1, <3>1 DEF LoopDisturbs, ToldTruly, Arena, setup, Nothing
    <3>7. QED
      BY <3>5, <3>6
  <2>3. CASE players' = {}
    <3>1. asleep' = 0 /\ finished' = FALSE /\ visiting' = {}
      BY <1>2, <2>3 DEF RemovePlayer
    <3>2. QED
      BY <2>1, <3>1 DEF RoundRunsOut, LoopDisturbs, ToldTruly, Arena, setup, Nothing
  <2>4. QED
    BY <2>2, <2>3
<1>3. CASE MatchEnds
  <2>1. UNCHANGED <<setup, players, dead, asked, finished, asleep, visiting, counted, told>>
    BY <1>3 DEF MatchEnds
  <2>2. Disturbs
    BY <1>3, <1>a, Zenon DEF MatchEnds
  <2>3. RoundRunsOut' /\ LoopDisturbs'
    BY <2>1, <2>2, RoundKept
  <2>4. ToldTruly'
    BY <2>1 DEF ToldTruly, Arena, setup, Nothing
  <2>5. QED
    BY <2>3, <2>4
<1>4. ASSUME NEW p \in Player, MatchInitialLoading(p) PROVE Rest
  <2>1. /\ UNCHANGED <<setup, players, asked, round, counted>>
        /\ dead' = dead \cup {p} /\ fighting' = fighting \cup {p}
    BY <1>4 DEF MatchInitialLoading
  <2>2. Alive(players, fighting, dead)' \subseteq Alive(players, fighting, dead)
    BY <2>1 DEF Alive, setup
  <2>3. RoundRunsOut' /\ LoopDisturbs'
    BY <2>1, <2>2, RoundKept DEF round
  <2>4. ToldTruly'
    BY <1>4, <2>1
    DEF MatchInitialLoading, SendPlayerStateUpdate, ToldTruly, Arena, setup, round, Nothing
  <2>5. QED
    BY <2>3, <2>4
<1>5. ASSUME NEW p \in Player, RespawnRequest(p) PROVE Rest
  <2>1. UNCHANGED <<setup, players, fighting, finished, asleep, visiting, counted, told>>
    BY <1>5 DEF RespawnRequest
  <2>2. Disturbs
    BY <1>5, <1>a, Zenon DEF RespawnRequest
  <2>3. RoundRunsOut' /\ LoopDisturbs'
    BY <2>1, <2>2, RoundKept
  <2>4. ToldTruly'
    BY <1>5, <2>1 DEF RespawnRequest, ToldTruly, Arena, setup, Nothing
  <2>5. QED
    BY <2>3, <2>4
<1>6. ASSUME NEW h \in Player, NEW t \in Player, PlayerRespawn(h, t) PROVE Rest
  <2>1. UNCHANGED <<setup, players, finished, asleep, visiting, counted>>
    BY <1>6 DEF PlayerRespawn
  <2>2. Disturbs
    BY <1>6, <1>a, Zenon DEF PlayerRespawn
  <2>3. RoundRunsOut' /\ LoopDisturbs'
    BY <2>1, <2>2, RoundKept
  <2>4. ToldTruly'
    BY <1>6, <2>1
    DEF PlayerRespawn, SendPlayerStateUpdate, ToldTruly, Arena, setup, Nothing
  <2>5. QED
    BY <2>3, <2>4
<1>7. ASSUME NEW h \in Player, NEW t \in Player, WeaponKill(h, t) PROVE Rest
  BY <1>7, DeathsStep DEF WeaponKill
<1>8. ASSUME NEW T \in SUBSET Player, NEW t \in T, ExplosiveKill(t, T) PROVE Rest
  BY <1>8, DeathsStep DEF ExplosiveKill
<1>9. ASSUME NEW p \in Player, LeaveMatch(p) PROVE Rest
  <2>1. /\ UNCHANGED <<setup, players, dead, asked, finished, asleep, visiting, disturbed, told>>
        /\ fighting' \subseteq fighting
        /\ ~Arena => counted' = counted
    BY <1>9 DEF LeaveMatch, ArenaMode, round
  <2>2. Alive(players, fighting, dead)' \subseteq Alive(players, fighting, dead)
    BY <2>1 DEF Alive, setup
  <2>3. RoundRunsOut' /\ LoopDisturbs'
    BY <2>1, <2>2, RoundKept
  <2>4. ToldTruly'
    BY <2>1 DEF ToldTruly, Arena, setup, Nothing
  <2>5. QED
    BY <2>3, <2>4
<1>10. CASE Declare
  <2>1. UNCHANGED <<setup, fighters, visiting, told>>
    BY <1>10 DEF Declare
  <2>2. CASE RoundOver
    <3>1. asleep = 0 /\ finished' = TRUE /\ asleep' = asleep + 1
      BY <1>10, <2>2 DEF Declare, RoundOver, RoundRunsOut
    <3>2. /\ ~disturbed' => visiting = {}
          /\ ~disturbed' => ~(Cardinality(Alive(players, fighting, dead)) > counted)
      BY <1>10, <2>2 DEF Declare
    <3>3. Cardinality(Alive(players, fighting, dead)) \in Nat
      BY CountType, AliveType
    <3>4. Alive(players, fighting, dead)' = Alive(players, fighting, dead)
      BY <2>1 DEF Alive, setup, fighters
    <3>5. RoundRunsOut'
      BY <2>2, <3>1, <3>2, <3>3, <3>4 DEF RoundRunsOut, RoundOver
    <3>6. LoopDisturbs'
      BY <2>1, <3>2 DEF LoopDisturbs
    <3>7. Arena
      BY <1>10 DEF Declare, Handling, ToldTruly
    <3>8. QED
      BY <2>1, <3>5, <3>6, <3>7 DEF ToldTruly, Arena, setup
  <2>3. CASE ~RoundOver
    <3>1. UNCHANGED <<finished, asleep, disturbed>>
      BY <1>10, <2>3 DEF Declare
    <3>2. RoundRunsOut' /\ LoopDisturbs'
      BY <2>1, <3>1, RoundKept DEF Alive, fighters, setup
    <3>3. Arena
      BY <1>10 DEF Declare, Handling, ToldTruly
    <3>4. QED
      BY <2>1, <3>2, <3>3 DEF ToldTruly, Arena, setup
  <2>4. QED
    BY <2>2, <2>3
<1>11. CASE Wake
  <2>1. asleep' = 0 /\ finished' = FALSE /\ UNCHANGED setup
    BY <1>11 DEF Wake, RoundRunsOut
  <2>2. Arena
    BY <1>11 DEF Wake, ToldTruly
  <2>3. QED
    BY <2>1, <2>2 DEF RoundRunsOut, LoopDisturbs, ToldTruly, Arena, setup
<1>12. ASSUME NEW p \in Player, Visit(p) PROVE Rest
  <2>1. /\ UNCHANGED <<setup, players, fighting, asked, finished, asleep, disturbed, counted, told>>
        /\ visiting # {} /\ visiting' \subseteq visiting
    BY <1>12 DEF Visit
  <2>2. disturbed \/ asleep = 0
    BY <2>1 DEF LoopDisturbs
  <2>3. RoundRunsOut' /\ LoopDisturbs'
    BY <2>1, <2>2 DEF RoundRunsOut, LoopDisturbs
  <2>4. Arena
    BY <2>1 DEF ToldTruly
  <2>5. QED
    BY <2>1, <2>3, <2>4 DEF ToldTruly, Arena, setup
<1>13. CASE UNCHANGED vars
  BY <1>13
  DEF vars, setup, fighters, round, RoundRunsOut, LoopDisturbs, ToldTruly, Alive, Arena, Nothing
<1>14. QED
  BY <1>1, <1>2, <1>3, <1>4, <1>5, <1>6, <1>7, <1>8, <1>9, <1>10, <1>11, <1>12, <1>13
  DEF Next, NormalWeaponDamage, SpecialWeaponDamage

-----------------------------------------------------------------------------
(* The theorems. *)

\* The invariant holds throughout, without any fairness.
THEOREM Invariant == Spec => []IInv
<1>1. Init => IInv
  BY Initially
<1>2. IInv /\ [Next]_vars => IInv'
  BY InvariantStep
<1>3. QED
  BY <1>1, <1>2, PTL DEF Spec

\* The room and the round have their types.
THEOREM TypeCorrect == Spec => []TypeOK
<1>1. IInv => TypeOK
  BY DEF IInv
<1>2. QED
  BY <1>1, Invariant, PTL

\* One thread sleeps for a round that was declared over, and it does not respawn
\* the dead while two still fight (handleArenaMode, respawnEveryoneArena).
THEOREM OneThreadARound == Spec => []RoundRunsOut
<1>1. IInv => RoundRunsOut
  BY DEF IInv
<1>2. QED
  BY <1>1, Invariant, PTL

\* What was told truly is routed rightly.
LEMMA RoutedByState == IInv => DeadUnheard
<1> SUFFICES ASSUME IInv, ~Arena,
                    NEW s \in fighting \ (asked \cup observer \cup Staff),
                    NEW M \in SUBSET Player
             PROVE  IF s \in dead
                    THEN \A toTeam \in BOOLEAN : RoomChat(s, toTeam, M) \subseteq dead \cup asked
                    ELSE s \in M => RoomChat(s, FALSE, M) = M \ {s}
  BY DEF DeadUnheard
<1> USE DEF IInv, TypeOK
<1>1. \A p \in Player \ (asked \cup observer) : p \in told <=> p \in dead
  BY DEF ToldTruly
<1>2. s \in Player \ (asked \cup observer)
  OBVIOUS
<1>3. CASE s \in dead
  <2>1. s \in told
    BY <1>1, <1>2, <1>3
  <2>2. Fielded \cap told \subseteq dead \cup asked
    BY <1>1 DEF Fielded
  <2>3. ASSUME NEW toTeam \in BOOLEAN
        PROVE  RoomChat(s, toTeam, M) \subseteq Fielded \cap told
    BY <2>1 DEF RoomChat, ToDead, ToDeadTeam, ToTeam
  <2>4. QED
    BY <1>3, <2>2, <2>3
<1>4. CASE s \notin dead
  <2>1. s \notin told
    BY <1>1, <1>2, <1>4
  <2>2. s \in Fielded
    BY <1>2 DEF Fielded
  <2>3. QED
    BY <1>4, <2>1, <2>2 DEF RoomChat, ToMatch, ToMatchHelper
<1>5. QED
  BY <1>3, <1>4

\* Outside the arena the dead are heard by the dead only, and the living by
\* everyone in the match (sendPlayerStateUpdate, handleRoomChatMessage).
THEOREM DeadAreUnheard == Spec => []DeadUnheard
<1>1. IInv => DeadUnheard
  BY RoutedByState
<1>2. QED
  BY <1>1, Invariant, PTL
=============================================================================
