-------------------------------- MODULE Ipc --------------------------------
(***************************************************************************)
(* The calls between the Main and the Cast server.                         *)
(*                                                                         *)
(* Each server is one loop.  The Main server's loop calls the Cast server  *)
(* when a room is created and twice when a match starts, and waits for the *)
(* answer; the Cast server's loop calls the Main server for the session id *)
(* of every client that connects, and waits as well (the thread it does so *)
(* on is joined at once).  Neither serves the other while it waits, so     *)
(* only the timers take two loops apart that wait for each other.  What a  *)
(* caller has given up on stays in the callee's socket and is handled      *)
(* later.                                                                  *)
(*                                                                         *)
(* Every call is a connection of its own, accepted and read in the order   *)
(* in which they were made: one thread makes them and one accepts them.    *)
(***************************************************************************)
EXTENDS Naturals, Sequences

CONSTANTS
    MainWait,    \* the 10 s of IpcUtils.h, in steps of the clock
    CastWait,    \* the 15 s of getSessionId
    MaxStarts,   \* bound of the model on attempts to start a match
    MaxKnocks,   \* bound of the model on clients not yet identified
    MaxInbox     \* bound of the model on what waits in the Cast server's sockets

ASSUME IpcAssumption ==
    /\ MainWait \in Nat \ {0} /\ CastWait \in Nat \ {0}
    /\ MaxStarts \in Nat /\ MaxKnocks \in Nat /\ MaxInbox \in Nat

VARIABLES
    attempt,    \* attempts of the host to start the match so far
    room,       \* the host's room: "no", "made" on the Main server, or on "both"
    running,    \* the attempt whose match runs in the Main server's room, or 0
    assassins,  \* the same when that match is in assassin mode, else 0
    call,       \* the call the Main server's loop waits for
    mainTimer,  \* what is left of its 10 s
    outcome,    \* what the loop has received on that call's socket
    inbox,      \* messages and clients the Cast server has not handled
    castUp,     \* the Cast server runs
    castRoom,   \* it has the host's room ...
    castMap,    \* ... with the map of this attempt ...
    castAssassins, \* ... the assassins of this one, 0 when the mode is off ...
    castTeams,  \* ... and the teams of this one
    asking,     \* its loop waits in getSessionId
    castTimer,  \* what is left of its 15 s
    answer,     \* the Main server has answered
    requested   \* requests for a session id the Main server has not handled

match == <<running, assassins>>
mainVars == <<attempt, room, match, call, mainTimer, outcome>>
castMatch == <<castMap, castAssassins, castTeams>>
castSide == <<castUp, castRoom, castMatch, asking, castTimer, answer>>
ipcVars == <<mainVars, inbox, castSide, requested>>

Attempt == 0 .. MaxStarts
NoCall == [kind |-> "none", n |-> 0]
Calls == {"number", "map", "assassin", "plain"}
Message == [kind : Calls \cup {"teams", "create", "leave", "connect"}, n : Attempt]

IpcTypeOK ==
    /\ attempt \in Attempt /\ running \in Attempt /\ assassins \in {0, running}
    /\ room \in {"no", "made", "both"}
    /\ call \in {NoCall} \cup [kind : Calls, n : Attempt]
    /\ mainTimer \in 0 .. MainWait
    /\ outcome \in {"none", "reply", "reset"}
    /\ inbox \in Seq(Message)
    /\ castUp \in BOOLEAN /\ castRoom \in BOOLEAN
    /\ {castMap, castAssassins, castTeams} \subseteq Attempt
    /\ asking \in BOOLEAN /\ castTimer \in 0 .. CastWait /\ answer \in BOOLEAN
    /\ requested \in Nat
    \* One of the requests at most is waited for, and it is the last one.
    /\ asking /\ ~answer => requested > 0
    /\ call = NoCall => outcome = "none"

IpcInit ==
    /\ attempt = 0 /\ room = "no" /\ running = 0 /\ assassins = 0
    /\ call = NoCall /\ mainTimer = 0 /\ outcome = "none"
    /\ inbox = <<>>
    /\ castUp = TRUE /\ castRoom = FALSE
    /\ castMap = 0 /\ castAssassins = 0 /\ castTeams = 0
    /\ asking = FALSE /\ castTimer = 0 /\ answer = FALSE
    /\ requested = 0

MainIdle == call = NoCall
CastIdle == castUp /\ ~asking

Waiting(m) == Len(SelectSeq(inbox, LAMBDA x : x.kind = m))

-----------------------------------------------------------------------------
(* The Main server. *)

\* A call: connect, write and wait.  Without a Cast server connect throws,
\* which the caller sees as it sees a timeout.
Called(kind, n) ==
    /\ call' = [kind |-> kind, n |-> n]
    /\ mainTimer' = MainWait
    /\ IF castUp THEN outcome' = "none" /\ inbox' = Append(inbox, [kind |-> kind, n |-> n])
                 ELSE outcome' = "reset" /\ UNCHANGED inbox

\* The socket of the call is closed, with whatever arrived on it.
Returned == call' = NoCall /\ mainTimer' = 0 /\ outcome' = "none"

\* handleRoomCreation: the room number; whether it arrived is not looked at.
RoomCreation ==
    /\ MainIdle /\ room = "no" /\ Len(inbox) < MaxInbox
    /\ room' = "made"
    /\ Called("number", 0)
    /\ UNCHANGED <<attempt, match, requested, castSide>>

\* handleRoomStart: the map first.  Whether a match runs is not looked at: the
\* waiting player who became host during one has the button, too.
StartMatch ==
    /\ MainIdle /\ room = "both"
    /\ attempt < MaxStarts /\ Len(inbox) < MaxInbox
    /\ attempt' = attempt + 1
    /\ Called("map", attempt + 1)
    /\ UNCHANGED <<room, match, requested, castSide>>

EndMatch ==
    /\ MainIdle /\ running # 0
    /\ running' = 0 /\ assassins' = 0
    /\ UNCHANGED <<attempt, room, call, mainTimer, outcome, inbox, requested, castSide>>

\* The host leaves, which closes the room; the client tells both servers.
RoomLeave ==
    /\ MainIdle /\ room # "no" /\ Len(inbox) < MaxInbox
    /\ room' = "no" /\ running' = 0 /\ assassins' = 0
    /\ inbox' = IF castUp THEN Append(inbox, [kind |-> "leave", n |-> 0]) ELSE inbox
    /\ UNCHANGED <<attempt, call, mainTimer, outcome, requested, castSide>>

\* The call is over, with an answer or without.
Failed == outcome = "reset" \/ (outcome = "none" /\ mainTimer = 0)
Over == call # NoCall /\ (outcome = "reply" \/ Failed)

\* Room::startMatch: the teams are written and nobody waits for an answer.
MatchStarted ==
    /\ running' = call.n
    /\ assassins' = IF call.kind = "assassin" THEN call.n ELSE 0
    /\ inbox' = IF castUp THEN Append(inbox, [kind |-> "teams", n |-> call.n]) ELSE inbox
    /\ Returned

\* The handler returns and the match does not start.
GivesUp == Returned /\ UNCHANGED <<match, inbox>>

\* getRandomAssassinFrom both teams, in assassin mode: without a player who is
\* ready in one of them there is no match.
WithAssassins == Called("assassin", call.n) \/ GivesUp

\* After the map: the mode of the room, which no handler changes meanwhile.
ModeChosen == WithAssassins \/ Called("plain", call.n)

\* Seeded fault: the match starts whether or not the map arrived.
GoOn_Regardless ==
    /\ Over
    /\ \/ call.kind = "number" /\ GivesUp
       \/ call.kind = "map" /\ ModeChosen /\ UNCHANGED match
       \/ call.kind \in {"assassin", "plain"} /\ MatchStarted
    /\ UNCHANGED <<attempt, room, requested, castSide>>

\* Seeded fault: the teams are not sent.
GoOn_NoTeams ==
    /\ Over
    /\ \/ call.kind = "number" /\ GivesUp
       \/ call.kind = "map" /\ Failed /\ GivesUp
       \/ call.kind = "map" /\ ~Failed /\ ModeChosen /\ UNCHANGED match
       \/ /\ call.kind \in {"assassin", "plain"}
          /\ running' = call.n /\ assassins' = IF call.kind = "assassin" THEN call.n ELSE 0
          /\ Returned /\ UNCHANGED inbox
    /\ UNCHANGED <<attempt, room, requested, castSide>>

\* Seeded fault: a call that failed is made again.
GoOn_Retries ==
    /\ Over
    /\ IF Failed THEN Called(call.kind, call.n) /\ UNCHANGED match
       ELSE \/ call.kind = "number" /\ GivesUp
            \/ call.kind = "map" /\ ModeChosen /\ UNCHANGED match
            \/ call.kind \in {"assassin", "plain"} /\ MatchStarted
    /\ UNCHANGED <<attempt, room, requested, castSide>>

\* The handler after a call: without the map there is no match, and in assassin
\* mode none without the assassins; that the mode is off need not arrive.  A boss
\* battle without a ticket and a clan room without a party give up at the end.
GoOn ==
    /\ Over
    /\ \/ call.kind = "number" /\ GivesUp
       \/ call.kind = "map" /\ ~Failed /\ ModeChosen /\ UNCHANGED match
       \/ call.kind \in {"map", "assassin"} /\ Failed /\ GivesUp
       \/ call.kind \in {"assassin", "plain"} /\ GivesUp
       \/ call.kind = "assassin" /\ ~Failed /\ MatchStarted
       \/ call.kind = "plain" /\ MatchStarted
    /\ UNCHANGED <<attempt, room, requested, castSide>>

\* getSessionIdFor: the answer reaches the Cast server when it still waits,
\* which it can do for the last request only.
GetSessionIdFor ==
    /\ MainIdle /\ requested > 0
    /\ requested' = requested - 1
    /\ answer' = (answer \/ (asking /\ requested = 1))
    /\ UNCHANGED <<mainVars, inbox, castUp, castRoom, castMatch, asking, castTimer>>

-----------------------------------------------------------------------------
(* The Cast server. *)

\* A client's packet for the Cast server: it connects, or creates the room it
\* has created on the Main server, which has answered it by then.
ClientSends ==
    /\ castUp /\ Len(inbox) < MaxInbox
    /\ \/ /\ Waiting("connect") + requested < MaxKnocks
          /\ inbox' = Append(inbox, [kind |-> "connect", n |-> 0])
          /\ UNCHANGED room
       \/ /\ MainIdle /\ room = "made"
          /\ inbox' = Append(inbox, [kind |-> "create", n |-> 0])
          /\ room' = "both"
    /\ UNCHANGED <<attempt, match, call, mainTimer, outcome, requested, castSide>>

\* The Main server's call is answered when it is still the one it waits for.
Reply(m) ==
    outcome' = IF call = m /\ outcome = "none" /\ Waiting(m.kind) = 1 THEN "reply" ELSE outcome

\* setRoomNumberFor, setMapFor, setAssassinModeInfoFor and setPlayerTeamsFor:
\* without a room there is nothing to set, and the answer is the same.
SetRoomNumberFor(m) == UNCHANGED castMatch

SetMapFor(m) ==
    /\ castMap' = IF castRoom THEN m.n ELSE castMap
    /\ UNCHANGED <<castAssassins, castTeams>>

SetAssassinModeInfoFor(m) ==
    /\ castAssassins' = IF ~castRoom THEN castAssassins
                        ELSE IF m.kind = "assassin" THEN m.n ELSE 0
    /\ UNCHANGED <<castMap, castTeams>>

SetPlayerTeamsFor(m) ==
    /\ castTeams' = IF castRoom THEN m.n ELSE castTeams
    /\ UNCHANGED <<castMap, castAssassins>>

NewMatch == castMap' = 0 /\ castAssassins' = 0 /\ castTeams' = 0

\* handleRoomNumber, handleMapId, handleAssassinMode, handlePlayerTeamInfoBatch,
\* and what the clients send.
Handle ==
    LET m == Head(inbox)
    IN  /\ CastIdle /\ inbox # <<>>
        /\ inbox' = Tail(inbox)
        /\ castRoom' = (m.kind = "create" \/ (castRoom /\ m.kind # "leave"))
        /\ CASE m.kind \in {"create", "leave"} -> NewMatch
             [] m.kind = "number" -> SetRoomNumberFor(m)
             [] m.kind = "map" -> SetMapFor(m)
             [] m.kind \in {"assassin", "plain"} -> SetAssassinModeInfoFor(m)
             [] m.kind = "teams" -> SetPlayerTeamsFor(m)
             [] OTHER -> UNCHANGED castMatch
        /\ Reply(m)
        /\ IF m.kind = "connect"
           THEN asking' = TRUE /\ castTimer' = CastWait /\ requested' = requested + 1
           ELSE UNCHANGED <<asking, castTimer, requested>>
        /\ UNCHANGED <<attempt, room, match, call, mainTimer, castUp, answer>>

\* getSessionId returns: with the id, or with nothing, and then the client is
\* sent away.
SessionIdReturned ==
    /\ castUp /\ asking
    /\ answer \/ castTimer = 0
    /\ asking' = FALSE /\ castTimer' = 0 /\ answer' = FALSE
    /\ UNCHANGED <<mainVars, inbox, castUp, castRoom, castMatch, requested>>

\* The Cast server stops, and its sockets are reset.  A request it has made is
\* still handled.
CastStops ==
    /\ castUp
    /\ castUp' = FALSE /\ castRoom' = FALSE /\ NewMatch
    /\ asking' = FALSE /\ castTimer' = 0 /\ answer' = FALSE
    /\ inbox' = <<>>
    /\ outcome' = IF call # NoCall /\ outcome = "none" THEN "reset" ELSE outcome
    /\ UNCHANGED <<attempt, room, match, call, mainTimer, requested>>

CastStarts ==
    /\ ~castUp
    /\ castUp' = TRUE
    /\ UNCHANGED <<mainVars, inbox, castRoom, castMatch, asking, castTimer, answer, requested>>

-----------------------------------------------------------------------------
(* Time.  A timer that has run down fires before the clock goes on. *)

MainWaits == call # NoCall /\ outcome = "none"
CastWaits == asking /\ ~answer

Tick ==
    /\ MainWaits \/ CastWaits
    /\ MainWaits => mainTimer > 0
    /\ CastWaits => castTimer > 0
    /\ mainTimer' = IF MainWaits THEN mainTimer - 1 ELSE mainTimer
    /\ castTimer' = IF CastWaits THEN castTimer - 1 ELSE castTimer
    /\ UNCHANGED <<attempt, room, match, call, outcome, inbox, requested, castUp, castRoom,
                   castMatch, asking, answer>>

-----------------------------------------------------------------------------
IpcNext ==
    \/ RoomCreation \/ StartMatch \/ EndMatch \/ RoomLeave \/ GoOn \/ GetSessionIdFor
    \/ ClientSends \/ Handle \/ SessionIdReturned \/ CastStops \/ CastStarts
    \/ Tick

\* Time passes, a loop that has something to do does it, and a handler that has
\* its answer goes on.  Nobody has to start a match, connect, or restart.
IpcFairness ==
    /\ WF_ipcVars(Tick) /\ WF_ipcVars(GoOn) /\ WF_ipcVars(SessionIdReturned)
    /\ WF_ipcVars(Handle)

IpcSpec == IpcInit /\ [][IpcNext]_ipcVars /\ IpcFairness

-----------------------------------------------------------------------------
(* What the calls promise. *)

\* While a match runs, the Cast server's room has the map that was chosen for
\* it, and in assassin mode its assassins: attempts that timed out are handled
\* late, and none of them after the message of the attempt that succeeded.  From
\* when it knows the teams it knows, too, when the mode is off.  When the host has
\* pressed start again during the match, and that attempt was given up, the map
\* may be the later attempt's; it is never an earlier one's.
CastKnowsTheMatch ==
    running # 0 /\ castRoom =>
        /\ castMap >= running
        /\ attempt = running =>
              /\ castMap = running
              /\ assassins # 0 \/ castTeams = running => castAssassins = assassins

\* The loops do not stay locked into each other: each returns to its sockets,
\* although each may be waiting for the other.
BothReturn ==
    /\ (call # NoCall) ~> MainIdle
    /\ asking ~> ~asking

\* The Cast server learns the teams of a match that goes on, although nobody
\* waits for that message; kills and respawns are judged by them.
TeamsArrive ==
    \A n \in 1 .. MaxStarts :
        (running = n /\ castRoom) ~> (castTeams = n \/ running # n \/ ~castRoom)
=============================================================================
