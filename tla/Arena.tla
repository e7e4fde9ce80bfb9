------------------------------- MODULE Arena --------------------------------
(***************************************************************************)
(* A room of the Cast server in its match: who fights, who is dead, and    *)
(* the rounds of the arena (Handlers/WeaponKillHandlers.h and              *)
(* SimpleHandlers.h, Classes/Room.cpp of the Cast server).                 *)
(*                                                                         *)
(* In the arena, a free-for-all on the academy's map, the dead stay dead   *)
(* until one player is left.  Then a detached thread sleeps for ten        *)
(* seconds and respawns everyone, while the thread of the handlers goes    *)
(* on: the two share the room and the sessions without a lock, so the      *)
(* thread's loop over the players and the handler that counts them and     *)
(* then looks at m_arenaRoundFinished are taken apart here.  A loop is     *)
(* over before another thread, which sleeps first, wakes.                  *)
(*                                                                         *)
(* In the other modes the Main server is told who dies and who comes back, *)
(* which decides whom a message in the room's chat goes to (Classes/       *)
(* Room.cpp of the Main server).  How players reach a room is in module    *)
(* Cast; assassins and positions are left out, and so is what a client     *)
(* or the end of a match makes of the state the Main server was told.      *)
(***************************************************************************)
EXTENDS Naturals, FiniteSets

CONSTANTS
    Player,       \* who is in the Main server's room
    Team,         \* of each player
    Staff,        \* players with the grade of an event supporter or a higher one
    Observers,    \* who may be observers: the sets the Main server can send
    Modes         \* of "arena" and "elimination", what the room may play

ASSUME ArenaAssumption ==
    /\ IsFiniteSet(Player) /\ Staff \subseteq Player /\ DOMAIN Team = Player
    /\ Observers \subseteq SUBSET Player
    /\ Modes \subseteq {"arena", "elimination"}

VARIABLES
    mode,
    observer,   \* sessions with the m_team of observers, set before the match
    players,    \* m_playersVec
    fighting,   \* sessions with m_isInMatch
    dead,       \* sessions with isDead
    asked,      \* whose request to respawn the host has, and did not answer
    started,    \* m_hasMatchStarted
    finished,   \* m_arenaRoundFinished
    asleep,     \* how many threads sleep before they respawn everyone
    visiting,   \* the players a thread's loop has still to come to
    counted,    \* what a handler has counted, and did not act on yet
    told,       \* sessions the Main server was last told are dead
    disturbed   \* history: who is alive changed, not by a death, while a thread slept

fighters == <<players, fighting, dead, asked>>
round == <<started, finished, asleep, visiting, disturbed>>
setup == <<mode, observer>>
vars == <<setup, fighters, round, counted, told>>

Nothing == Cardinality(Player) + 1

TypeOK ==
    /\ mode \in Modes /\ observer \in Observers
    /\ {players, fighting, dead, asked, visiting, told} \subseteq SUBSET Player
    /\ started \in BOOLEAN /\ finished \in BOOLEAN /\ disturbed \in BOOLEAN
    /\ asleep \in Nat /\ counted \in Nat

Init ==
    /\ mode \in Modes /\ observer \in Observers
    /\ players = {} /\ fighting = {} /\ dead = {} /\ asked = {}
    /\ started = FALSE /\ finished = FALSE
    /\ asleep = 0 /\ visiting = {} /\ disturbed = FALSE
    /\ counted = Nothing
    /\ told = {}

\* isArenaMode
Arena == mode = "arena"

\* getTotalAlivePlayers
Alive(P, F, D) == {p \in P \cap F : p \notin observer /\ p \notin D}

\* The handlers run one at a time.
Handling == counted = Nothing

\* Seeded fault: a respawn is not reported.
SendPlayerStateUpdate_DeathsOnly(P, isDead) ==
    told' = IF Arena \/ ~isDead THEN told ELSE told \cup P

\* sendPlayerStateUpdate, in the modes in which mustBroadcastDeath holds.
SendPlayerStateUpdate(P, isDead) ==
    told' = IF Arena THEN told ELSE IF isDead THEN told \cup P ELSE told \ P

-----------------------------------------------------------------------------
(* The room. *)

\* addPlayer, of a client that creates the room or joins it.
AddPlayer(p) ==
    /\ Handling /\ p \notin players
    /\ players' = players \cup {p}
    /\ disturbed' = (disturbed \/ (p \in fighting /\ p \notin dead))
    /\ UNCHANGED <<setup, fighting, dead, asked, started, finished, asleep, visiting, counted, told>>

\* removePlayer, when a client leaves or the host reports its crash: no handler
\* looks at the round then.  A loop over the players may come to skip one when
\* the list is shortened under it.  With the last player the room goes, and a
\* thread that sleeps will find nobody in it; the next room is another one.
RemovePlayer(p) ==
    /\ Handling /\ p \in players
    /\ players' = players \ {p}
    /\ fighting' = fighting \ {p}
    /\ IF players' # {}
       THEN /\ visiting' = visiting \/ \E q \in visiting : visiting' = visiting \ {q}
            /\ UNCHANGED <<started, finished, asleep, disturbed>>
       ELSE /\ started' = FALSE /\ finished' = FALSE /\ disturbed' = FALSE
            /\ asleep' = 0 /\ visiting' = {}
    /\ UNCHANGED <<setup, dead, asked, counted, told>>

\* endMatch: the flag of the round and the dead stay as they are.
MatchEnds ==
    /\ Handling /\ players # {}
    /\ started' = FALSE
    /\ fighting' = fighting \ players
    /\ disturbed' = (asleep > 0)
    /\ UNCHANGED <<setup, players, dead, asked, finished, asleep, visiting, counted, told>>

-----------------------------------------------------------------------------
(* The match. *)

\* handleMatchInitialLoading with option 9: loaded, and not yet spawned.
MatchInitialLoading(p) ==
    /\ Handling /\ p \in players
    /\ dead' = dead \cup {p}
    /\ fighting' = fighting \cup {p}
    /\ SendPlayerStateUpdate({p}, TRUE)
    /\ UNCHANGED <<setup, players, asked, round, counted>>

\* The order 166: the request goes on to the host, and the session counts as
\* alive already.  A client sends it when it is dead.
RespawnRequest(p) ==
    /\ Handling /\ p \in players \cap fighting \cap dead
    /\ dead' = dead \ {p}
    /\ asked' = asked \cup {p}
    /\ disturbed' = (disturbed \/ asleep > 0)
    /\ UNCHANGED <<setup, players, fighting, started, finished, asleep, visiting, counted, told>>

\* handlePlayerRespawn: the answer of the host h, which may come after the
\* player has left the match, or the room.
PlayerRespawn(h, t) ==
    /\ Handling /\ h \in players \cap fighting /\ t \in asked
    /\ asked' = asked \ {t}
    /\ IF t \in observer
       THEN UNCHANGED <<dead, fighting, told>>
       ELSE /\ dead' = IF Arena /\ started THEN dead \cup {t} ELSE dead \ {t}
            /\ fighting' = fighting \cup {t, h}
            /\ SendPlayerStateUpdate({t}, FALSE)
    /\ disturbed' = (disturbed \/ asleep > 0)
    /\ UNCHANGED <<setup, players, started, finished, asleep, visiting, counted>>

\* handleArenaMode, the first half, in a state in which P are dead and F fight.
ArenaMode(F, D) ==
    /\ started' = TRUE
    /\ counted' = Cardinality(Alive(players, F, D))
    /\ UNCHANGED <<finished, asleep, visiting, disturbed>>

\* What kills T.
Deaths(T) ==
    /\ dead' = dead \cup T
    /\ SendPlayerStateUpdate(T, TRUE)
    /\ IF Arena THEN ArenaMode(fighting, dead') ELSE UNCHANGED <<round, counted>>
    /\ UNCHANGED <<setup, players, fighting, asked>>

\* Who does not fight does not kill.  The target is whoever has the id.
WeaponKill(a, t) ==
    /\ Handling /\ players # {}
    /\ a \in fighting \ observer
    /\ t \in players
    /\ Deaths({t})

\* Of a shot, and of a gun or shotgun, whose packet ends with the target.
NormalWeaponDamage(a, t) == WeaponKill(a, t)
SpecialWeaponDamage(a, t) == WeaponKill(a, t)

\* handleExplosiveDamage: in the arena the loop ends with the first death.
ExplosiveKill(t, T) ==
    /\ Handling
    /\ t \in T /\ T \subseteq players
    /\ Deaths(IF Arena THEN {t} ELSE T)

\* The order 256.
LeaveMatch(p) ==
    /\ Handling /\ p \in players
    /\ fighting' = fighting \ {p}
    /\ IF Arena THEN ArenaMode(fighting', dead) ELSE UNCHANGED <<round, counted>>
    /\ UNCHANGED <<setup, players, dead, asked, told>>

-----------------------------------------------------------------------------
(* The end of a round. *)

\* Seeded fault: the round is over, whether or not it was before.
RoundOver_Twice == counted <= 1

RoundOver == counted <= 1 /\ ~finished

\* handleArenaMode, the second half.
Declare ==
    /\ ~Handling
    /\ counted' = Nothing
    /\ IF RoundOver
       THEN /\ finished' = TRUE
            /\ asleep' = asleep + 1
            /\ disturbed' = (visiting # {} \/ Cardinality(Alive(players, fighting, dead)) > counted)
       ELSE UNCHANGED <<finished, asleep, disturbed>>
    /\ UNCHANGED <<setup, fighters, started, visiting, told>>

\* Seeded fault: the flag of the round stays set.
Wake_Finished ==
    /\ asleep > 0 /\ visiting = {}
    /\ asleep' = asleep - 1
    /\ visiting' = players
    /\ UNCHANGED <<setup, fighters, started, finished, disturbed, counted, told>>

\* respawnEveryoneArena: the flag is reset before anyone is respawned.
Wake ==
    /\ asleep > 0 /\ visiting = {}
    /\ asleep' = asleep - 1
    /\ finished' = FALSE
    /\ visiting' = players
    /\ UNCHANGED <<setup, fighters, started, disturbed, counted, told>>

\* The loop comes to p.
Visit(p) ==
    /\ p \in visiting
    /\ visiting' = visiting \ {p}
    /\ dead' = IF p \in players \cap fighting /\ p \notin observer THEN dead \ {p} ELSE dead
    /\ UNCHANGED <<setup, players, fighting, asked, started, finished, asleep, disturbed, counted, told>>

Next ==
    \/ \E p \in Player :
         \/ AddPlayer(p) \/ RemovePlayer(p)
         \/ MatchInitialLoading(p) \/ RespawnRequest(p) \/ LeaveMatch(p)
         \/ Visit(p)
    \/ \E h, t \in Player : 
         PlayerRespawn(h, t) \/ NormalWeaponDamage(h, t) \/ SpecialWeaponDamage(h, t)
    \/ \E T \in SUBSET Player : \E t \in T : ExplosiveKill(t, T)
    \/ MatchEnds \/ Declare \/ Wake

\* A handler goes on to its end, a sleep ends, and so does a loop.
Fairness ==
    /\ WF_vars(Declare)
    /\ WF_vars(Wake)
    /\ \A p \in Player : WF_vars(Visit(p))

Spec == Init /\ [][Next]_vars /\ Fairness

-----------------------------------------------------------------------------
(* The chat of the room, on the Main server: who hears s, when the sessions *)
(* of M have its flag of being in the match, which is another than that of  *)
(* the Cast server.                                                         *)

\* m_players of the Main server's room; observers are in a list of their own.
Fielded == Player \ observer

\* broadcastToTeamExceptSelf
ToTeam(s, M) ==
    {p \in Fielded \ {s} : s \in Fielded /\ Team[p] = Team[s] /\ (p \in M <=> s \in M)}

\* broadcastToDeadTeamExceptSelf
ToDeadTeam(s, M) == ToTeam(s, M) \cap told

\* toMatchExceptSelfHelper: observers hear everyone, and are heard by observers.
ToMatchHelper(s, M) ==
    (IF s \in Fielded \cup Staff THEN M ELSE M \cap observer) \ {s}

\* broadcastToMatchExceptSelf
ToMatch(s, toTeam, M) == IF toTeam THEN ToTeam(s, M) ELSE ToMatchHelper(s, M)

\* broadcastToDeadExceptSelf
ToDead(s, toTeam, M) ==
    IF s \in Staff THEN ToMatch(s, toTeam, M)
    ELSE IF toTeam THEN ToDeadTeam(s, M) ELSE (Fielded \cap told) \ {s}

\* broadcastOutsideMatchExceptSelf
ToOutside(s, toTeam, M) == IF toTeam THEN ToTeam(s, M) ELSE Player \ (M \cup {s})

\* handleRoomChatMessage, of a room and a player that are not muted.
RoomChat(s, toTeam, M) ==
    IF s \in told THEN ToDead(s, toTeam, M)
    ELSE IF s \in M THEN ToMatch(s, toTeam, M)
    ELSE ToOutside(s, toTeam, M)

-----------------------------------------------------------------------------
(* Properties. *)

\* m_arenaRoundFinished is set while a thread sleeps, one and no more: the
\* handlers set the flag after counting, and the thread resets it in between.
\* And the dead are not respawned while two still fight: as when the round was
\* declared over, at most one is alive when the thread wakes.  Excepted is a
\* sleep in which the match ended, a dead player asked to respawn, which makes
\* it count as alive until the host answers, or a fighter came from outside; and
\* a round declared over while everyone was being respawned.
RoundRunsOut ==
    /\ asleep = IF finished THEN 1 ELSE 0
    /\ asleep > 0 /\ ~disturbed => Cardinality(Alive(players, fighting, dead)) <= 1

\* Whenever a death or a leave leaves one player or none, everyone is respawned,
\* in every round of a match and in every match of the room, unless the room is
\* closed.
RoundsGoOn == counted <= 1 ~> visiting # {} \/ players = {}

\* Outside the arena a dead fighter is heard by the dead only, and a living one
\* by everyone in the match: the Main server routes a message by what it was
\* last told of its sender and of every receiver, in another thread than the one
\* that kills and respawns.  Excepted are staff, and a player whose request to
\* respawn waits for the host.
DeadUnheard ==
    ~Arena =>
        \A s \in fighting \ (asked \cup observer \cup Staff), M \in SUBSET Player :
            IF s \in dead
            THEN \A toTeam \in BOOLEAN : RoomChat(s, toTeam, M) \subseteq dead \cup asked
            ELSE s \in M => RoomChat(s, FALSE, M) = M \ {s}
=============================================================================
