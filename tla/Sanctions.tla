------------------------------ MODULE Sanctions ------------------------------
(***************************************************************************)
(* Bans, mutes and the other sanctions of an account (ChatCommands/        *)
(* Commands, HttpSession), and the logins they bear on.  A term is kept in *)
(* a row of Users; the session of a player who is online has a flag of its *)
(* own, loaded at login and set by the commands, which never looks at the  *)
(* term again.  The Auth server reads the suspension, the Main server only *)
(* the key that the Auth server gave out.                                  *)
(*                                                                         *)
(* Commands come from staff in the game, with grades that are compared in  *)
(* the handler, in the database or nowhere, and from the administration    *)
(* interface.  Refused commands that change nothing are left out.          *)
(*                                                                         *)
(* A command finds the session of the name it is given letter by letter    *)
(* and the row by a collation that ignores case: in another spelling the   *)
(* name of a player who is online reaches the row and not the session.     *)
(***************************************************************************)
EXTENDS Naturals, FiniteSets

CONSTANTS
    Account,
    Grade,        \* of each account
    Secured,      \* accounts with a Secret: a second factor
    Machine,      \* the address (LastIP, HWID) of each account
    Days,         \* terms that commands give
    Forever,      \* the term of a cheat ban (9999 days)
    Roles,        \* the roles in the tokens of the administration interface's callers
    LastDay       \* bound: days that pass

ES == 2       \* Common::Enums::PlayerGrade
MOD == 3

ASSUME SanctionsAssumption ==
    /\ Grade \in [Account -> Nat]
    /\ Secured \subseteq Account
    /\ Roles \subseteq Nat
    /\ Days \subseteq Nat \ {0} /\ Forever \in Nat /\ LastDay \in Nat

VARIABLES
    today,
    \* the table Users:
    key,       \* accounts with an AccountKey, which the account's client knows
    loginOk,   \* LoginOK: the password was right, the token is next
    until,     \* SuspendedUntil, MutedUntil, RoomCreationDisabledUntil, VotekickDisabledUntil
    marked,    \* accounts whose SuspensionReason is that of a cheat ban
    \* the Main server's sessions:
    online,
    flags,     \* m_isMuted, m_isRoomCreationEnabled and m_isVotekickEnabled: whom they bind
    cheater,   \* m_hasBeenMatchBanned
    \* history:
    promised,  \* the end of the last ban that a moderator was told of as a success
    unwritten, \* accounts whose session was muted by the administration interface
    missed     \* whose session was not told of the last change of which of its rows

rows == <<until, marked>>
logins == <<key, loginOk>>
sessions == <<online, flags, cheater, missed>>
told == <<promised, unwritten>>
sanctionsVars == <<today, rows, logins, sessions, told>>

Flags == {"mute", "rooms", "votekick"}
Kinds == Flags \cup {"ban"}

SanctionsTypeOK ==
    /\ today \in Nat
    /\ key \subseteq Account /\ loginOk \subseteq Account
    /\ until \in [Kinds -> [Account -> Nat]] /\ marked \subseteq Account
    /\ online \subseteq Account /\ cheater \subseteq Account
    /\ flags \in [Flags -> SUBSET Account]
    /\ promised \in [Account -> Nat] /\ unwritten \subseteq Account
    /\ missed \subseteq Flags \X Account

SanctionsInit ==
    /\ today = 0
    /\ key = {} /\ loginOk = {}
    /\ until = [k \in Kinds |-> [a \in Account |-> 0]] /\ marked = {}
    /\ online = {} /\ flags = [k \in Flags |-> {}] /\ cheater = {}
    /\ promised = [a \in Account |-> 0] /\ unwritten = {} /\ missed = {}

NextDay == today < LastDay /\ today' = today + 1 /\ UNCHANGED <<rows, logins, sessions, told>>

Runs(k, a) == until[k][a] > today

-----------------------------------------------------------------------------
(* The Auth server. *)

\* getPlayerInfo(username, password, is2fa): the answer is a new key.
GivesKey(a) == ~Runs("ban", a) /\ key' = key \cup {a}

\* getPlayerInfo(username, password), without a second factor: not for staff.
Password(a) ==
    /\ a \notin Secured /\ Grade[a] < ES
    /\ GivesKey(a)
    /\ UNCHANGED <<today, loginOk, rows, sessions, told>>

\* verifyUserCredentials: right or not, a suspended account is not told yet.
PasswordFirst(a) ==
    /\ a \in Secured
    /\ loginOk' = loginOk \cup {a}
    /\ UNCHANGED <<today, key, rows, sessions, told>>

\* twoFactorLogin, phase 2: whatever was entered, the password is next.
Token(a, right) ==
    /\ a \in loginOk
    /\ loginOk' = loginOk \ {a}
    /\ IF right /\ ~Runs("ban", a) THEN GivesKey(a) ELSE UNCHANGED key
    /\ UNCHANGED <<today, rows, sessions, told>>

-----------------------------------------------------------------------------
(* The Main server's sessions. *)

\* hasBeenMatchBanned: the mark of another account of the same machine is taken
\* over.  The account's own mark is not looked at.
HasBeenMatchBanned(a) == \E b \in marked \ {a} : Machine[b] = Machine[a]

IsMuted(a) == Runs("mute", a)
IsRoomCreationDisabled(a) == Runs("rooms", a)
IsVotekickDisabled(a) == Runs("votekick", a)

Bound(a, f) == IF f THEN {a} ELSE {}

\* Seeded fault: the votekick's row is not read.
Loaded_NoVotekick(a) ==
    [k \in Flags |->
        (flags[k] \ {a}) \cup
            CASE k = "mute" -> Bound(a, IsMuted(a))
              [] k = "rooms" -> Bound(a, IsRoomCreationDisabled(a))
              [] k = "votekick" -> {}]

\* handleAccountInformation: the new session's flags.
Loaded(a) ==
    [k \in Flags |->
        (flags[k] \ {a}) \cup
            CASE k = "mute" -> Bound(a, IsMuted(a))
              [] k = "rooms" -> Bound(a, IsRoomCreationDisabled(a))
              [] k = "votekick" -> Bound(a, IsVotekickDisabled(a))]

\* handleAuthorization: the key is enough.  A session that the account has is
\* replaced.
Login(a) ==
    /\ a \in key
    /\ online' = online \cup {a}
    /\ flags' = Loaded(a)
    /\ IF HasBeenMatchBanned(a)
       THEN cheater' = cheater \cup {a} /\ marked' = marked \cup {a}
       ELSE cheater' = cheater \ {a} /\ UNCHANGED marked
    /\ unwritten' = unwritten \ {a} /\ missed' = missed \ (Flags \X {a})
    /\ UNCHANGED <<today, until, logins, promised>>

\* removeSession
Removed(a) ==
    /\ online' = online \ {a}
    /\ flags' = [k \in Flags |-> flags[k] \ {a}]
    /\ cheater' = cheater \ {a}
    /\ missed' = missed \ (Flags \X {a})

Logout(a) ==
    /\ a \in online
    /\ Removed(a)
    /\ UNCHANGED <<today, rows, logins, told>>

-----------------------------------------------------------------------------
(* The rows. *)

\* updateSuspension, with the grade it compares with.
UpdateSuspension(t, u, cheating, grade) ==
    /\ Grade[t] < grade
    /\ until' = [until EXCEPT !["ban"][t] = u]
    /\ marked' = IF cheating THEN marked \cup {t} ELSE marked \ {t}

\* unbanPlayer
UnbanPlayer(t) ==
    /\ until' = [until EXCEPT !["ban"][t] = 0]
    /\ marked' = marked \ {t}

\* Seeded fault: the grade is not compared.
UpdateMute_AnyGrade(t, u, grade) == until' = [until EXCEPT !["mute"][t] = u] /\ UNCHANGED marked

\* updateMute
UpdateMute(t, u, grade) ==
    /\ Grade[t] < grade
    /\ until' = [until EXCEPT !["mute"][t] = u]
    /\ UNCHANGED marked

\* updateRoomCreationDisabledUntil, updateVotekickDisabledUntil, unmuteAccount and
\* the two resets ask for no grade.
UpdateRoomCreation(t, u) == until' = [until EXCEPT !["rooms"][t] = u] /\ UNCHANGED marked
UpdateVotekick(t, u) == until' = [until EXCEPT !["votekick"][t] = u] /\ UNCHANGED marked
UnmuteAccount(t) == until' = [until EXCEPT !["mute"][t] = 0] /\ UNCHANGED marked
ResetRoomCreation(t) == until' = [until EXCEPT !["rooms"][t] = 0] /\ UNCHANGED marked
ResetVotekick(t) == until' = [until EXCEPT !["votekick"][t] = 0] /\ UNCHANGED marked

\* The session that findSessionByName finds, by the exact name.
Flag(k, t) ==
    t \in online /\ flags' = [flags EXCEPT ![k] = @ \cup {t}] /\ missed' = missed \ {<<k, t>>}
Unflag(k, t) ==
    t \in online /\ flags' = [flags EXCEPT ![k] = @ \ {t}] /\ missed' = missed \ {<<k, t>>}

\* It finds none: the player is not online, or the name is spelled in another case.
Offline(k, t) ==
    /\ UNCHANGED flags
    /\ missed' = IF t \in online THEN missed \cup {<<k, t>>} ELSE missed

-----------------------------------------------------------------------------
(* Commands in the game. *)

\* handleLobbyChatMessage: whatever a cheater types is sent as an insult.
Chats(s) == s \in online /\ s \notin cheater

\* executeCommon
ExecuteCommon(s) == Chats(s) /\ s \notin flags["mute"]

\* executeCommand; the moderation commands require a moderator's grade.
Commands(s) == ExecuteCommon(s) /\ Grade[s] >= MOD

Outranks(s, t) == Grade[t] < Grade[s]

\* Seeded fault: as in handleBanCommand, the session goes and no row is written.
BanAccount_Unwritten(t, d) == UNCHANGED <<until, marked>>

\* Session::banAccount, of a session that is not a cheater's: the database is
\* asked with a moderator's grade, whoever gave the command.
BanAccount(t, d) == UpdateSuspension(t, today + d, FALSE, MOD)

\* Ban: the session is removed before its row is written, or refused.  Where none
\* is found by the name, the row is written at once.
Ban(s, t, d) ==
    /\ Commands(s)
    /\ \/ /\ UpdateSuspension(t, today + d, FALSE, Grade[s])
          /\ promised' = [promised EXCEPT ![t] = today + d]
          /\ UNCHANGED sessions
       \/ /\ t \in online /\ Outranks(s, t)
          /\ Removed(t)
          /\ IF Grade[t] < MOD
             THEN BanAccount(t, d) /\ promised' = [promised EXCEPT ![t] = today + d]
             ELSE UNCHANGED <<rows, promised>>
    /\ UNCHANGED <<today, logins, unwritten>>

Unban(s, t) ==
    /\ Commands(s)
    /\ UnbanPlayer(t)
    /\ promised' = [promised EXCEPT ![t] = 0]
    /\ UNCHANGED <<today, logins, sessions, unwritten>>

\* banAccount(9999, .., true): the session is marked even where the row is not.
MatchBanAccount(t) ==
    /\ cheater' = cheater \cup {t}
    /\ IF Grade[t] < MOD
       THEN UpdateSuspension(t, today + Forever, TRUE, MOD)
       ELSE UNCHANGED rows

\* CheatBan: where no session is found by the name, the term written is empty.
CheatBan(s, t) ==
    /\ Commands(s)
    /\ \/ /\ UpdateSuspension(t, 0, TRUE, Grade[s])
          /\ promised' = [promised EXCEPT ![t] = 0]
          /\ UNCHANGED sessions
       \/ /\ t \in online /\ Outranks(s, t)
          /\ MatchBanAccount(t)
          /\ IF Grade[t] < MOD
             THEN promised' = [promised EXCEPT ![t] = today + Forever]
             ELSE UNCHANGED promised
          /\ UNCHANGED <<online, flags, missed>>
    /\ UNCHANGED <<today, logins, unwritten>>

\* Session::muteAccount
MuteAccount(t, d) == UpdateMute(t, today + d, MOD) /\ Flag("mute", t)

Mute(s, t, d) ==
    /\ Commands(s)
    /\ \/ Offline("mute", t) /\ UpdateMute(t, today + d, Grade[s])
       \/ Outranks(s, t) /\ MuteAccount(t, d)
    /\ UNCHANGED <<today, logins, online, cheater, told>>

Unmute(s, t) ==
    /\ Commands(s)
    /\ UnmuteAccount(t)
    /\ Offline("mute", t) \/ Unflag("mute", t)
    /\ unwritten' = unwritten \ {t}
    /\ UNCHANGED <<today, logins, online, cheater, promised>>

\* Session::disableRoomCreation
DisableRoomCreation(t, d) == UpdateRoomCreation(t, today + d) /\ Flag("rooms", t)

\* Session::disableVotekick
DisableVotekick(t, d) == UpdateVotekick(t, today + d) /\ Flag("votekick", t)

DisableRoomCreationFor(s, t, d) ==
    /\ Commands(s)
    /\ \/ Offline("rooms", t) /\ UpdateRoomCreation(t, today + d)
       \/ Outranks(s, t) /\ DisableRoomCreation(t, d)
    /\ UNCHANGED <<today, logins, online, cheater, told>>

EnableRoomCreationFor(s, t) ==
    /\ Commands(s)
    /\ ResetRoomCreation(t)
    /\ Offline("rooms", t) \/ Unflag("rooms", t)
    /\ UNCHANGED <<today, logins, online, cheater, told>>

DisableVotekickFor(s, t, d) ==
    /\ Commands(s)
    /\ \/ Offline("votekick", t) /\ UpdateVotekick(t, today + d)
       \/ Outranks(s, t) /\ DisableVotekick(t, d)
    /\ UNCHANGED <<today, logins, online, cheater, told>>

EnableVotekickFor(s, t) ==
    /\ Commands(s)
    /\ ResetVotekick(t)
    /\ Offline("votekick", t) \/ Unflag("votekick", t)
    /\ UNCHANGED <<today, logins, online, cheater, told>>

Disconnect(s, t) ==
    /\ Commands(s)
    /\ t \in online /\ Outranks(s, t)
    /\ Removed(t)
    /\ UNCHANGED <<today, rows, logins, told>>

-----------------------------------------------------------------------------
(* The administration interface.                                            *)

\* verifyTokenAndGrade: the role a token was signed with, whatever its owner is now.
VerifyTokenAndGrade(role, required) == role >= required

\* validateRequest: the grade the handler asks for is not looked at.
ValidateRequest(role) == VerifyTokenAndGrade(role, MOD)

\* handleBanCommand: "found online and banned", and only the session ends.
HttpBan(t) ==
    /\ t \in online
    /\ Removed(t)
    /\ UNCHANGED <<today, rows, logins, told>>

\* handleBanCommand, isCheatBan: written, whatever comes of it; the session ends
\* with the socket (Logout).
HttpCheatBan(t) ==
    /\ t \in online
    /\ MatchBanAccount(t)
    /\ promised' = IF Grade[t] < MOD THEN [promised EXCEPT ![t] = today + Forever] ELSE promised
    /\ UNCHANGED <<today, logins, online, flags, missed, unwritten>>

\* handleMute: the session only.
HttpMute(t) ==
    /\ Flag("mute", t)
    /\ unwritten' = unwritten \cup {t}
    /\ UNCHANGED <<today, rows, logins, online, cheater, promised>>

\* handleDisconnect
HttpDisconnect(t) ==
    /\ t \in online
    /\ Removed(t)
    /\ UNCHANGED <<today, rows, logins, told>>

\* handleRequest, of a caller with this role: its grade is compared with nobody's.
\* The ban and the mute verify the token themselves.
HandleRequest(role, t) ==
    \/ VerifyTokenAndGrade(role, MOD) /\ (HttpBan(t) \/ HttpCheatBan(t) \/ HttpMute(t))
    \/ ValidateRequest(role) /\ HttpDisconnect(t)

-----------------------------------------------------------------------------
SanctionsNext ==
    \/ NextDay
    \/ \E a \in Account : \/ Password(a) \/ PasswordFirst(a) \/ Token(a, TRUE) \/ Token(a, FALSE)
                          \/ Login(a) \/ Logout(a)
    \/ \E s, t \in Account :
         \/ \E d \in Days : \/ Ban(s, t, d) \/ Mute(s, t, d)
                            \/ DisableRoomCreationFor(s, t, d) \/ DisableVotekickFor(s, t, d)
         \/ Unban(s, t) \/ CheatBan(s, t) \/ Unmute(s, t) \/ Disconnect(s, t)
         \/ EnableRoomCreationFor(s, t) \/ EnableVotekickFor(s, t)
    \/ \E role \in Roles, t \in Account : HandleRequest(role, t)

SanctionsSpec == SanctionsInit /\ [][SanctionsNext]_sanctionsVars

-----------------------------------------------------------------------------
(* Properties. *)

\* A sanction whose term runs binds the session, whether it was given before or
\* after the login; and a session is bound only by a term in the table, running
\* or over, or by a mute of the administration interface.  Flags and rows are
\* changed by two dozen functions, each on one side or on both.  Not claimed of a
\* session that a command has passed by, its player's name being spelled in another
\* case, until a command finds it or it ends.
SanctionsBind ==
    \A a \in online : \A k \in Flags : <<k, a>> \notin missed =>
        /\ Runs(k, a) => a \in flags[k]
        /\ a \in flags[k] => until[k][a] > 0 \/ (k = "mute" /\ a \in unwritten)

\* In the game only staff of a higher grade suspends, mutes or disconnects an
\* account, although the grades are compared in the handler for a player who is
\* online and in the database for one who is not.
GradesRespected ==
    [][\A t \in Account :
          \/ /\ \A k \in {"ban", "mute"} : until'[k][t] <= until[k][t]
             /\ t \in online => t \in online'
          \/ \E s \in Account : Commands(s) /\ Outranks(s, t)
          \/ Logout(t) \/ HttpDisconnect(t) \/ HttpBan(t) \/ HttpCheatBan(t)]_sanctionsVars

\* A ban that a moderator was told of stands in the table until its term is over
\* or it is lifted: every way to give one, online or offline, in the game or from
\* the interface, writes the row that the Auth server reads.
BansStand == \A a \in Account : promised[a] > today => Runs("ban", a)
=============================================================================
