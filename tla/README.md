# A formal model of the MicroVolts emulator

This directory holds TLA+ modules for the MicroVolts server emulator, the TLC
instances that check them, and TLAPS proofs about them. The modules are
translated from the C++ source under `src/`; every definition that stands for
code is listed with its lines in `PROJECT.json` (`map`).

1 The system - 2 The modules - 3 The runs - 4 The properties - 5 The proofs -
6 What is not modelled - 7 What the models show of the code - 8 Running it

## 1. The system

Three server processes talk to the game clients and to one another.

| Component | State it keeps | Operations | Interacts with | Modules |
|---|---|---|---|---|
| **Main server: rooms and matches** (`Room`, `RoomsManager`, `Handlers/Room`) | per room: players and observers (copy of the id and state, `weak_ptr` to the session), match flag, kick list, votekick; the table of rooms | create, join, leave, kick, host change, team change, start/leave/end match, votekick, list | sessions, number generator, Cast server, clan parties | `Room`, `Rooms` |
| **Room numbers** (`RoomNumberGenerator`) | next fresh number, queue of released numbers | `generate`, `release` | `Room`'s constructor, `removeRoom` | `RoomNumbers` |
| **Main server: session table** (`SessionsManager`, `Session`, `Player`) | sessions by id and account, room number, player state, inventory, currency, friends | add, remove, look up | everything | in each module, as far as it goes |
| **Moderation commands** (`ChatCommands`) | - | on rooms, and sanctions of accounts | rooms, sessions, persistence | `Rooms`, `Sanctions` |
| **Clan parties and clan rooms** (`ClanRoom`, `ClansManager`) | parties per clan, leader, limits, the room both clans fight in | create, join, leave, register, challenge, close | rooms, number generator | `Clans` |
| **Trade** (`Handlers/Trade`) | per session: partner, offer, lock | request, accept, add, remove, confirm, settle, cancel | two sessions, inventory, currency | `Trade`, `Exchange` |
| **Items and currency** (`Player`, `Handlers/Item`, capsules) | inventory, equipment, item numbers, counts, currency | buy, sell, upgrade, gamble, boxes, coupons, equip | persistence, trade | `Inventory`, `Accounts` |
| **Friends, block list, mailbox, gifts** | lists of a session, rows of the database | request, accept, delete, block, send, open | two sessions, or one and the database | `Social` |
| **Persistence** (`MainScheduler`, `MainDatabaseManager`) | writes queued per account, in order or by key; one counter; one mutex | queue, write back, write one account back, read at once | a worker thread, MariaDB | `Scheduler`, `Accounts` |
| **Cast server** | sessions, slots, rooms, who is in the match, who is dead | join/leave room, death, respawn, rounds | Main server over IPC | `Cast`, `Arena`, `Ipc` |
| **Auth server and login** | account key, second factor, pending logins | password, token, eviction | Main server over IPC, database | `Sanctions`, `Accounts` |
| **HTTP administration** (`HttpSession`) | - | room commands, sanctions, gifts, queries | all managers of the Main server | `Rooms`, `Sanctions`, `Social` |
| **Match rewards, levels, missions** | copy of the account's statistics | match end, rewards of the day, commands | persistence, clans | `Progress` |
| **Anti-cheat and reports**, **packets, encryption, sockets**, **constant databases, tools and libraries** | - | - | - | not modelled |

The repository has no tests. What it says about itself is in comments and in
the messages the handlers send.

### What is hard here

* **One fact, two copies.** A session's room number and the seats of a room; a
  party and the session's party number; a slot and a room's list on the Cast
  server; a flag and the row it was loaded from; a session's items and the rows
  of the database. Every handler updates both halves by hand.
* **Handlers inside handlers.** A disconnect runs the match leave, then the
  room leave, then the party leave; each may close the room, move the host or
  turn into a kick. A demand to close the room travels as a Boolean result that
  some callers drop. Closing a clan room makes every member leave its party and
  join it again, through the handlers of the packets.
* **Position is meaning.** The host is `m_players[0]`, a party's leader the
  first who waits, and removals reorder both vectors.
* **Flags with side jobs.** `resetVotekick` also clears the match flag.
* **Names that are reused.** Room numbers, item numbers, session ids and the
  seconds that name mails are given again while somebody still keeps the old one.
* **Two ways to every account.** A player who is online is reached through the
  session, one who is not through rows, with checks of their own. A session is
  found by the exact name and a row by the name in any case, so a player who is
  online and named in another case is reached through the rows as well, and the
  session does not hear of it.
* **Concurrency.** All packet handlers of a server run on one `io_context` with
  one thread, so a handler is atomic; the order of packets, disconnects and IPC
  messages is arbitrary. The write queue has a worker thread; a round of the
  arena ends on a detached thread that shares the room with the handlers; the
  two servers wait for each other in their only thread.
* **A copy that must come back.** The database follows a session some seconds
  later, write by write, in an order that is not the order of queueing, and the
  process may end in between.

### What each component must get right

* rooms: sessions and seats agree; a leaver frees its seat; the host stays host
  until it leaves or gives the seat away; a room with a possible host survives;
  the match flag covers everyone who fights; one room's step disturbs no other;
* room numbers: no number is free and in use at once;
* clan parties: party, session and room agree; a party sits together;
* trade: an exchange, whole and of what each side has;
* items: session and rows agree, limits hold, nothing comes from nothing;
* social: lists agree, a block keeps out, a gift is opened once and never lost;
* persistence: writes of an account are made in order and all of them; a crash
  leaves no account charged for what it did not get; the queue runs empty;
* login and sanctions: an account has one session; a term binds the session;
  a ban stands; grades are respected;
* Cast server: slots and lists agree, nobody loses its place to another; each
  round ends once, and the dead are not heard by the living;
* Main and Cast: neither waits for ever; a match has its own map and teams;
* progress: the row follows the copy; one reward a day.

## 2. The modules

| Module | What it is |
|---|---|
| `RoomNumbers` | `RoomNumberGenerator`: a record and the operators `Generated`, `AfterGenerate`, `Released` |
| `Room` | `class Room` without its settings: a record, the look-ups, and each member function as an operator from a room to the set of its outcomes |
| `Rooms` | the state machine of the room table, the generator and the sessions: one action per handler, command, callback and disconnect |
| `Clans` | extends the worlds of `Rooms` by parties, and the room handlers by what they do to them |
| `Scheduler` | `MainScheduler` and the database under it: the two kinds of queued writes, the counter, the mutex, a pass write by write, refusals, the end of the process |
| `Accounts` | extends `Scheduler` by the sessions that use it: login, takeover, eviction, disconnect, buying, selling and deleting, each handler a list of steps |
| `Exchange`, `Trade` | what trading promises, and the handlers that implement it |
| `Inventory` | every way the items and micro points of one account change, with the rows they are stored in |
| `Social` | friend lists, block lists, mails and gifts, online and offline |
| `Sanctions` | terms in rows, flags in sessions, commands and grades, and the logins they bear on |
| `Progress` | levels, statistics, missions, battery and daily rewards over the write queue of one account |
| `Cast` | the Cast server's table, slots and rooms, while connections linger and ids are handed on |
| `Ipc` | the calls between the Main and the Cast server, their timers and what is left of a call that timed out |
| `Arena` | a match on the Cast server: deaths, respawns, the rounds and their threads; the chat the Main server routes by it |
| `MC...` | TLC instances: sets, functions, symmetry, bounds; the `.cfg` files give the constants |
| `RoomsProof` | lemmas about a room and about worlds of rooms; the theorems about `Rooms` |
| `ClansProof` | the theorems about `Clans`, on top of `RoomsProof` |
| `AccountsProof` | the theorems about the queue (`Scheduler`), and about the sessions that use it |
| `RowsProof` | the theorems about what an account's rows hold and what binds its sessions: `Inventory` and `Sanctions` |
| `TradeProof`, `SocialProof`, `ProgressProof` | the theorems about these components |
| `MatchProof` | the theorems about the Cast server: `Cast`, `Ipc` and `Arena` |

A handler is one step where one thread touches the state (`Rooms`, `Clans`,
`Trade`, `Inventory`, `Social`, `Sanctions`, `Cast`). It is several where
another thread or process comes in between: each access of the queue in
`Accounts`, each write of a pass in `Progress`, each call and answer in `Ipc`,
and in `Arena` the count of the living and the flag that is set after it.

### State

| Model | Code |
|---|---|
| `Rooms`: `rooms` | `RoomsManager::m_roomByNumber`; a function from numbers in use to rooms |
| `.players`, `.observers` | `m_players`, `m_observerPlayers`; a seat is `[uid, live, state]`, `live` being whether the `weak_ptr` still locks |
| `.started`, `.obsOn`, `.kicked`, `.vk...` | `m_hasMatchStarted`, `isObserverModeOn`, `m_kickedPlayerAccountIds`, the votekick fields |
| `gen`, `roomNum`, `pstate`, `online` | the generator; `Player::m_roomNumber`, `m_playerState`; the ids in `SessionsManager` |
| `Clans`: `parties`, `partyNum` | `ClansManager::m_clanRoomsByClanId`; `Player::m_clanRoomNumber` |
| `Scheduler`: `incremental`, `callbacks`, `counter` | `m_databaseCallbacksIncremental`, `m_databaseCallbacks`, `m_incrementalDifferentiationKey` |
| `mutex`, `scope`; `stored`, `row` | `m_callbacksMutex` and what its holder writes; the tables `UserItems` and `Users` |
| `dueItems`, `dueRow`, `lost`, `shared` | history: what the tables would hold had every write been made at once; accounts with a refused write; accounts two open connections have used at once |
| `Accounts`: `conn`, `handler` | per connection whether it is in the table and its copy; the handler that runs and the accesses it has left |
| `Trade`: `partner`, `offer`, `locked`, `bag`, `mp` | `m_currentlyTradingWithAccountId`, `m_tradedItems`, `m_hasPlayerLocked`, the inventory, micro points |
| `Inventory`: `inv` | `m_itemsByItemNumber`, `m_equippedItemByCharacter`, `m_totalEquippedItems`, `m_couponItems`, `inventorySpace`, and the rows |
| `Social`: `friends`, `seen`, `blocked`, `box`; `frows`, `brows`, `boxrows`, `pending` | the session's lists; the tables, once the queue is written |
| `tabled`, `freed`, `wiped` | what is not written yet: the blocks the table has meanwhile, and the deletions of blocks and mails that wait |
| `cut`, `stale`, `wish`, `twins`, `unheard`, `sent`, `opened` | history |
| `Sanctions`: `until`, `marked`, `key`, `loginOk`; `flags`, `cheater`; `missed` | columns of `Users`; flags of sessions; history: the sessions a command passed by |
| `Progress`: `mem`, `active`, `rewards`, `dating`; `db`, `incremental`, `callbacks`, `pass` | `Player::m_accountInfo`, `m_eventMissions` and the login's loop; the database and the queue |
| `Cast`: `conn`, `table`, `slot`, `rooms` | sessions and `Session::m_id`; `m_sessionsBySessionId`; `m_playerSessionIdToRoom`; `m_rooms` |
| `mainId`, `active`, `inRoom` | what a client knows: its id on the Main server, its connection, whether it is in a room |
| `Ipc`: `call`, `mainTimer`, `outcome`, `inbox`, `asking`, `castTimer`, `answer`, `asked` | the call each loop waits for, its timer, what has arrived, what waits in sockets |
| `Arena`: `players`, `fighting`, `dead`, `started`, `finished`, `asleep`, `visiting`, `counted` | `m_playersVec`, `m_isInMatch`, `isDead`, `m_hasMatchStarted`, `m_arenaRoundFinished`, the threads and where they are |
| `told` | the state the Main server was last sent |

### Actions

Because handlers call each other, in `Rooms` and `Clans` a handler's effect is
an operator from a *world* (the room table, the generator, room numbers and
states) to the set of worlds it can leave: `RoomLeave`, `MatchLeave`,
`LeaveAsTarget`, `CloseRoom`, `PartyLeave`. An action picks one and becomes it.
`Disconnect` is the clearest case: `MatchLeave`, then `RoomLeave` of what that
left, then the death of the session, which turns its remaining seats into ghosts.

| Action | Handler |
|---|---|
| **Rooms** `Connect`, `Disconnect` | `SessionsManager::addSession`, `removeSession` |
| `CreateRoom`, `JoinRoom`, `LeaveRoom`, `KickPlayer`, `ListRooms` | `handleRoomCreation`, `handleRoomJoin`, `handleRoomLeave` (leave, `KICK_PLAYER`), `handleRoomsList` |
| `JoinInvisible`, `ModKick`, `ModUnkick`, `ModChangeHost`, `BreakRoom`; `Http...` | the chat commands; the same from the administration interface |
| `GiveHost`, `SwitchToObserver`, `SwitchToPlayer`, `ToggleObservers` | `handleHostChange`, `changePlayerTeam`, `handleSimpleRoomSetting<SETTING_OBSERVER>` |
| `StartMatch`, `LeaveMatch`, `EndMatch` | `handleRoomStart`, `handleMatchLeave`, `handleMatchEnding` |
| `PlayerState`, `CastState`; `StartVotekick`, `VoteYes`, `VoteResult` | `handlePlayerState`, `getPlayerStateUpdate` (IPC); `handleRoomMiscellaneous` |
| **Clans** `CreateParty`, `JoinParty`, `LeaveParty`, `SetSize`, `ChangeLeader`, `Register`, `Challenge` | the handlers of `Handlers/Clan` |
| `StartClanMatch`, `EndClanMatch`, `LeaveClanMatch`, `LeaveClanRoom`, `CloseClanRoom`, `ClanDisconnect` | the room handlers where they look at the party, `handleClanRoomLeave`, `removeSession` |
| **Scheduler** `AddIncremental`, `AddKeyed`; `BeginPass`, `MakeIncremental`, `MakeKeyed`, `EndPass` | `addRepetitiveCallback`, `addCallback`; `persist` and `persistFor`, a write at a time |
| **Accounts** `Login`, `TakenOver`; `Buy`, `Sell`, `Delete` | `handleInitialPlayerInfos` and its `closeSocket` of the session that is online; `handleBoughtItem`, `refundItem`, `handleItemDelete` |
| `Evict`, `Disconnect`, `DisconnectRemoved`; `HandlerStep`; `Crash`, `Restart` | `disconnectIfOnline` (IPC), `closeSocket` and `removeSession`; the next access of the handler; the process ends anywhere |
| **Trade** `Ask`, `Accept`, `Decline`; `AddItem`, `RemoveItem`; `Confirm`, `Settle`, `Refuse`; `Cancel`, `PartnerGone` | `TradeAck` and `TradeInitialize`; the item handlers; `TradeFinalize` (the first lock, the settlement, its refusals); cancelling, and finding the partner gone |
| `Spend`, `Discard`, `Move` | what else happens to balance, items and place meanwhile |
| **Inventory** `Buy`, `Spin`, `Sell`, `Delete`, `Upgrade`, `ResetUpgrade`, `Gamble`, `OpenBox`, `Prolong`, `EquippedItemSwitch`, `Use...`, `GiveCoupon`, `Relogin` | the handlers of `Handlers/Item`, boxes, the capsule machine, the coupon commands, the load at a login |
| **Social** `Request`, `Accept`, `Unfriend`, `Block`, `SendMail`, `...Offline`, `SendGift`, `OpenGift`, `Login`, `Logout`, `Persist` | the handlers of `Handlers/Player`, each path on its own; the rounds of the queue |
| **Sanctions** `Ban`, `CheatBan`, `Mute`, `Disable...`, `Un...`, `Disconnect`, `Http...`; `Password`, `Token`, `Login` | the chat commands and the administration interface; the Auth server's login, order 68 |
| **Progress** `MatchEnd`, `ClaimReward`, `SingleWave`, `SetLevel`, ...; `QueueReward`, `DateReward`; `Wake`, `WriteNext`, `EndPass`, `Logout` | the handlers that change the copy; the login's rewards of the day; the pass |
| **Cast** `Connect`, `Ping`, `Connection`, `CloseSocket`; `CreateRoom`, `JoinRoom`, `LeaveRoom`, `Quit` | `asyncAccept`, the first packet and the id from the Main server, the end of a connection; `RoomsManager` |
| **Ipc** `RoomCreation`, `StartMatch`, `EndMatch`, `RoomLeave`, `GoOn`; `Handle`, `SessionIdReturned`; `Tick` | `handleRoomCreation`, `handleRoomStart` and the calls in them, the return of a call; the Cast server's callbacks, `getSessionId`; the timers |
| **Arena** `NormalWeaponDamage`, `SpecialWeaponDamage`, `ExplosiveKill`, `Declare`; `Wake`, `Visit`; `RespawnRequest`, `PlayerRespawn` | `WeaponKillHandlers.h`: the death and its count, then the flag and the thread; the thread and its loop; the two respawn handlers |

### What is abstracted

* In `Rooms`, which of several candidates has the best ping is a free choice;
  a refusal that changes nothing is no step; the player limit is one constant;
  a session id stands for one account. A handler that throws ends the process.
* A `weak_ptr` expires with `removeSession`; a handler that still holds the
  session at that moment is not modelled.
* A session that joins room 0 through the room list, and the branch of
  `handleRoomJoin` for a session that is already seated, are left out: the
  former cannot be expressed by a listed number, the latter is excluded by
  `RoomAgreement`.
* In `Clans` every room is a clan room; votekicks, kicks, ready states and the
  results of clan matches are left out.
* In `Accounts` an incremental write inserts or removes one item and a keyed one
  sets one currency; a price is 1; a client sends order 68 once per connection.
  Clearing the maps at the end of a pass is spread over its writes: while the
  mutex is held nobody can tell.
* In `Trade` an item has an identity that goes with it, and a number that does
  not. Clients do not delete what they offer, which is sealed.
* What a client names for an item it sells is any amount (`Inventory`, `Accounts`).
* `Inventory` is one character; durability, expiration and seals are left out,
  and coins and rock totens go the way of micro points.
* `Social` leaves out mutes, the mark of mails that were read, the space a
  gift's item needs, and mails to and blocks of oneself. Which way a name is
  spelled is a free choice: with a session there or not, the path that finds none
  is always open (in `Sanctions` as well). A row is in the model from when its
  write is queued; where a handler reads the table before that, the model has
  what is there (`tabled`), and what a queued deletion will take with it
  (`freed`, `wiped`). How many rows a mailbox has in the table meanwhile is left
  open (`HasRoom`).
* `Progress` is one account; refusals of the database and logins that take over
  are left to `Accounts`; "worn" stands for durability that is used up.
* Requests of the administration interface are taken to fall between two
  handlers: its thread shares the managers without a lock, and the data races
  are left out.
* In `Cast` clients ping only once they are identified, and a client whose
  session on the Main server ends leaves both servers.
* In `Ipc` the creation of the room has reached the Cast server's socket before
  the host's start is handled; the mode is chosen anew for each attempt.
* In `Arena` a client asks to respawn only when dead, the host answers only
  while it is in the match, teams and mode are set before it, and a loop is
  over before another sleeping thread wakes. Assassins and positions are left
  out. In the chat, whom the Main server takes to be in the match is any set.

## 3. The runs

Every run is expected to pass. All but `Progress` check deadlock: its packets
are bounded by a constant, so its behaviours end.

| Run | Instance | Distinct states |
|---|---|---|
| `RoomsSeats` | 3 sessions, 1 room of 3 players and 1 observer, states READY and DYING, no votekick, no staff | 274,536 |
| `RoomsOrders` | a moderator and 2 sessions that vote and that the administration interface can name; 2 rooms of 2 players, 2 room numbers | 224,205 |
| `Accounts` | 2 connections, 2 accounts and the id 0, 1 item, a balance of 0 or 1, 2 writes numbered at once | 829,873 |
| `Trade` | 3 players, one a friend of both others and one with room for one item; 2 items, a fee of 1, balances up to 2 | 499,300 |
| `Inventory` | a rifle and its upgrade, a hat, a costume that covers it, a coupon and one kind that plays every usable item; 2 places, 1 micro point | 111,945 |
| `Clans` | 2 members of a clan and 1 of another, 2 parties per clan, sizes 1 and 2, 2 clan rooms | 132,334 |
| `Cast` | 2 clients, 3 connections, 2 ids, 2 rooms | 649,218 |
| `Ipc` | timers of 2 and 3 ticks, 3 attempts to start, 2 clients at the door, 5 messages waiting | 167,536 |
| `Social` | 3 players, 2 gifts, lists and mailboxes of 1, 2 seconds | 57,312 |
| `Sanctions` | a player and a moderator of one machine, a game master; 2 days | 395,109 |
| `Progress` | 1 calendar, 2 missions, 3 packets, 1 attempt and 2 stages of a single wave, 2 days, 6 writes waiting | 1,277,845 |
| `Arena` | 3 players of two teams, one of them staff, one an observer or not; both modes | 365,285 |

**What each shows**, and the properties it checks:

* `RoomsSeats` - seats, host and match flag stay right through joins, leaves,
  disconnects, kicks and matches in every order (`RoomAgreement`,
  `NoGhostPlayers`, `MatchImpliesStarted`, `HostKeepsSeat`, `SuccessorFights`,
  `WaitingRoomSurvives`);
* `RoomsOrders` - the numbers and the rooms that are not one's own, with
  everything that moves people from outside (`NumbersConsistent`,
  `OthersUndisturbed`);
* `Accounts` - the write queue under logins, takeovers, evictions, the shop and
  crashes (`NoWriteLost`, `OneInTable`, `OfflineIsWritten`, `CopyIsCurrent`,
  `NotChargedFirst`, `CatchesUp`);
* `Trade` - trading with anybody leaving, returning and trading elsewhere at
  any moment (`OfferOwned`, `Exchanges`);
* `Inventory` - every way items change (`ItemsMatchRows`, `SpaceRespected`,
  `NothingFromNothing`);
* `Clans` - parties and the rooms they sit in (`PartyAgreement`,
  `PartyTogether`, `LeaderKeepsParty`);
* `Cast` - connections that linger while their ids are given away
  (`SlotsMatchRooms`, `KeptInRoom`, `Registered`);
* `Ipc` - two loops that call each other, with timeouts and late messages, and
  the Cast server stopping and starting (`CastKnowsTheMatch`, `TeamsArrive`,
  `BothReturn`);
* `Social` - requests, blocks, mails and gifts over logins and logouts
  (`ListsAgree`, `KeptOut`, `BoxesAgree`, `GiftsKept`);
* `Sanctions` - all sanction commands, logins and days (`SanctionsBind`,
  `BansStand`, `GradesRespected`);
* `Progress` - a session's copy, the queue, and the rewards of the day, with the
  end of the process anywhere (`RowFollows`, `OneGiftADay`);
* `Arena` - rounds, threads and the chat (`RoundRunsOut`, `RoundsGoOn`,
  `DeadUnheard`).

**Bounds.** Three sessions are the smallest number with a host, a successor and
a third who leaves, watches or would be the wrong successor. Two rooms suffice
for interference, as no handler touches more than two; two numbers suffice for
exhaustion and reuse in the wrong order. `MaxVotes` and `MaxWatchers` bound the
yes counter and the observers that `/join` adds, which the code never bounds.
`RoomsSeats` carries `NumbersLeft`: the server has not spent its last fresh
number; `RoomsOrders` lets the numbers run out, and the properties that are
false of room 0 take `NumbersLeft` as a premise. `PlainAfterwards` keeps a room
of `RoomsOrders` to two features at once (watched, started, kicked, voted) and
to none while somebody is in the lobby or after the numbers are spent.

In `Accounts`, two connections are what a takeover needs and two accounts what
the shared counter needs; one client can log in to both accounts, the other to
one, so each account change and each takeover occurs. Account 0 is the one
connections have before they log in. `OneTrouble` leaves out behaviours in which
the database refuses writes *and* two connections use one account; each alone is
covered.

In `Trade`, the third player is the one who interferes, and the one whose space
is short; numbers of items are bounded, there is one request at a time, and two
thirds of the money are not spent. In `Inventory` the places are two because the
count that wraps is off by one; numbers, and counts that drift, are bounded. In
`Clans`, three sessions give a party of two and a challenger; a server is
followed while its rooms are in order (below). In `Cast`, one more connection
than clients gives each an old one, and as many ids as clients means that an id
is always given again. In `Ipc` the Main server's timer is the shorter one, as
10 s are to 15 s; three attempts give one that timed out, one that went through
and a late one, or a start during a match that is given up. In `Social`, limits of
one entry are reached at once, and two seconds tell mails apart; `Bounded` has
friendships end where blocks begin, lets blocks meet one or two mails, and lets
one thing go wrong with the boxes at a time; what it leaves out (two lists full
of both, gifts among mails) is covered by the proofs. In `Sanctions` there are
two sanctions and sessions passed by at a time, and one login between password
and token. In `Progress` the process ends once a day between a
reward and its date; one attempt and two stages are enough for the stage read to
be below, at and above the one stored. Where an instance carries a constraint, the MC
module says what it leaves out.

**Symmetry** is used for sessions that are alike (`Rooms`, `Clans`), for items
(`Trade`) and for players (`Social`), never with a liveness property.

**Fairness.**

* `Accounts`: `WF` of `HandlerStep`, `WriteBack` and `WorkerSleeps` says that
  the threads run. `SF` of `Wake` says that the worker gets the mutex in the
  end although handlers take it again and again: a handler holds it for one
  call and the network thread waits for packets in between, while the worker
  wakes every few seconds for as long as the process lives. Nothing is assumed
  about clients, the Auth server, refusals or crashes.
* `Cast`: `WF` of `Ping`, which a client sends on a timer, of `Connection`, the
  answer of the Main server, and of `CloseSocket`, a dead connection that is
  noticed in the end.
* `Ipc`: `WF` of `Tick` (time passes), `GoOn`, `SessionIdReturned` and `Handle`
  (a loop that has something to do does it). Nothing is assumed about the host, the
  clients or whether the Cast server is up.
* `Arena`: `WF` of `Declare`, `Wake` and `Visit`: a handler and a thread that
  run go on. Nothing is assumed about the players.

## 4. The properties

Rooms:

* `NumbersConsistent` - no number is both free and in use, or free twice.
* `RoomAgreement` - at most one seat per session and room; a session is seated
  exactly where its room number says.
* `NoGhostPlayers` - without votekicks a player's seat has a live session.
* `MatchImpliesStarted` - a player shown as fighting is in a started match.
* `HostKeepsSeat` - only the host itself, or staff, moves the host seat away
  from a host that stays.
* `SuccessorFights` - a fighting host that goes leaves the room to a fighter,
  while numbers are left.
* `WaitingRoomSurvives` - a room of two or more who wait is never closed under
  them, except by staff.
* `OthersUndisturbed` - a step sends at most one session out of a room that
  stays, while numbers are left and unless the observers are turned off.

Clans:

* `PartyAgreement` - party and session agree on who waits where; counts are
  right; nobody waits twice or after its session ended; no party is empty.
* `PartyTogether` - the members of a party are in their leader's room.
* `LeaderKeepsParty` - a leader who stays leads, until it hands on or leaves a
  match.

  The runs check all three of servers with numbers left and `RoomsInOrder`
  (section 7 says what breaks that). The second is claimed and proved of those
  only; the first and the last are proved of every server.

Accounts and their data:

* `NoWriteLost` - the database and the queue add up to what was asked: no write
  is lost, repeated, or overtaken by an older one.
* `OneInTable` - an account has at most one session in the table.
* `OfflineIsWritten` - an account with no session in the table has nothing queued.
* `CopyIsCurrent` - a session's copy is what the database holds or will hold.
* `NotChargedFirst` - while a bought item waits to be written, so does its price.
* `CatchesUp` - again and again nothing is left to write.
* `OfferOwned` - what is offered is in the inventory, each item once; numbers
  are unique in an inventory and an item is in one.
* `Exchanges` - trading implements `Exchange`.
* `ItemsMatchRows` - the session's items are the rows the database will hold,
  each under one number, and what is worn is stored as equipped.
* `SpaceRespected` - there are no more items than there is space for.
* `NothingFromNothing` - what an account is worth grows only by rewards, boxes,
  the free spin, and what a client names for an item it sells.
* `RowFollows` - what the session shows is what the row will hold, but for the
  stage of a single wave, which may be the attempts a login reads in its place.
* `OneGiftADay` - a calendar gives one item a day.

People:

* `ListsAgree` - friendship is mutual, and sessions and tables agree on it, but
  for a friend whom a block that found no session deleted in the table alone.
* `KeptOut` - of who was told to keep out, no request is shown and no mail comes
  to the session, nor, once the block is written, to the tables.
* `BoxesAgree` - a session's mails and gifts are those of the tables, but for
  seconds with two of them or with a row the session was not told of.
* `GiftsKept` - a gift is opened at most once and never lost.
* `SanctionsBind` - a running term binds the session, and what binds a session
  is a term or a mute of the administration interface, unless a command passed
  the session by.
* `BansStand` - a ban a moderator was told of is in the table.
* `GradesRespected` - in the game only staff of a higher grade suspend, mute or
  disconnect.

Cast server:

* `SlotsMatchRooms` - a slot leads to a listed room, and a client is listed
  where its slot leads and nowhere else.
* `KeptInRoom` - nobody is taken out of a room by another one's step.
* `Registered` - who stays connected is found by its id in the end.
* `CastKnowsTheMatch` - while a match runs, the Cast server has its map and its
  assassins; after a start pressed during the match, its map or a later one, and
  never an earlier one.
* `TeamsArrive` - the teams of a match arrive.
* `BothReturn` - neither loop waits for ever.
* `RoundRunsOut` - one thread sleeps for a round that is over, and it does not
  wake to a fight.
* `RoundsGoOn` - whenever one or none is left, everyone is respawned.
* `DeadUnheard` - outside the arena the dead are heard by the dead only, the
  living by everyone in the match.

Several properties carry an exception by a history variable: `lost`, `shared`
(`Accounts`), `astray`, `uncounted` (`Inventory`), `overtaken`, `torn`
(`Progress`), `cut`, `stale`, `twins`, `unheard` (`Social`), `unwritten`, `missed`
(`Sanctions`), `disturbed` (`Arena`). Each names what the code really lets happen, see section 7.

Each property has a *seeded fault*: a definition next to the real one, such as
`CloseRoom_LeavesPlayers`, that a plausible slip would have produced. Replacing
the real definition by it makes TLC find the property violated.

## 5. The proofs

The theorems hold for every number of sessions, players, items, rooms and
connections, and every limit; they rest on the named assumptions about
constants in the modules (limits are numbers, subsets are subsets), which TLC
evaluates in the runs. Further hypotheses are stated with the theorems that
need them.

| Theorem | Property | Module |
|---|---|---|
| `TypeCorrect`, `NumbersCorrect` | `NumbersConsistent` | `RoomsProof` |
| `SeatsAgree` | `RoomAgreement` | `RoomsProof` |
| `NoGhosts`, if `Voters = {}` | `NoGhostPlayers` | `RoomsProof` |
| `FightersKnown`, if `Voters = {}` and `Orderly` | `MatchImpliesStarted` | `RoomsProof` |
| `HostsStay` | `HostKeepsSeat` | `RoomsProof` |
| `OneLeaves` | `OthersUndisturbed` | `RoomsProof` |
| `WaitingRoomsStand` | `WaitingRoomSurvives` | `RoomsProof` |
| `FighterSucceeds`, if `Voters = {}` | `SuccessorFights` | `RoomsProof` |
| `PartiesAlwaysAgree`, `LeadersStay` | `PartyAgreement`, `LeaderKeepsParty` | `ClansProof` |
| `PartiesStayTogether`, if `[](NumbersLeft /\ RoomsInOrder)` | `PartyTogether` | `ClansProof` |
| `BestSeatsType` | an index into all seats from a count of live ones | `RoomsProof` |
| `QueueTypeCorrect`, `QueueCorrect` | `NoWriteLost`, of the queue | `AccountsProof` |
| `AccountsTypeCorrect`, `Implements`, `AccountsCorrect` | `NoWriteLost`, of the sessions that use it | `AccountsProof` |
| `OneSessionEach`, `NothingLeftBehind`, `CopiesCorrect`, `ItemBeforePrice` | `OneInTable`, `OfflineIsWritten`, `CopyIsCurrent`, `NotChargedFirst` | `AccountsProof` |
| `RowsAreHeld`, `SpaceKept` | `ItemsMatchRows`, `SpaceRespected` | `RowsProof` |
| `TypeCorrect`, `OffersAreOwned`, `TradeImplementsExchange` | `OfferOwned`, `Exchanges` | `TradeProof` |
| `SlotsAgree`, `NobodyIsTakenOut` | `SlotsMatchRooms`, `KeptInRoom` | `MatchProof` |
| `IpcTypeCorrect`, `TheMatchIsKnown` | `CastKnowsTheMatch` | `MatchProof` |
| `ListsAlwaysAgree`, `AlwaysKeptOut` | `ListsAgree`, `KeptOut` | `SocialProof` |
| `BoxesAlwaysAgree`, `GiftsAlwaysKept` | `BoxesAgree`, `GiftsKept` | `SocialProof` |
| `TypeCorrect`, `SessionsBound`, `PromisesKept`, `StaffOutranks` | `SanctionsBind`, `BansStand`, `GradesRespected` | `RowsProof` |
| `TypeCorrect`, `OneThreadARound`, `DeadAreUnheard` | `RoundRunsOut`, `DeadUnheard` | `MatchProof` |
| `ProgressInvariant`, `RowAlwaysFollows`, `OneGiftADayAlways` | `RowFollows`, `OneGiftADay` | `ProgressProof` |

Each inductive invariant was checked by TLC as an invariant of the run before
it was proved.

*Rooms: types and numbers.* Neither property is inductive alone: a released
number keeps the queue consistent only if the table is well typed and the
number was in use; the table is well typed only if the numbers drawn are. The
invariant is `Inv == TypeOK /\ NumbersConsistent`. As handlers are operators on
worlds, the proof is about worlds: `Good(x)` says both of a world, one lemma per
world operator (`CloseRoomGood`, `SettleGood`, `RoomLeaveGood`, ...) says that it
keeps `Good`, and `BecomeGood` carries that back to the variables. The first
part of the module is about a single room; the one lemma with content of its own
there is `BestSeatsType`, which is why `playerRoomLeaveNotification` never takes
its "weird logic error" branch.

*Rooms: seats.* `SeatsInv` adds `SeatsMatch(Now)`: in every room a session has one
seat at most, and, while fresh numbers are left, seats and room numbers agree
and nobody is in room 0; and `Housed`: only connected sessions are in rooms. A
leave is looked up through the session's number and frees the seat it finds, so
both halves are needed at once. `NoGhosts` adds `Lively`. With votekicks it is
false: the leave of a target that may not be removed becomes a kick that
removes nobody, and the session goes. `FightersKnown` adds `Honest`: what a seat
says of a session in a match, the session says as well - for observers only in
one direction, as `removeHostFromMatch` looks at players only and leaves
observers in a match that is over. It needs `Orderly`: clients report no state
of the match themselves and the Cast server no other, as in the run `RoomsSeats`.

*Rooms: steps.* The four action properties follow from `SeatsInv` (and `Lively`
for the last), one lemma per handler over what it does to a world. `Passing`: in
a room that is left the first player is still first if it is there, and, while
numbers are left, nobody but the one leaver loses its number; it composes, as a
disconnect is two leaves and the end of the session. `Stands` and `Waits`: a room
of two or more who wait is not closed, and between the two leaves of a
disconnect it waits still. The searches for a new host are shown to find one
(`BestSeatsFinds`) and, where no seat is a ghost's, the one they looked for
(`BestSeatsExact`), which is what `FighterSucceeds` needs `Voters = {}` for.
`OthersUndisturbed` and `SuccessorFights` speak of servers with numbers left: the
proof attempt showed that both are false of larger servers without that (section
7), though the run's two rooms are too few to see it.

*Clans.* `PartyAgreement` is nearly inductive: `Agreeing` adds what kind the
parties are, and that a session's number is 0 or leads to a party. From it
follows that whoever leaves can: everyone in line is alive, so a leader is alone
or has an heir, and the error branch that tears both parties down is never
taken. `Parted` says what a leave does to the parties, `Moved` what a step of one
session may do to the others, `Kept` that all parties stay with their leaders;
they compose as the handlers call each other, and what a handler does to rooms
leaves parties alone (`RoomEffects`). Closing a clan room is a chain of leaves
and joins over both parties: that `Kept` holds at its end is shown by the first
place of the chain at which it would fail (`BackKept`, `AllKept`). The set of
sessions is assumed to be finite, as the parties a room holds are put in an order.

`PartyTogether` needs the rooms as well. A world of parties has a world of
`Rooms` in it (`Base`), and what the handlers of clans do to rooms is what the
ones of `Rooms` do to that. `Calm` is the invariant of the rooms there: they are
well formed, seats and numbers agree, and no votekick runs, as clan rooms have
none here. `Together` says that sessions of one party have one room number. Any
leave lets go of a whole room or of one session alone (`Drifts`), and that
session is out of its party after it; who joins takes the leader's number; and
all of a party that a closed room sends back are in no room by then (`Returned`).
`RoomsInOrder` is used where the handlers ask nothing: who joins a party is not in
another room, and the parties a challenge seats in the new room (`RoomFounded`)
were not seated elsewhere. `LiveWaiting` and `ClanParties` count positions
instead of filtering a list, which the library defines by recursion.

*The queue.* `NoWriteLost` is not inductive: a new write goes to the end of its
account's queue only if no queued number, of that account or another, exceeds
the counter. `Numbered` says so, and that when the worker has the mutex its
scope is every account, so that the reset at the end of its pass meets empty
queues; after `persistFor` the counter stays. Two lemmas carry the content:
`QueuedLast` (queueing a write behind all others does to the outcome what the
write does) and `MadeFirst` (making the oldest write changes nothing in it).

*Accounts.* `Implements` shows that the handlers use the queue as `Scheduler`
allows. The other four properties rest on where the running handler is: `AtStep`
lists what can be left of a handler (a removal before, in and after its
`persistFor`; an attachment; a read; a trade with the shop before its item and
before its price), with what is true at that place. `Owners`, `OthersWritten`,
`Charged` and `Copies` say what is true of the connections and the queue
meanwhile, with the running handler as their only exception. Together they are
`StepsInv`.

*Inventory.* A row is changed by its number, so it stays the item's row only if
no other item has the number; an item that becomes another one keeps the row's
stock, so neither kind may have one; and what a box holds is numbered before the
box goes. `Proper` says what this needs: the items are the rows, told apart by
bounded numbers, the bag and what is worn are disjoint, one item is worn of a
type. `Counted` is for `SpaceRespected`: while `m_couponItems` is right, the
space the code computes is not negative, and that it lets everything into an
over-full inventory never matters. Items that are replaced while worn stay
counted as worn until the next login, so the count is only bounded from below.
The login itself renumbers by rank, which keeps numbers apart (`RankedKeeps`).
The proof asks of the kinds what the constant databases say (`InventoryAssumption`):
that no box of items holds coupons can be read in `itempackageinfo.cdb` and
`gachaponpackageinfo.cdb`; the tables of the stocks are not in the repository.
The attempt also showed that `SpaceRespected` needs its exception for a
deletion that went astray: the next login brings the item back, space or not.

*Trade.* `OfferOwned` needs to know that no inventory is over-full, since there
`spawnItems` would drop what `deleteItems` has taken; that nobody trades with
himself; and that offers end with their session. `TradeInv` says this of every
player (`Sound`) and that no item is in two inventories (`Apart`). For
`TradeImplementsExchange`, every handler but two leaves every item with its
owner, `Discard` is the abstract `Discard`, and `Settle` is the abstract `Swap`
of the two offers: no item is dropped or doubled by the renumbering.

*Cast.* The list of a room says that its players are identified (`SlotsLead`),
and who is listed is in the room its slot leads to and has not left (`Listed`).
Both rest on `Sessions`: the ids of live sessions differ, and a connection has
the id of the client that opened it. `KeptInRoom` follows step by step.

*Ipc.* All rests on the order of one queue. `IpcInv` says, for each point of
`handleRoomStart`, what may still wait in the Cast server's sockets: behind the
call for the map nothing but clients who connect (`Closes`), so that its answer
shows every older attempt to be handled; after it, only what this attempt sends.
The word that the mode is off need not be answered; it precedes the teams
(`PlainFirst`), which is why the property speaks of the assassins' absence from
when the teams are known, and why teams of an older attempt do no harm.
`AppendedQueue` and `DroppedQueue` say what one message more or less does to
these. Start can be pressed again while a match runs: `MapsFrom` says that whatever
map is set or on its way is that of the match or of a later attempt, and the rest
is claimed while the match is the last attempt. No bound of the run and neither
time limit enters the argument.

*Social.* Rows are sequences, lists are filtered, and mails are found by their
second, so the proof first says what picking entries of a sequence keeps
(`PickedFacts`, by ranks; `Social` filters by indices, as nothing is known of
`SelectSeq` to the provers). `ListsAgree` is then about sets: `Friendly` adds
that of two sessions both see each other or neither does, and that the clients'
requests and the rows are never of oneself; a login and a logout rewrite other
sessions' lists, and keep it because of just that. Who is listed by one session
and not in the table is in `stale`, and two who list each other see each other.
`Keeping` says who is kept out: in the rows, and in each session that loaded all
of them; `BlocksWritten` that a row of a block is in the table, or its account
is online and the write waits. `KeptOut` needs all of it, as a request or a mail
looks at the session, at the rows, or at the table before they are there. For the
boxes, `Same` says that of a second without twins that the session heard of there
is at most one entry and that session and rows have the same one, so that
deleting the first and deleting all come to the same. `Safe` adds, for the gifts,
that no two entries anywhere are of one gift, and that a session has no gift the
tables have not.

*Sanctions.* `SanctionsBind` is inductive with the types; `OthersFit` reduces
each of the commands to the account it is about. A command that finds no session
may still be about one: it is in `missed` from then on. `BansStand` needs the row to
have the very end that was promised (`PromisesWritten`). `GradesRespected` is
shown per command: `Spared` or `Justified`.

*Arena.* The thread's loop brings players back one by one, so that a round
declared over meanwhile must stay known as disturbed until the loop ends
(`LoopDisturbs`). `DeadUnheard` is about what the Main server was told; that
this is true (`ToldTruly`) needs that outside the arena no thread sleeps.

*Progress.* What the properties speak of is the database once the queue is
written, a recursion along the queue. Nothing is proved by induction over it: a
queue has a chain of databases, and if a property of the chain failed somewhere
there would be a first place (`LeastNatural`, from the well-founded order of the
naturals), which the write before it rules out. So a write queued last is made
last (`MadeLast`), the first may be made at once (`MadeFirst`), and a date
written beside the queue passes through it (`MadeRedated`). The invariant says
of `RowFollows` that the row after the queue has the copy's fields (`Agrees`)
and missions (`MissionsAgree`), the stage being the row's or the attempts
(`Misread`). That is not enough: `sendBattery` writes the
battery only if it grew and `batteryExpansion` reads the row, so battery and
maximum must agree and be in order in what every write of the queue leaves
(`Sound`), as the process may end after any. For `OneGiftADay`, `Accounted` says
that an item given is dated, about to be, or torn from its date, and `InTime`
that a reward is open only for a day after the last date. The amounts of a
match are assumed to be natural numbers, as in the code, where they are
unsigned; nothing else is assumed of them.

**Only model-checked.**

* `CatchesUp`, `Registered`, `TeamsArrive`, `BothReturn`, `RoundsGoOn`: liveness
  under fairness is out of the provers' reach.
* `NothingFromNothing`: it speaks of a sum over a set, and would need induction
  over data, which the library's theorems offer only with an operator as parameter.

## 6. What is not modelled

Packets, encryption, sockets, SQL, the constant databases, the tools and
third-party libraries; announcements, settings and queries; the anti-cheat event
queue and the list of reports, on which nothing else depends (a report is
acknowledged even if the mailbox refuses it, and the list is lost with the
process); the amounts of scores and rewards, which clients report; the results
of clan matches; invitations and room settings; the Auth server's channel list.
`PROJECT.json` says per component what is left out.

`PROJECT.json` also lists the hazards, with their lines and the properties that
watch them. One has none: the administration interface's thread shares the
managers with the handlers without a lock, and its data races are outside the
models.

## 7. What the models show of the code

The source promises nothing of the following, so no property is violated; each
is what a module really lets happen, and several are exceptions in a property.

Rooms and clans:

* With votekicks, a target that may not be removed becomes a ghost when it
  leaves, and the match flag is cleared under those who fight; kicks then pass
  that `RoomLeaveHandler.h:49` means to prevent. Yes votes are counted without a
  votekick, from anyone (`RoomMiscHandler.h:97`).
* Once the generator is empty, a room gets number 0, which means "no room": its
  session counts as outside and can create or join another. When room 0 is
  broken, its session loses its number and keeps its seat in the other; closing
  that one later sends it out of the room it is in by then.
* Observers stay "in match" after `removeHostFromMatch` ends it, and an observer
  of a room without players cannot leave it (`Room.cpp:395`).
* If the host is the only one who fights, its leave closes the room although
  another player waits (`Room.cpp:369`).
* The kick of a session that has just gone makes the kicker leave
  (`RoomLeaveHandler.h:42`). A state is stored before it is tested
  (`PlayerStateHandler.h:26`).
* The end of a match is accepted again and again
  (`EliminationNextRoundHandler.h:218`), and the second clan's branch stores the
  first clan's statistics (`:234`). Clan rooms draw from 151..600 and other rooms
  from 1..600, into one table (`RoomNumberManager.h:23`).
* A party can be challenged while it sits in a room, and the last of a party
  leaves it and keeps the seat (`RoomLeaveHandler.h:72`): `RoomsInOrder` excepts
  both. A challenged party that is gone is a null pointer.

Accounts, items and trade:

* A login that takes an account over reads its row *before* the old session is
  closed and its queue written: the new session starts with the old balance and
  may write it back. `disconnectIfOnline` leaves the socket open; until the
  client goes, its packets still change the account. Both are in `shared`.
* What a sale brings is what the client names (`MainSession.cpp:636`): the amount
  is added to the balance as it comes.
* The highest stage of a single wave is loaded from the column of the attempts
  (`MainDatabaseManager.cpp:898`) and stored in its own (`:2063`): a login shows
  another stage than the one stored, and the next statistics write it there.
* A refused write is dropped and the session keeps the value (`lost`). A crash
  between the write of an item and of the balance leaves the item unpaid.
* Writes under a key overtake statistics queued later (`overtaken`). A process
  that ends between a daily reward and its date gives it again (`torn`).
* A settlement looks at the partner's lock alone, so it can follow changes after
  the lock, or belong to another trade of the partner. A refused one keeps the
  offers. The fee is checked when an item is added and not when it is charged:
  spent in between, the subtraction wraps, is refused, and the trade is free.
  `deleteItems` reaches its end without a value (`MainSession.cpp:2090`).
* An effect can move the inventory under the reference to the item that is
  deleted after it (`astray`, `GeneralItemHandler.h:67`). Coupon items come and
  go without `m_couponItems` (`uncounted`).

Social and sanctions:

* Mails and gifts are named by the second; two of one second are opened, deleted
  and listed as one, and a gift may be lost that way (`twins`). Lists of more than
  59 entries are loaded in part (`cut`).
* Sessions are found by `strcmp` (`MainSessionManager.cpp:151`) and rows by a
  collation that ignores case. Named in another case, a player who is online is
  taken for one who is not: a block ends the friendship in the table and leaves
  it in that session (`stale`, `BlockPlayerHandler.h:37`), a mail or a gift becomes a
  row the session does not show before the next login (`unheard`,
  `MailboxHandlers.h:39`), and a mute or a ban a row the session does not obey
  (`missed`, `Mute.h:57`). The same path looks for blocks in the table while the
  blocker's own may still wait in the queue, and rows it makes may go with a
  deletion that waits there (`tabled`, `freed`, `wiped`).
* A ban from the administration interface ends the session and writes no row
  (`HttpSession.h:378`); `validateRequest` ignores its grade (`:95`). Days times
  86400 overflow above 24855 (`Ban.h:61`). Event settings take effect at the next
  start only (`MainServer.cpp:80`).

Cast server and arena:

* `handleRoomStart` does not ask whether a match runs (`RoomStartHandler.h:64`). A
  waiting player who became host during one can press start; if that attempt is
  given up after its map was sent, the match goes on with the Cast server on the
  other map.
* A closed connection clears its entry in the table and neither its slot nor its
  place in a room; the next client with the id inherits the slot, and its join
  counts as a leave first.
* A request to respawn makes a player count as alive before the host answers
  (`CastServer.cpp:63`). `WeaponKillHandlers.h:258` returns within the loop over
  those an explosion hits. A round that ends while the loop of the last one
  respawns everyone is declared over regardless (`disturbed`).
* Commands that erase sessions while iterating over them (`Shutdown.h:24`,
  `Close.h:24`) and `blueReady;` without an increment (`Room.cpp:1437`) are slips
  met on the way.

## 8. Running it

    tlc -workers 2 -config MCRoomsSeats.cfg MCRooms.tla
    tlc -workers 2 -config MCRoomsOrders.cfg MCRooms.tla
    tlc -workers 2 -config MCTrade.cfg MCTrade.tla        # likewise the others
    tlapm RoomsProof.tla
    tlapm AccountsProof.tla                               # likewise the others

The runs take from 20 seconds to 3 minutes each, the proofs some minutes.
