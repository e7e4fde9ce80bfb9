------------------------------ MODULE Progress ------------------------------
(***************************************************************************)
(* What an account earns: experience, level, micro points, statistics,     *)
(* battery, event missions, the rewards of the day and the contribution to *)
(* its clan.  A session works on a copy (Player::m_accountInfo,            *)
(* m_eventMissions) and queues a write for each change; the queue is the   *)
(* one of module Scheduler, here for one account: incremental writes are   *)
(* made in order, and after them the last value under every key, whatever  *)
(* the order in which the two kinds were queued.                           *)
(*                                                                         *)
(* Reading and dating the daily reward go straight to the database, in     *)
(* between writes of the worker.  The process may end anywhere.            *)
(***************************************************************************)
EXTENDS Integers, Sequences, FiniteSets, Functions

CONSTANTS
    Calendar,     \* the tables of daily rewards: weekly and monthly
    Mission,      \* the event missions
    Outcome,      \* what a match can bring: experience and micro points, kills,
                  \* wins, contribution to the clan, and whether weapons wear
    MissionTotal, \* eventMissionTotal: the points of a mission that is over
    TopLevel,     \* the last level of the grade table
    TopBattery,   \* a maximum above this is not expanded
    Attempts,     \* SingleWaveAttempts of a row, which the Main server only reads
    TopStage,     \* bound of the model on the stages of a single wave
    MaxDay,       \* bound of the model on the days
    MaxHandled,   \* bound of the model on the packets handled
    MaxQueued     \* bound of the model on the incremental writes waiting

ASSUME ProgressAssumption ==
    /\ MissionTotal \in Nat \ {0} /\ TopLevel \in Nat \ {0} /\ TopBattery \in Nat
    /\ Attempts \in Nat /\ TopStage \in Nat
    /\ MaxDay \in Nat \ {0} /\ MaxHandled \in Nat /\ MaxQueued \in Nat
    /\ Outcome \subseteq [gain : Nat, kills : Nat, won : Nat, clan : Nat, wear : BOOLEAN]

VARIABLES
    online,        \* the account has a session
    mem,           \* the session's copy of the account; empty when there is none
    active,        \* m_eventMissions: points by mission, of those not over
    collected,     \* m_batteryObtainedInMatch
    rewards,       \* the daily rewards the login still has to look at
    dating,        \* the reward queued and not dated yet: <<calendar, day>>, or <<>>
    db,            \* what the database holds
    incremental,   \* m_databaseCallbacksIncremental of the account
    callbacks,     \* m_databaseCallbacks of the account
    pass,          \* who writes the queue: "none", "worker", "logout"
    today,         \* the date
    handled,       \* the packets handled so far
    overtaken,     \* fields whose queued value is older than statistics queued later
    torn           \* rewards the process ended before dating

copyVars == <<online, mem, active, collected, rewards, dating>>
queueVars == <<incremental, callbacks>>
vars == <<copyVars, db, queueVars, pass, today, handled, overtaken, torn>>

\* A function with the values of another one in front.
Over(f, g) == [x \in DOMAIN f \cup DOMAIN g |-> IF x \in DOMAIN f THEN f[x] ELSE g[x]]

\* The columns updatePlayerStats writes; the others of the copy have writes of their own.
Stats == {"level", "exp", "mp", "kills", "wins", "score", "stage", "tutorial",
          "contribution"}
Keyed == {"mp", "level", "exp"}

\* The columns and the copy differ in the level: the copy counts from one.  And
\* the highest stage is read from the column of the attempts, though it is
\* written to its own.
Loaded(user) == [user EXCEPT !.level = @ + 1, !.stage = user.attempts]
\* A fault: the level is written as the copy counts it.
Stored_Fault(copy) == copy
Stored(copy) == [copy EXCEPT !.level = @ - 1]

\* gi_exp: the experience a level asks for.  Level 1 asks for none.
Needed(level) == level - 1

-----------------------------------------------------------------------------
(* Writes.  A write is a record with its kind and what it carries; each    *)
(* takes the database to the one after it.                                 *)

\* updatePlayerStats: many columns, from the copy as it was.
StatsWritten(d, copy) ==
    [d EXCEPT !.user = [f \in DOMAIN @ |-> IF f \in Stats THEN copy[f] ELSE @[f]]]

\* updatePlayerLevel, updatePlayerExperience, updatePlayerCurrencyByType.
SetField(d, f, v) == [d EXCEPT !.user[f] = v]

\* resetKillDeath, resetRecord
CounterReset(d, f) == SetField(d, f, 0)

\* updateBattery
BatteryWritten(d, v) == SetField(d, "battery", v)

\* reduceDurability, updateItemDurability: a match takes a percent of the full
\* durability, whatever was left; only full and less than full are told apart.
WearWritten(d, v) == SetField(d, "worn", v)

\* batteryExpansion reads the row and adds to what it finds.
BatteryExpanded(d) ==
    IF d.user.maxBattery > TopBattery THEN d ELSE [d EXCEPT !.user.maxBattery = @ + 1]

\* updateClanContribution adds to the clan's total.
ContributionAdded(d, more) == [d EXCEPT !.clan = @ + more]

\* savePlayerMissions: the missions of the copy, the others as they are.
PointsSaved(d, all) == [d EXCEPT !.points = Over(all, @)]

\* updatePlayerMissionProgress with eventMissionTotal.
MissionOver(d, m) == [d EXCEPT !.points[m] = MissionTotal]

\* The database after an incremental write.
Applied(d, w) ==
    CASE w.kind = "stats"  -> StatsWritten(d, w.copy)
      [] w.kind = "reset"  -> CounterReset(d, w.field)
      [] w.kind = "battery" -> BatteryWritten(d, w.to)
      [] w.kind = "worn"   -> WearWritten(d, w.to)
      [] w.kind = "expand" -> BatteryExpanded(d)
      [] w.kind = "clan"   -> ContributionAdded(d, w.more)
      [] w.kind = "points" -> PointsSaved(d, w.all)
      [] w.kind = "over"   -> MissionOver(d, w.mission)
      [] w.kind = "gift"   -> [d EXCEPT !.gifts[w.calendar][w.day] = @ + 1]

\* The database after the writes of a queue.
Made(d, ws) ==
    LET made[n \in 0 .. Len(ws)] == IF n = 0 THEN d ELSE Applied(made[n - 1], ws[n])
    IN  made[Len(ws)]

\* What the database will hold once the queue is written.
Drained == [Made(db, incremental) EXCEPT !.user = Over(callbacks, @)]

\* addRepetitiveCallback, for one or more writes of a handler in their order.
Queue(ws) ==
    /\ Len(incremental) + Len(ws) <= MaxQueued
    /\ incremental' = incremental \o ws
    /\ overtaken' = IF \E i \in DOMAIN ws : ws[i].kind = "stats" THEN DOMAIN callbacks
                    ELSE overtaken

\* addCallback, for the fields of a function.
QueueKeyed(values) ==
    /\ callbacks' = Over(values, callbacks)
    /\ overtaken' = overtaken \ DOMAIN values

-----------------------------------------------------------------------------
(* Packets of the session.  Handlers run one at a time, none while the     *)
(* mutex of the queue is held, and the login is one handler.               *)

Handle ==
    /\ online /\ pass = "none" /\ rewards = {} /\ dating = <<>>
    /\ handled < MaxHandled /\ handled' = handled + 1
    /\ UNCHANGED <<online, rewards, dating, db, pass, today, torn>>

\* Experience and level after a match: at most one level is gained.
LevelAfter(level, exp) ==
    IF level < TopLevel /\ exp >= Needed(level + 1) THEN level + 1 ELSE level

\* storeBatteryObtainedInMatch, addBattery.
Charged(copy, more) ==
    IF copy.battery + more >= copy.maxBattery THEN copy.maxBattery ELSE copy.battery + more

\* reduceEquippedItemsDurabilities
Worn(copy) == [copy EXCEPT !.worn = TRUE]

\* The copy after a match: storeEndMatchStats with its battery, and the wear
\* of the weapons.  A level gained adds its reward points.
AfterMatch(o) ==
    LET level == LevelAfter(mem.level, mem.exp + o.gain)
        copy  == [mem EXCEPT !.exp = @ + o.gain, !.level = level,
                             !.mp = @ + o.gain + (level - mem.level),
                             !.kills = @ + o.kills, !.wins = @ + o.won,
                             !.contribution = @ + o.clan,
                             !.battery = Charged(mem, collected)]
    IN  IF o.wear THEN Worn(copy) ELSE copy

\* sendEventMission: a point, for a mission that is active and not over.
WithPoint(points, m) == IF points[m] < MissionTotal THEN [points EXCEPT ![m] = @ + 1] ELSE points

\* storeEndMatchStatsFor and the wear: the writes in the order they are queued.
MatchWrites(o, copy, points) ==
    (IF o.clan > 0 THEN <<[kind |-> "clan", more |-> o.clan]>> ELSE <<>>)
    \o <<[kind |-> "stats", copy |-> Stored(copy)], [kind |-> "battery", to |-> copy.battery]>>
    \o (IF points # active THEN <<[kind |-> "points", all |-> points]>> ELSE <<>>)
    \o (IF o.wear THEN <<[kind |-> "worn", to |-> TRUE]>> ELSE <<>>)

\* handleMatchEnding for one player of the room.  A match too short to count
\* stores nothing.
MatchEnd ==
    /\ Handle
    /\ \E o \in Outcome :
       \E points \in {active} \cup {WithPoint(active, m) : m \in DOMAIN active} :
         /\ mem' = AfterMatch(o)
         /\ active' = points
         /\ collected' = 0
         /\ Queue(MatchWrites(o, mem', points))
    /\ UNCHANGED callbacks

\* handleBattery: battery found in the match, kept aside until it ends.
FindBattery ==
    /\ Handle
    /\ collected' = 1 /\ collected = 0
    /\ UNCHANGED <<mem, active, queueVars, overtaken>>

\* sendBattery: nothing is written when the battery was full.
SendBattery ==
    /\ Handle
    /\ mem' = [mem EXCEPT !.battery = Charged(mem, 1)]
    /\ IF mem'.battery > mem.battery
         THEN Queue(<<[kind |-> "battery", to |-> mem'.battery]>>)
         ELSE UNCHANGED <<incremental, overtaken>>
    /\ UNCHANGED <<active, collected, callbacks>>

\* expandBattery
ExpandBattery ==
    /\ Handle
    /\ mem.maxBattery <= TopBattery
    /\ mem' = [mem EXCEPT !.maxBattery = @ + 1]
    /\ Queue(<<[kind |-> "expand"]>>)
    /\ UNCHANGED <<active, collected, callbacks>>

\* resetKillDeath, resetRecord
Reset(field) ==
    /\ Handle
    /\ mem' = [mem EXCEPT ![field] = 0]
    /\ Queue(<<[kind |-> "reset", field |-> field]>>)
    /\ UNCHANGED <<active, collected, callbacks>>

ResetKillDeath == Reset("kills")
ResetRecord == Reset("wins")

Higher(x, y) == IF x < y THEN y ELSE x

\* updateSingleWaveScore: of score and stage the higher one is kept, and the
\* statistics are stored when one of them rose.
SingleWave ==
    /\ Handle
    /\ \E score \in 0..1, stage \in 0..TopStage :
         /\ mem.score < score \/ mem.stage < stage
         /\ mem' = [mem EXCEPT !.score = Higher(@, score), !.stage = Higher(@, stage)]
    /\ Queue(<<[kind |-> "stats", copy |-> Stored(mem')]>>)
    /\ UNCHANGED <<active, collected, callbacks>>

\* completeTutorial: the statistics with the old micro points, and then the
\* micro points by their key.
CompleteTutorial ==
    /\ Handle
    /\ ~mem.tutorial
    /\ LET done == [mem EXCEPT !.tutorial = TRUE] IN
         /\ mem' = [done EXCEPT !.mp = @ + 1]
         /\ Len(incremental) < MaxQueued
         /\ incremental' = Append(incremental, [kind |-> "stats", copy |-> Stored(done)])
    /\ callbacks' = Over([mp |-> mem'.mp], callbacks)
    /\ overtaken' = DOMAIN callbacks \ {"mp"}
    /\ UNCHANGED <<active, collected>>

\* sendMp, addAchievement, a purchase: the balance is set by its key.
SetMicroPoints ==
    /\ Handle
    /\ \E mp \in {mem.mp + 1, mem.mp - 1} \cap Nat :
         /\ mem' = [mem EXCEPT !.mp = mp]
         /\ QueueKeyed([mp |-> mp])
    /\ UNCHANGED <<active, collected, incremental>>

\* handleItemRepair: the weapons are made whole for micro points.
Repair ==
    /\ Handle
    /\ mem.worn /\ mem.mp > 0
    /\ mem' = [mem EXCEPT !.worn = FALSE, !.mp = @ - 1]
    /\ Len(incremental) < MaxQueued
    /\ incremental' = Append(incremental, [kind |-> "worn", to |-> FALSE])
    /\ QueueKeyed([mp |-> mem'.mp])
    /\ UNCHANGED <<active, collected>>

\* /setlevel: the column gets the number itself, the copy one more, and the
\* experience becomes what that level asks for.
SetLevel ==
    /\ Handle
    /\ \E level \in 0..TopLevel - 1 :
         /\ mem' = [mem EXCEPT !.level = level + 1, !.exp = Needed(level + 1)]
         /\ QueueKeyed([level |-> level, exp |-> Needed(level + 1)])
    /\ UNCHANGED <<active, collected, incremental>>

\* sendEventMissionReward: one point short of the total.  The row is set to the
\* total; the copy keeps its points.
ClaimReward ==
    /\ Handle
    /\ \E m \in DOMAIN active :
         /\ active[m] = MissionTotal - 1
         /\ Queue(<<[kind |-> "over", mission |-> m]>>)
    /\ UNCHANGED <<mem, active, collected, callbacks>>

-----------------------------------------------------------------------------
(* Login and logout. *)

\* The session and its copy are gone.
Gone ==
    /\ online' = FALSE
    /\ mem' = <<>> /\ active' = <<>> /\ collected' = 0 /\ overtaken' = {}

\* getPlayerMissions: the missions that are not over.
PlayerMissions == [m \in {n \in Mission : db.points[n] < MissionTotal} |-> db.points[m]]

\* setEventMissions, during an event.
SetEventMissions(event) == active' = IF event THEN PlayerMissions ELSE <<>>

\* The calendars whose latest reward is not of today (getLatestRewardDayFor).
Due == {c \in Calendar : db.lastDay[c] # today}

Login ==
    /\ ~online /\ pass = "none"
    /\ online' = TRUE
    /\ mem' = Loaded(db.user)
    /\ \E event \in BOOLEAN : SetEventMissions(event)
    /\ collected' = 0
    /\ rewards' = Due
    /\ UNCHANGED <<dating, db, queueVars, pass, today, handled, overtaken, torn>>

\* sendWeeklyReward, sendMonthlyReward: the item is queued ...
QueueReward(c) ==
    /\ c \in rewards /\ dating = <<>> /\ pass = "none"
    /\ rewards' = rewards \ {c}
    /\ dating' = <<c, today>>
    /\ Queue(<<[kind |-> "gift", calendar |-> c, day |-> today]>>)
    /\ UNCHANGED <<online, mem, active, collected, db, callbacks, pass, today, handled, torn>>

\* A fault: the reward is not dated in the database.
DateReward_Fault ==
    /\ dating # <<>>
    /\ dating' = <<>>
    /\ UNCHANGED <<online, mem, active, collected, rewards, db, queueVars, pass, today,
                   handled, overtaken, torn>>

\* ... and then dated, at once and without the mutex (updateLatestRewardDay).
DateReward ==
    /\ dating # <<>>
    /\ db' = [db EXCEPT !.lastDay[dating[1]] = dating[2]]
    /\ dating' = <<>>
    /\ UNCHANGED <<online, mem, active, collected, rewards, queueVars, pass, today,
                   handled, overtaken, torn>>

\* No reward: the inventory is full, or the table has no item for the day.
SkipReward(c) ==
    /\ c \in rewards /\ dating = <<>> /\ pass = "none"
    /\ rewards' = rewards \ {c}
    /\ UNCHANGED <<online, mem, active, collected, dating, db, queueVars, pass, today,
                   handled, overtaken, torn>>

\* removeSession writes the account's queue (persistFor) ...
Logout ==
    /\ online /\ pass = "none" /\ rewards = {} /\ dating = <<>>
    /\ pass' = "logout"
    /\ UNCHANGED <<copyVars, db, queueVars, today, handled, overtaken, torn>>

\* ... the worker that of everybody (persist).
Wake ==
    /\ pass = "none"
    /\ incremental # <<>> \/ callbacks # <<>>
    /\ pass' = "worker"
    /\ UNCHANGED <<copyVars, db, queueVars, today, handled, overtaken, torn>>

\* The next write of the pass: incremental ones first, in order; keyed ones after
\* them, by the number of their key.
WriteNext ==
    /\ pass # "none"
    /\ IF incremental # <<>>
         THEN /\ db' = Applied(db, Head(incremental))
              /\ incremental' = Tail(incremental)
              /\ UNCHANGED callbacks
         ELSE \E f \in DOMAIN callbacks :
                /\ \A g \in DOMAIN callbacks \ {f} :
                     f = "mp" \/ (f = "level" /\ g = "exp")
                /\ db' = SetField(db, f, callbacks[f])
                /\ callbacks' = Restrict(callbacks, DOMAIN callbacks \ {f})
                /\ UNCHANGED incremental
    /\ UNCHANGED <<copyVars, pass, today, handled, overtaken, torn>>

\* The pass is over; after that of a logout the session is gone.
EndPass ==
    /\ pass # "none" /\ incremental = <<>> /\ callbacks = <<>>
    /\ pass' = "none"
    /\ IF pass = "logout" THEN Gone ELSE UNCHANGED <<online, mem, active, collected, overtaken>>
    /\ UNCHANGED <<rewards, dating, db, queueVars, today, handled, torn>>

\* The process ends: the copy and the queue are gone.
Crash ==
    /\ online /\ Gone
    /\ pass' = "none"
    /\ incremental' = <<>> /\ callbacks' = <<>>
    /\ rewards' = {} /\ dating' = <<>>
    /\ torn' = torn \cup ({dating} \ {<<>>})
    /\ UNCHANGED <<db, today, handled>>

NextDay ==
    /\ today < MaxDay
    /\ today' = today + 1
    /\ UNCHANGED <<copyVars, db, queueVars, pass, handled, overtaken, torn>>

-----------------------------------------------------------------------------
NewUser == [level |-> 0, exp |-> 0, mp |-> 0, kills |-> 0, wins |-> 0, score |-> 0,
            stage |-> 0, attempts |-> Attempts, tutorial |-> FALSE, contribution |-> 0, battery |-> 0, maxBattery |-> 1,
            worn |-> FALSE]

Init ==
    /\ db = [user |-> NewUser, points |-> [m \in Mission |-> 0],
             lastDay |-> [c \in Calendar |-> 0],
             gifts |-> [c \in Calendar |-> [d \in 1..MaxDay |-> 0]], clan |-> 0]
    /\ online = FALSE /\ mem = <<>> /\ active = <<>> /\ collected = 0
    /\ rewards = {} /\ dating = <<>>
    /\ incremental = <<>> /\ callbacks = <<>>
    /\ pass = "none" /\ today = 1 /\ handled = 0
    /\ overtaken = {} /\ torn = {}

Next ==
    \/ MatchEnd \/ FindBattery \/ SendBattery \/ ExpandBattery
    \/ ResetKillDeath \/ ResetRecord
    \/ SingleWave \/ CompleteTutorial \/ SetMicroPoints \/ Repair \/ SetLevel \/ ClaimReward
    \/ Login \/ (\E c \in Calendar : QueueReward(c) \/ SkipReward(c)) \/ DateReward
    \/ Logout \/ Wake \/ WriteNext \/ EndPass \/ Crash \/ NextDay

Spec == Init /\ [][Next]_vars

-----------------------------------------------------------------------------
(* Properties *)

\* What the session shows is what the next login will show: once the queue is
\* written, the row has the value of the copy in every field, except those that
\* an older write under a key sets back after the statistics.  The highest stage
\* of a single wave is either that of the row, when statistics were written since
\* the login, or the number of attempts the login read in its place.  A mission
\* whose reward was claimed is over in the database while the copy keeps its points.
RowFollows ==
    online =>
      /\ \A f \in DOMAIN mem \ (overtaken \cup {"stage"}) : Loaded(Drained.user)[f] = mem[f]
      /\ mem.stage \in {Drained.user.stage, Loaded(Drained.user).stage}
      /\ \A m \in DOMAIN active :
           \/ Drained.points[m] = active[m]
           \/ active[m] = MissionTotal - 1 /\ Drained.points[m] = MissionTotal

\* A calendar gives one item a day, however often the account logs in and the
\* process ends; another one only if it ended between the item and the date.
OneGiftADay ==
    \A c \in Calendar, d \in 1..MaxDay :
      Drained.gifts[c][d] <= 1 \/ <<c, d>> \in torn
=============================================================================
