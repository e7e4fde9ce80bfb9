----------------------------- MODULE Scheduler -----------------------------
(***************************************************************************)
(* MainScheduler: writes to the database are queued by the packet handlers *)
(* and made by a worker thread that wakes every few seconds, or by the     *)
(* handlers' thread for one account (persistFor).  m_callbacksMutex covers *)
(* queueing, a whole pass of the worker and a whole persistFor; reads      *)
(* (immediatePersist) do not take it, so they see a pass half done.        *)
(*                                                                         *)
(* A queued write is one of two kinds.  An incremental one gets a fresh    *)
(* number and is made in that order; here it inserts or removes one item.  *)
(* A keyed one replaces the one queued under the same key; here it sets    *)
(* one field of the account's row.                                         *)
(*                                                                         *)
(* The destructor, which stops the worker, is not modelled: the threads of *)
(* main() never return, and the process ends in Crash.                     *)
(***************************************************************************)
EXTENDS Integers, FiniteSets

CONSTANTS
    Account,     \* account ids
    Item,        \* item numbers
    Key,         \* the differentiation keys that name a field of the account
    Value,       \* the values such a field can have
    MaxQueued    \* bound of the model on m_incrementalDifferentiationKey

ASSUME SchedulerAssumption == MaxQueued \in Nat

VARIABLES
    stored,        \* the items in the database, by account
    row,           \* the account's row in the database
    incremental,   \* m_databaseCallbacksIncremental
    callbacks,     \* m_databaseCallbacks
    counter,       \* m_incrementalDifferentiationKey
    mutex,         \* m_callbacksMutex: "free", or who makes a pass: "worker", "handler"
    scope,         \* the accounts the pass has to write
    lost,          \* accounts with a write the database refused
    dueItems,      \* what the items would be if every queued write had been made
    dueRow         \* and the row

queueVars == <<incremental, callbacks, counter>>
schedVars == <<stored, row, queueVars, mutex, scope, lost, dueItems, dueRow>>

Write == [kind : {"insert", "remove"}, item : Item]

\* A std::map: a function on the keys in use.
IsMap(f, D, R) == DOMAIN f \subseteq D /\ f \in [DOMAIN f -> R]

SchedTypeOK ==
    /\ stored \in [Account -> SUBSET Item]
    /\ row \in [Account -> [Key -> Value]]
    /\ incremental = [a \in Account |-> incremental[a]]
    /\ callbacks = [a \in Account |-> callbacks[a]]
    /\ \A a \in Account : IsMap(incremental[a], Nat \ {0}, Write)
    /\ \A a \in Account : IsMap(callbacks[a], Key, Value)
    /\ counter \in Nat
    /\ mutex \in {"free", "worker", "handler"}
    /\ scope \subseteq Account
    /\ lost \subseteq Account
    /\ dueItems \in [Account -> SUBSET Item]
    /\ dueRow \in [Account -> [Key -> Value]]

SchedInit ==
    /\ stored \in [Account -> SUBSET Item]
    /\ row \in [Account -> [Key -> Value]]
    /\ incremental = [a \in Account |-> <<>>]
    /\ callbacks = [a \in Account |-> <<>>]
    /\ counter = 0
    /\ mutex = "free"
    /\ scope = {}
    /\ lost = {}
    /\ dueItems = stored
    /\ dueRow = row

\* The items a write leaves.
Applied(items, w) ==
    IF w.kind = "insert" THEN items \cup {w.item} ELSE items \ {w.item}

\* map[key] = value.
Put(f, k, v) == [j \in DOMAIN f \cup {k} |-> IF j = k THEN v ELSE f[j]]

\* map.erase(key).
Erased(f, k) == [j \in DOMAIN f \ {k} |-> f[j]]

-----------------------------------------------------------------------------
(* The handlers' thread queues a write. *)

\* addRepetitiveCallback: one counter numbers the writes of all accounts.
AddIncremental(a, w) ==
    /\ mutex = "free"
    /\ counter < MaxQueued
    /\ counter' = counter + 1
    /\ incremental' = [incremental EXCEPT ![a] = Put(@, counter + 1, w)]
    /\ dueItems' = [dueItems EXCEPT ![a] = Applied(@, w)]
    /\ UNCHANGED <<stored, row, callbacks, mutex, scope, lost, dueRow>>

\* addCallback: the latest value queued under a key is the one written.
AddKeyed(a, k, v) ==
    /\ mutex = "free"
    /\ callbacks' = [callbacks EXCEPT ![a] = Put(@, k, v)]
    /\ dueRow' = [dueRow EXCEPT ![a][k] = v]
    /\ UNCHANGED <<stored, row, incremental, counter, mutex, scope, lost, dueItems>>

-----------------------------------------------------------------------------
(* A pass: persist() of the worker, persistFor(account) of a handler. The  *)
(* code clears the maps at the end of the pass; here a write leaves its map *)
(* when it is made, which nobody can tell while the mutex is held. Accounts *)
(* are visited in the order of an unordered_map, which is any order.        *)

BeginPass(who, accounts) ==
    /\ mutex = "free"
    /\ mutex' = who
    /\ scope' = accounts
    /\ UNCHANGED <<stored, row, queueVars, lost, dueItems, dueRow>>

\* The database refuses a write: the exception is logged and the write dropped.
Refused(a) ==
    /\ lost' = lost \cup {a}
    /\ UNCHANGED <<stored, row>>

\* The account's oldest incremental write is made.
MakeIncremental(a) ==
    /\ mutex # "free"
    /\ a \in scope
    /\ \E n \in DOMAIN incremental[a] :
         /\ \A m \in DOMAIN incremental[a] : n <= m
         /\ incremental' = [incremental EXCEPT ![a] = Erased(@, n)]
         /\ \/ /\ stored' = [stored EXCEPT ![a] = Applied(@, incremental[a][n])]
               /\ UNCHANGED <<row, lost>>
            \/ Refused(a)
    /\ UNCHANGED <<callbacks, counter, mutex, scope, dueItems, dueRow>>

\* Seeded fault: keyed writes do not wait for the incremental ones.
IncrementalDone_Always == TRUE

\* Keyed writes come after every incremental one of the pass.
IncrementalDone == \A a \in scope : DOMAIN incremental[a] = {}

\* A keyed write is made.
MakeKeyed(a) ==
    /\ mutex # "free"
    /\ a \in scope
    /\ IncrementalDone
    /\ \E k \in DOMAIN callbacks[a] :
         /\ callbacks' = [callbacks EXCEPT ![a] = Erased(@, k)]
         /\ \/ /\ row' = [row EXCEPT ![a][k] = callbacks[a][k]]
               /\ UNCHANGED <<stored, lost>>
            \/ Refused(a)
    /\ UNCHANGED <<incremental, counter, mutex, scope, dueItems, dueRow>>

\* Seeded fault: the pass ends when the incremental writes are made.
PassDone_Early == IncrementalDone

PassDone == IncrementalDone /\ \A a \in scope : DOMAIN callbacks[a] = {}

\* Seeded fault: persistFor, too, starts the numbers again.
CounterAfter_Always(who) == 0

\* persist() starts the numbers again, persistFor does not.
CounterAfter(who) == IF who = "worker" THEN 0 ELSE counter

EndPass ==
    /\ mutex # "free"
    /\ PassDone
    /\ counter' = CounterAfter(mutex)
    /\ mutex' = "free"
    /\ scope' = {}
    /\ UNCHANGED <<stored, row, incremental, callbacks, lost, dueItems, dueRow>>

-----------------------------------------------------------------------------
\* The process ends, in the middle of anything, and starts again: what was
\* queued is forgotten, what the database holds is the truth.
Crash ==
    /\ incremental' = [a \in Account |-> <<>>]
    /\ callbacks' = [a \in Account |-> <<>>]
    /\ counter' = 0
    /\ mutex' = "free"
    /\ scope' = {}
    /\ lost' = {}
    /\ dueItems' = stored
    /\ dueRow' = row
    /\ UNCHANGED <<stored, row>>

\* Seeded fault: the worker looks at the incremental writes only.
WorkerWakes_NotForKeyed == counter # 0 /\ BeginPass("worker", Account)

\* schedulerLoop: a pass with nothing queued and no number to reset is no step.
WorkerWakes ==
    /\ counter # 0 \/ \E a \in Account : DOMAIN callbacks[a] # {}
    /\ BeginPass("worker", Account)

MakeWrite == \E a \in Account : MakeIncremental(a) \/ MakeKeyed(a)

SchedNext ==
    \/ \E a \in Account, w \in Write : AddIncremental(a, w)
    \/ \E a \in Account, k \in Key, v \in Value : AddKeyed(a, k, v)
    \/ WorkerWakes
    \/ \E a \in Account : BeginPass("handler", {a})
    \/ MakeWrite
    \/ EndPass
    \/ Crash

SchedSpec == SchedInit /\ [][SchedNext]_schedVars

-----------------------------------------------------------------------------
(* Properties. *)

\* The item is there once the queue q is written to a database that holds
\* these items: the last write about it inserts it, or none is about it.
HoldsAfter(items, q, i) ==
    \/ i \in items /\ \A n \in DOMAIN q : q[n].item # i
    \/ \E n \in DOMAIN q :
         /\ q[n] = [kind |-> "insert", item |-> i]
         /\ \A m \in DOMAIN q : m > n => q[m].item # i

WillRead(a, k) ==
    IF k \in DOMAIN callbacks[a] THEN callbacks[a][k] ELSE row[a][k]

\* The database and the queue add up to what was asked for the account.
AddsUp(a) ==
    /\ \A i \in Item : i \in dueItems[a] <=> HoldsAfter(stored[a], incremental[a], i)
    /\ \A k \in Key : dueRow[a][k] = WillRead(a, k)

\* No queued write is lost, made twice, made out of order or overtaken by an
\* older one, though one counter numbers the writes of every account and
\* persist() resets it while persistFor leaves other accounts' writes queued.
\* Excepted are the accounts the database refused a write of.
NoWriteLost == \A a \in Account \ lost : AddsUp(a)

Behind(a) == a \notin lost /\ (stored[a] # dueItems[a] \/ row[a] # dueRow[a])

\* Again and again the database is level with all that was asked for: no
\* write waits in the queue for ever, of whichever account and kind.
CatchesUp == []<>(\A a \in Account : ~Behind(a))
=============================================================================
