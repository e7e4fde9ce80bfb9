----------------------------- MODULE Accounts ------------------------------
(***************************************************************************)
(* What a session keeps of its account, and how it gets there and back:    *)
(* login (order 68), purchases, sales and deletions of items, eviction on  *)
(* the Auth server's demand, disconnects, and the Scheduler under them.    *)
(*                                                                         *)
(* Handlers run on one thread, one after the other, but the scheduler's    *)
(* worker runs between their steps: a handler is a list of steps, and each *)
(* step is one access to the queue, the database or the session table.     *)
(***************************************************************************)
EXTENDS Scheduler, Sequences

CONSTANTS
    Session,      \* connections
    NoSession,    \* no handler is running
    NoAccount,    \* the account id of a connection that has not logged in (0)
    Credentials,  \* the accounts the client of a connection can log in to
    MaxBalance    \* bound of the model on what an account owns of a currency

ASSUME AccountsAssumption ==
    /\ NoSession \notin Session
    /\ NoAccount \in Account
    /\ Credentials \in [Session -> SUBSET (Account \ {NoAccount})]
    /\ MaxBalance \in Nat
    /\ Value = 0 .. MaxBalance
    /\ "mp" \in Key

VARIABLES
    conn,       \* per connection: where it stands, and its copy of the account
    handler,    \* the handler that runs: its session and the steps it has left
    shared      \* accounts that two open connections have used at once

vars == <<schedVars, conn, handler, shared>>

\* "new": not logged in; "login": order 68 is being handled; "online": in
\* m_sessionsBySessionId; "removed": out of the table, the socket still open.
Stage == {"new", "login", "online", "removed"}

Connection == [stage : Stage, account : Account,
               items : SUBSET Item, balance : [Key -> Value]]

\* What accept makes: a closed connection comes back as a new one.
FreshConnection == [stage |-> "new", account |-> NoAccount, items |-> {},
                    balance |-> [k \in Key |-> 0]]

Step ==
    [do : {"persistFor"}, account : Account]
      \cup [do : {"persisting", "attach", "sendInventory"}]
      \cup [do : {"erase"}, session : Session, to : {"new", "removed"}]
      \cup [do : {"insert", "remove"}, item : Item]
      \cup [do : {"set"}, key : Key, value : Value]

Idle == handler.session = NoSession

TypeOK ==
    /\ SchedTypeOK
    /\ conn \in [Session -> Connection]
    /\ handler \in [session : Session \cup {NoSession}, todo : Seq(Step)]
    /\ shared \subseteq Account

\* Accounts start with no items and as many micro points as the model allows.
Init ==
    /\ SchedInit
    /\ \A a \in Account : stored[a] = {} /\ \A k \in Key : row[a][k] = MaxBalance
    /\ conn = [s \in Session |-> FreshConnection]
    /\ handler = [session |-> NoSession, todo |-> <<>>]
    /\ shared = {}

Online(a) == {s \in Session : conn[s].stage = "online" /\ conn[s].account = a}

Starts(s, todo) == Idle /\ handler' = [session |-> s, todo |-> todo]

-----------------------------------------------------------------------------
(* The handlers. *)

\* Seeded fault: persistNow is not called.
RemoveSession_NotPersisted(s, to) == <<[do |-> "erase", session |-> s, to |-> to]>>

\* removeSession: the room and party are left (module Rooms), the account's
\* queue is written and the session leaves the table.
RemoveSession(s, to) ==
    <<[do |-> "persistFor", account |-> conn[s].account],
      [do |-> "erase", session |-> s, to |-> to]>>

\* Seeded fault: the session that is online already is left alone.
TakenOver_Ignored(a) == <<>>

\* A session of the account that is in the table is closed, and a socket that
\* is closed removes its session.
TakenOver(a) ==
    IF Online(a) = {} THEN <<>>
    ELSE RemoveSession(CHOOSE t \in Online(a) : TRUE, "new")

\* Order 68: the row is read (handleAuthorization) before the account's other
\* session is closed (handleAccountInformation), the items after (sendInventory).
Login(s, a) ==
    /\ conn[s].stage = "new"
    /\ a \in Credentials[s]
    /\ Starts(s, TakenOver(a) \o <<[do |-> "attach"], [do |-> "sendInventory"]>>)
    /\ conn' = [conn EXCEPT ![s] = [stage |-> "login", account |-> a, items |-> {},
                                    balance |-> row[a]]]
    /\ shared' = IF \E t \in Session : conn[t].account = a
                 THEN shared \cup {a} ELSE shared
    /\ UNCHANGED schedVars

\* The client's packets are handled as long as its socket is open.
Active(s) == conn[s].stage \in {"online", "removed"}

\* A connection that is out of the table still changes its account.
Touched(s) ==
    IF conn[s].stage = "removed" THEN shared \cup {conn[s].account} ELSE shared

\* Seeded fault: the price is not compared with the balance.
Buy_OnCredit(s, i) ==
    /\ Active(s)
    /\ i \notin conn[s].items
    /\ Starts(s, <<[do |-> "insert", item |-> i],
                   [do |-> "set", key |-> "mp", value |-> conn[s].balance["mp"] - 1]>>)
    /\ shared' = Touched(s)
    /\ UNCHANGED <<schedVars, conn>>

\* handleBoughtItem: the item is added and queued (addItems), then the micro
\* points are set.  The rock totens, set after them in the same way, and the
\* log entry of the purchase are left out.  A session numbers its items
\* upwards; here any number it does not hold can come, one it deleted included.
Buy(s, i) ==
    /\ Active(s)
    /\ i \notin conn[s].items
    /\ conn[s].balance["mp"] >= 1
    /\ Starts(s, <<[do |-> "insert", item |-> i],
                   [do |-> "set", key |-> "mp", value |-> conn[s].balance["mp"] - 1]>>)
    /\ shared' = Touched(s)
    /\ UNCHANGED <<schedVars, conn>>

\* refundItem: the item is removed, then the micro points are set to what comes of
\* the amount the client names, unless that is refused.
Sell(s, i) ==
    /\ Active(s)
    /\ i \in conn[s].items
    /\ \/ Starts(s, <<[do |-> "remove", item |-> i]>>)
       \/ \E v \in Value : Starts(s, <<[do |-> "remove", item |-> i],
                                       [do |-> "set", key |-> "mp", value |-> v]>>)
    /\ shared' = Touched(s)
    /\ UNCHANGED <<schedVars, conn>>

\* handleItemDelete, of one item; the log entry queued before it is left out.
Delete(s, i) ==
    /\ Active(s)
    /\ i \in conn[s].items
    /\ Starts(s, <<[do |-> "remove", item |-> i]>>)
    /\ shared' = Touched(s)
    /\ UNCHANGED <<schedVars, conn>>

\* disconnectIfOnline, the Auth server's demand: the session is removed and
\* its client told to go, but its socket stays open.
Evict(s) ==
    /\ conn[s].stage = "online"
    /\ Starts(s, RemoveSession(s, "removed"))
    /\ UNCHANGED <<schedVars, conn, shared>>

\* closeSocket: the callback removes the session.
Disconnect(s) ==
    /\ conn[s].stage = "online"
    /\ Starts(s, RemoveSession(s, "new"))
    /\ UNCHANGED <<schedVars, conn, shared>>

\* closeSocket of a session that is out of the table already: removeSession
\* does not find it and returns.
DisconnectRemoved(s) ==
    /\ Idle
    /\ conn[s].stage = "removed"
    /\ conn' = [conn EXCEPT ![s] = FreshConnection]
    /\ UNCHANGED <<schedVars, handler, shared>>

-----------------------------------------------------------------------------
(* The steps of a handler. *)

Self == handler.session
Step1 == Head(handler.todo)

\* The handler goes on, or returns.
Advance ==
    handler' = IF Len(handler.todo) = 1 THEN [session |-> NoSession, todo |-> <<>>]
               ELSE [handler EXCEPT !.todo = Tail(@)]

\* persistFor takes the mutex ...
StepPersistFor ==
    /\ Step1.do = "persistFor"
    /\ BeginPass("handler", {Step1.account})
    /\ handler' = [handler EXCEPT !.todo[1] = [do |-> "persisting"]]
    /\ UNCHANGED <<conn, shared>>

\* ... and gives it back when the account's queue is written.
StepPersisted ==
    /\ Step1.do = "persisting"
    /\ EndPass
    /\ Advance
    /\ UNCHANGED <<conn, shared>>

\* The session leaves the table.
StepErase ==
    /\ Step1.do = "erase"
    /\ conn' = [conn EXCEPT ![Step1.session] =
                   IF Step1.to = "new" THEN FreshConnection
                   ELSE [@ EXCEPT !.stage = Step1.to]]
    /\ Advance
    /\ UNCHANGED <<schedVars, shared>>

\* setAccountInfo of the row that was read, and addSession.
StepAttach ==
    /\ Step1.do = "attach"
    /\ conn' = [conn EXCEPT ![Self].stage = "online"]
    /\ Advance
    /\ UNCHANGED <<schedVars, shared>>

\* sendInventory reads the items.
StepInventory ==
    /\ Step1.do = "sendInventory"
    /\ conn' = [conn EXCEPT ![Self].items = stored[conn[Self].account]]
    /\ Advance
    /\ UNCHANGED <<schedVars, shared>>

\* An item enters or leaves the inventory, and the write is queued.
StepItem ==
    /\ Step1.do \in {"insert", "remove"}
    /\ LET w == [kind |-> Step1.do, item |-> Step1.item]
       IN  /\ AddIncremental(conn[Self].account, w)
           /\ conn' = [conn EXCEPT ![Self].items = Applied(@, w)]
    /\ Advance
    /\ UNCHANGED shared

\* A currency is set, and the write is queued under its key.
StepSet ==
    /\ Step1.do = "set"
    /\ AddKeyed(conn[Self].account, Step1.key, Step1.value)
    /\ conn' = [conn EXCEPT ![Self].balance[Step1.key] = Step1.value]
    /\ Advance
    /\ UNCHANGED shared

HandlerStep ==
    /\ ~Idle
    /\ \/ StepPersistFor \/ StepPersisted \/ StepErase \/ StepAttach
       \/ StepInventory \/ StepItem \/ StepSet

-----------------------------------------------------------------------------
(* The scheduler's worker, and the end of the process. *)

Wake == WorkerWakes /\ UNCHANGED <<conn, handler, shared>>

\* The thread that made the pass makes its writes.
WriteBack == MakeWrite /\ UNCHANGED <<conn, handler, shared>>

WorkerSleeps == mutex = "worker" /\ EndPass /\ UNCHANGED <<conn, handler, shared>>

Restart ==
    /\ Crash
    /\ conn' = [s \in Session |-> FreshConnection]
    /\ handler' = [session |-> NoSession, todo |-> <<>>]
    /\ shared' = {}

Next ==
    \/ \E s \in Session, a \in Account : Login(s, a)
    \/ \E s \in Session, i \in Item : Buy(s, i) \/ Sell(s, i) \/ Delete(s, i)
    \/ \E s \in Session : Evict(s) \/ Disconnect(s) \/ DisconnectRemoved(s)
    \/ HandlerStep
    \/ Wake
    \/ WriteBack
    \/ WorkerSleeps
    \/ Restart

\* The threads run.  The worker gets the mutex in the end although handlers
\* take it again and again: they hold it for moments, between packets.
Fairness ==
    /\ WF_vars(HandlerStep)
    /\ SF_vars(Wake)
    /\ WF_vars(WriteBack)
    /\ WF_vars(WorkerSleeps)

Spec == Init /\ [][Next]_vars /\ Fairness

-----------------------------------------------------------------------------
(* Properties. *)

\* At most one session of an account is in the table, so that looking it up by
\* its account (getSessionByAccountId) finds the one a login has to close.
OneInTable == \A a \in Account : Cardinality(Online(a)) <= 1

\* An account without a session in the table has nothing queued, so a login
\* reads what the last session left: removeSession writes the queue before it
\* erases the session.  Only a connection that is out of the table can break it.
OfflineIsWritten ==
    Idle => \A a \in Account \ shared :
        Online(a) = {} => DOMAIN incremental[a] = {} /\ DOMAIN callbacks[a] = {}

\* The session's copy of its account is what the database holds or will hold,
\* in spite of the reads of a login that take no mutex and see a pass of the
\* worker half done.  Excepted are accounts the database refused a write of,
\* and those two open connections have used at once.
CopyIsCurrent ==
    Idle => \A s \in Session :
        LET a == conn[s].account
        IN  conn[s].stage = "online" /\ a \notin lost \cup shared =>
              /\ conn[s].items = dueItems[a]
              /\ conn[s].balance = dueRow[a]

\* A crash never leaves an account charged for an item it did not get: while
\* a bought item is not in the database, neither is what it cost.
NotChargedFirst ==
    Idle => \A a \in Account :
        (\E n \in DOMAIN incremental[a] : incremental[a][n].kind = "insert")
          => "mp" \in DOMAIN callbacks[a]
=============================================================================
