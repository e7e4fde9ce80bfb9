--------------------------- MODULE AccountsProof ---------------------------
(***************************************************************************)
(* Theorems about Accounts, for any connections, accounts, items and       *)
(* fields: its variables keep their types; every step of it is a step of   *)
(* Scheduler, and so no write its handlers queue is lost; and at every     *)
(* moment between two handlers a session's copies are the account's.       *)
(***************************************************************************)
EXTENDS Accounts, SequenceTheorems, FiniteSetTheorems, TLAPS

-----------------------------------------------------------------------------
(* Scheduler, for every set of accounts, items, keys and values.           *)

\* A number handed out is larger than every number still queued, in any
\* account's map.  persist() may start again from 0 because it wrote them all.
Numbered ==
    /\ \A a \in Account : \A n \in DOMAIN incremental[a] : n <= counter
    /\ mutex = "worker" => scope = Account

\* What a map is after Put and after Erased.
LEMMA PutMap ==
    ASSUME NEW D, NEW R, NEW f, IsMap(f, D, R), NEW k \in D, NEW v \in R
    PROVE  /\ IsMap(Put(f, k, v), D, R)
           /\ DOMAIN Put(f, k, v) = DOMAIN f \cup {k}
           /\ Put(f, k, v)[k] = v
           /\ \A j \in DOMAIN f \ {k} : Put(f, k, v)[j] = f[j]
BY DEF IsMap, Put

LEMMA ErasedMap ==
    ASSUME NEW D, NEW R, NEW f, IsMap(f, D, R), NEW k
    PROVE  /\ IsMap(Erased(f, k), D, R)
           /\ DOMAIN Erased(f, k) = DOMAIN f \ {k}
           /\ \A j \in DOMAIN f \ {k} : Erased(f, k)[j] = f[j]
BY DEF IsMap, Erased

LEMMA EmptyMap ==
    ASSUME NEW D, NEW R
    PROVE  IsMap(<<>>, D, R) /\ DOMAIN <<>> = {}
BY DEF IsMap

LEMMA AppliedType ==
    ASSUME NEW items \in SUBSET Item, NEW w \in Write
    PROVE  Applied(items, w) \in SUBSET Item
BY DEF Applied, Write

-----------------------------------------------------------------------------
LEMMA InitType == SchedInit => SchedTypeOK
BY EmptyMap DEF SchedInit, SchedTypeOK

LEMMA NextType == SchedTypeOK /\ [SchedNext]_schedVars => SchedTypeOK'
<1> SUFFICES ASSUME SchedTypeOK, [SchedNext]_schedVars PROVE SchedTypeOK'
    OBVIOUS
<1> USE DEF SchedTypeOK
<1>1. ASSUME NEW a \in Account, NEW w \in Write, AddIncremental(a, w)
      PROVE  SchedTypeOK'
  <2>1. counter + 1 \in Nat \ {0}
        OBVIOUS
  <2>2. IsMap(Put(incremental[a], counter + 1, w), Nat \ {0}, Write)
        BY <2>1, PutMap
  <2>3. \A b \in Account : IsMap(incremental'[b], Nat \ {0}, Write)
        BY <1>1, <2>2 DEF AddIncremental
  <2>4. dueItems' \in [Account -> SUBSET Item]
        BY <1>1, AppliedType DEF AddIncremental
  <2> QED BY <1>1, <2>1, <2>3, <2>4 DEF AddIncremental
<1>2. ASSUME NEW a \in Account, NEW k \in Key, NEW v \in Value, AddKeyed(a, k, v)
      PROVE  SchedTypeOK'
  <2>1. IsMap(Put(callbacks[a], k, v), Key, Value)
        BY PutMap
  <2>2. \A b \in Account : IsMap(callbacks'[b], Key, Value)
        BY <1>2, <2>1 DEF AddKeyed
  <2>3. dueRow' \in [Account -> [Key -> Value]]
        BY <1>2 DEF AddKeyed
  <2> QED BY <1>2, <2>2, <2>3 DEF AddKeyed
<1>3. ASSUME NEW who \in {"worker", "handler"}, NEW accounts \in SUBSET Account,
             BeginPass(who, accounts)
      PROVE  SchedTypeOK'
      BY <1>3 DEF BeginPass, queueVars
<1>4. ASSUME NEW a \in Account, MakeIncremental(a)
      PROVE  SchedTypeOK'
  <2>1. PICK n \in DOMAIN incremental[a] :
          /\ incremental' = [incremental EXCEPT ![a] = Erased(@, n)]
          /\ \/ /\ stored' = [stored EXCEPT ![a] = Applied(@, incremental[a][n])]
                /\ UNCHANGED <<row, lost>>
             \/ Refused(a)
        BY <1>4 DEF MakeIncremental
  <2>2. IsMap(Erased(incremental[a], n), Nat \ {0}, Write)
        BY ErasedMap
  <2>3. \A b \in Account : IsMap(incremental'[b], Nat \ {0}, Write)
        BY <2>1, <2>2
  <2>4. incremental[a][n] \in Write
        BY DEF IsMap
  <2>5. Applied(stored[a], incremental[a][n]) \in SUBSET Item
        BY <2>4, AppliedType
  <2>7. stored' \in [Account -> SUBSET Item]
        BY <2>1, <2>5 DEF Refused
  <2>6. lost' \subseteq Account /\ row' = row
        BY <2>1 DEF Refused
  <2> QED BY <1>4, <2>1, <2>3, <2>6, <2>7 DEF MakeIncremental
<1>5. ASSUME NEW a \in Account, MakeKeyed(a)
      PROVE  SchedTypeOK'
  <2>1. PICK k \in DOMAIN callbacks[a] :
          /\ callbacks' = [callbacks EXCEPT ![a] = Erased(@, k)]
          /\ \/ /\ row' = [row EXCEPT ![a][k] = callbacks[a][k]]
                /\ UNCHANGED <<stored, lost>>
             \/ Refused(a)
        BY <1>5 DEF MakeKeyed
  <2>2. IsMap(Erased(callbacks[a], k), Key, Value)
        BY ErasedMap
  <2>3. \A b \in Account : IsMap(callbacks'[b], Key, Value)
        BY <2>1, <2>2
  <2>4. callbacks[a][k] \in Value /\ k \in Key
        BY DEF IsMap
  <2>7. [row[a] EXCEPT ![k] = callbacks[a][k]] \in [Key -> Value]
        BY <2>4
  <2>5. row' \in [Account -> [Key -> Value]]
        BY <2>1, <2>7 DEF Refused
  <2>6. lost' \subseteq Account /\ stored' = stored
        BY <2>1 DEF Refused
  <2> QED BY <1>5, <2>3, <2>5, <2>6 DEF MakeKeyed
<1>6. CASE EndPass
      BY <1>6 DEF EndPass, CounterAfter
<1>7. CASE Crash
      BY <1>7, EmptyMap DEF Crash
<1>8. CASE UNCHANGED schedVars
      BY <1>8 DEF schedVars, queueVars
<1> QED BY <1>1, <1>2, <1>3, <1>4, <1>5, <1>6, <1>7, <1>8
        DEF SchedNext, MakeWrite, WorkerWakes

\* The scheduler's maps, its counter and the database keep their types: no
\* write is queued under the number 0 or a field that does not exist.
THEOREM QueueTypeCorrect == SchedSpec => []SchedTypeOK
BY InitType, NextType, PTL DEF SchedSpec

-----------------------------------------------------------------------------
(* No write is lost. *)

\* Queueing a write behind all the others does to the outcome what the write
\* does to the items.
LEMMA QueuedLast ==
    ASSUME NEW items \in SUBSET Item, NEW q, IsMap(q, Nat \ {0}, Write),
           NEW c \in Nat \ {0}, \A n \in DOMAIN q : n < c,
           NEW w \in Write, NEW i \in Item, NEW due \in SUBSET Item,
           i \in due <=> HoldsAfter(items, q, i)
    PROVE  i \in Applied(due, w) <=> HoldsAfter(items, Put(q, c, w), i)
<1> DEFINE p == Put(q, c, w)
<1>1. /\ DOMAIN p = DOMAIN q \cup {c}
      /\ p[c] = w
      /\ \A n \in DOMAIN q : p[n] = q[n]
      BY DEF Put
<1>2. DOMAIN q \subseteq Nat /\ \A n \in DOMAIN q : q[n] \in Write
      BY DEF IsMap
<1> HIDE DEF p
<1>3. CASE w.item # i
  <2>1. i \in Applied(due, w) <=> i \in due
        BY <1>3 DEF Applied
  <2>2. HoldsAfter(items, p, i) <=> HoldsAfter(items, q, i)
        BY <1>1, <1>2, <1>3 DEF HoldsAfter, Write
  <2> QED BY <2>1, <2>2 DEF p
<1>4. CASE w.item = i /\ w.kind = "insert"
  <2>1. i \in Applied(due, w)
        BY <1>4 DEF Applied
  <2>2. w = [kind |-> "insert", item |-> i]
        BY <1>4 DEF Write
  <2>3. HoldsAfter(items, p, i)
        BY <1>1, <1>2, <2>2 DEF HoldsAfter
  <2> QED BY <2>1, <2>3 DEF p
<1>5. CASE w.item = i /\ w.kind = "remove"
  <2>1. i \notin Applied(due, w)
        BY <1>5 DEF Applied
  <2>2. ~HoldsAfter(items, p, i)
        BY <1>1, <1>2, <1>5 DEF HoldsAfter
  <2> QED BY <2>1, <2>2 DEF p
<1> QED BY <1>3, <1>4, <1>5 DEF Write

\* Making the first write of the queue does not change the outcome.
LEMMA MadeFirst ==
    ASSUME NEW items \in SUBSET Item, NEW q, IsMap(q, Nat \ {0}, Write),
           NEW n \in DOMAIN q, \A m \in DOMAIN q : n <= m, NEW i \in Item
    PROVE  HoldsAfter(Applied(items, q[n]), Erased(q, n), i)
             <=> HoldsAfter(items, q, i)
<1> DEFINE e == Erased(q, n)
<1>1. /\ DOMAIN e = DOMAIN q \ {n}
      /\ \A m \in DOMAIN e : e[m] = q[m]
      BY DEF Erased
<1>2. DOMAIN q \subseteq Nat /\ \A m \in DOMAIN q : q[m] \in Write
      BY DEF IsMap
<1> HIDE DEF e
<1>3. \A m \in DOMAIN e : m > n
      BY <1>1, <1>2
<1>4. CASE q[n].item # i
      BY <1>1, <1>2, <1>3, <1>4 DEF HoldsAfter, Applied, Write, e
<1>5. CASE q[n].item = i /\ q[n].kind = "insert"
  <2>1. q[n] = [kind |-> "insert", item |-> i]
        BY <1>2, <1>5 DEF Write
  <2> QED BY <1>1, <1>2, <1>3, <1>5, <2>1 DEF HoldsAfter, Applied, e
<1>6. CASE q[n].item = i /\ q[n].kind = "remove"
      BY <1>1, <1>2, <1>3, <1>6 DEF HoldsAfter, Applied, e
<1> QED BY <1>2, <1>4, <1>5, <1>6 DEF Write


\* Numbered and NoWriteLost are kept together: a write is the last of its
\* queue because its number is larger than those queued.
SchedIInv == SchedTypeOK /\ Numbered /\ NoWriteLost

LEMMA InitIInv == SchedInit => SchedIInv
<1> SUFFICES ASSUME SchedInit PROVE SchedIInv
    OBVIOUS
<1>1. \A a \in Account : DOMAIN incremental[a] = {} /\ DOMAIN callbacks[a] = {}
      BY DEF SchedInit
<1>2. NoWriteLost
      BY <1>1 DEF SchedInit, NoWriteLost, AddsUp, HoldsAfter, WillRead
<1> QED BY <1>1, <1>2, InitType DEF SchedIInv, Numbered, SchedInit

LEMMA NextIInv == SchedIInv /\ [SchedNext]_schedVars => SchedIInv'
<1> SUFFICES ASSUME SchedIInv, [SchedNext]_schedVars PROVE SchedIInv'
    OBVIOUS
<1>0. SchedTypeOK /\ SchedTypeOK' /\ Numbered /\ NoWriteLost
      BY NextType DEF SchedIInv
<1>t. /\ \A b \in Account : /\ IsMap(incremental[b], Nat \ {0}, Write)
                             /\ IsMap(callbacks[b], Key, Value)
                             /\ DOMAIN incremental[b] \subseteq Nat
                             /\ stored[b] \in SUBSET Item
                             /\ dueItems[b] \in SUBSET Item
      /\ counter \in Nat
      BY <1>0 DEF SchedTypeOK, IsMap
<1>s. ASSUME NEW b \in Account, AddsUp(b), dueItems'[b] = dueItems[b],
             dueRow'[b] = dueRow[b], stored'[b] = stored[b], row'[b] = row[b],
             incremental'[b] = incremental[b], callbacks'[b] = callbacks[b]
      PROVE  AddsUp(b)'
      BY <1>s DEF AddsUp, WillRead
<1>1. ASSUME NEW a \in Account, NEW w \in Write, AddIncremental(a, w)
      PROVE  Numbered' /\ NoWriteLost'
  <2>1. /\ incremental' = [incremental EXCEPT ![a] = Put(@, counter + 1, w)]
        /\ counter' = counter + 1
        /\ dueItems' = [dueItems EXCEPT ![a] = Applied(@, w)]
        /\ UNCHANGED <<stored, row, callbacks, mutex, scope, lost, dueRow>>
        BY <1>1 DEF AddIncremental
  <2>2. /\ incremental'[a] = Put(incremental[a], counter + 1, w)
        /\ dueItems'[a] = Applied(dueItems[a], w)
        /\ \A b \in Account \ {a} : /\ incremental'[b] = incremental[b]
                                    /\ dueItems'[b] = dueItems[b]
        BY <1>0, <2>1 DEF SchedTypeOK
  <2>3. DOMAIN incremental'[a] = DOMAIN incremental[a] \cup {counter + 1}
        BY <2>2 DEF Put
  <2>4. Numbered'
        BY <1>0, <1>t, <2>1, <2>2, <2>3 DEF Numbered
  <2>5. ASSUME NEW i \in Item, a \notin lost
        PROVE  i \in dueItems'[a] <=> HoldsAfter(stored[a], incremental'[a], i)
    <3>1. i \in dueItems[a] <=> HoldsAfter(stored[a], incremental[a], i)
          BY <1>0, <2>5 DEF NoWriteLost, AddsUp
    <3>2. /\ counter + 1 \in Nat \ {0}
          /\ \A n \in DOMAIN incremental[a] : n < counter + 1
          BY <1>0, <1>t DEF Numbered
    <3>3. i \in Applied(dueItems[a], w)
            <=> HoldsAfter(stored[a], Put(incremental[a], counter + 1, w), i)
          BY <1>t, <3>1, <3>2, QueuedLast
    <3> QED BY <2>2, <3>3
  <2>6. a \notin lost => AddsUp(a)'
        BY <1>0, <2>1, <2>5 DEF NoWriteLost, AddsUp, WillRead
  <2>7. NoWriteLost'
        BY <1>0, <1>s, <2>1, <2>2, <2>6 DEF NoWriteLost
  <2> QED BY <2>4, <2>7
<1>2. ASSUME NEW a \in Account, NEW k \in Key, NEW v \in Value, AddKeyed(a, k, v)
      PROVE  Numbered' /\ NoWriteLost'
  <2>1. /\ callbacks' = [callbacks EXCEPT ![a] = Put(@, k, v)]
        /\ dueRow' = [dueRow EXCEPT ![a][k] = v]
        /\ UNCHANGED <<stored, row, incremental, counter, mutex, scope, lost, dueItems>>
        BY <1>2 DEF AddKeyed
  <2>2. /\ callbacks'[a] = Put(callbacks[a], k, v)
        /\ \A b \in Account \ {a} : callbacks'[b] = callbacks[b] /\ dueRow'[b] = dueRow[b]
        BY <1>0, <2>1 DEF SchedTypeOK
  <2>3. /\ dueRow'[a][k] = v
        /\ \A j \in Key \ {k} : dueRow'[a][j] = dueRow[a][j]
        BY <1>0, <2>1 DEF SchedTypeOK
  <2>4. \A j \in Key : a \notin lost => dueRow'[a][j] = WillRead(a, j)'
    <3> TAKE j \in Key
    <3>1. CASE j = k
          BY <2>2, <2>3, <3>1 DEF WillRead, Put
    <3>2. CASE j # k
      <4>1. a \notin lost => dueRow[a][j] = WillRead(a, j)
            BY <1>0 DEF NoWriteLost, AddsUp
      <4>2. WillRead(a, j)' = WillRead(a, j)
            BY <2>1, <2>2, <3>2 DEF WillRead, Put
      <4> QED BY <2>3, <3>2, <4>1, <4>2
    <3> QED BY <3>1, <3>2
  <2>6. a \notin lost => AddsUp(a)'
        BY <1>0, <2>1, <2>4 DEF NoWriteLost, AddsUp
  <2>5. NoWriteLost'
        BY <1>0, <1>s, <2>1, <2>2, <2>6 DEF NoWriteLost
  <2> QED BY <1>0, <2>1, <2>5 DEF Numbered
<1>3. ASSUME NEW who \in {"worker", "handler"}, NEW accounts \in SUBSET Account,
             BeginPass(who, accounts), who = "worker" => accounts = Account
      PROVE  Numbered' /\ NoWriteLost'
  <2>1. Numbered'
        BY <1>0, <1>3 DEF BeginPass, queueVars, Numbered
  <2>2. NoWriteLost'
        BY <1>0, <1>s, <1>3 DEF BeginPass, queueVars, NoWriteLost
  <2> QED BY <2>1, <2>2
<1>4. ASSUME NEW a \in Account, MakeIncremental(a)
      PROVE  Numbered' /\ NoWriteLost'
  <2>1. PICK n \in DOMAIN incremental[a] :
          /\ \A m \in DOMAIN incremental[a] : n <= m
          /\ incremental' = [incremental EXCEPT ![a] = Erased(@, n)]
          /\ \/ /\ stored' = [stored EXCEPT ![a] = Applied(@, incremental[a][n])]
                /\ UNCHANGED <<row, lost>>
             \/ Refused(a)
        BY <1>4 DEF MakeIncremental
  <2>2. UNCHANGED <<callbacks, counter, mutex, scope, dueItems, dueRow, row>>
        BY <1>4, <2>1 DEF MakeIncremental, Refused
  <2>3. /\ incremental'[a] = Erased(incremental[a], n)
        /\ \A b \in Account \ {a} : incremental'[b] = incremental[b]
        BY <1>0, <2>1 DEF SchedTypeOK
  <2>4. DOMAIN incremental'[a] \subseteq DOMAIN incremental[a]
        BY <2>3 DEF Erased
  <2>5. Numbered'
        BY <1>0, <2>2, <2>3, <2>4 DEF Numbered
  <2>6. CASE Refused(a)
        BY <1>0, <1>s, <2>2, <2>3, <2>5, <2>6 DEF Refused, NoWriteLost
  <2>7. CASE /\ stored' = [stored EXCEPT ![a] = Applied(@, incremental[a][n])]
             /\ UNCHANGED lost
    <3>1. /\ stored'[a] = Applied(stored[a], incremental[a][n])
          /\ \A b \in Account \ {a} : stored'[b] = stored[b]
          BY <1>0, <2>7 DEF SchedTypeOK
    <3>2. \A i \in Item : HoldsAfter(stored'[a], incremental'[a], i)
                            <=> HoldsAfter(stored[a], incremental[a], i)
          BY <1>t, <2>1, <2>3, <3>1, MadeFirst
    <3>3. a \notin lost => AddsUp(a)'
          BY <1>0, <2>2, <3>2 DEF NoWriteLost, AddsUp, WillRead
    <3> QED BY <1>0, <1>s, <2>2, <2>3, <2>5, <2>7, <3>1, <3>3 DEF NoWriteLost
  <2> QED BY <2>1, <2>5, <2>6, <2>7
<1>5. ASSUME NEW a \in Account, MakeKeyed(a)
      PROVE  Numbered' /\ NoWriteLost'
  <2>1. PICK k \in DOMAIN callbacks[a] :
          /\ callbacks' = [callbacks EXCEPT ![a] = Erased(@, k)]
          /\ \/ /\ row' = [row EXCEPT ![a][k] = callbacks[a][k]]
                /\ UNCHANGED <<stored, lost>>
             \/ Refused(a)
        BY <1>5 DEF MakeKeyed
  <2>2. UNCHANGED <<incremental, counter, mutex, scope, dueItems, dueRow, stored>>
        BY <1>5, <2>1 DEF MakeKeyed, Refused
  <2>3. /\ callbacks'[a] = Erased(callbacks[a], k)
        /\ \A b \in Account \ {a} : callbacks'[b] = callbacks[b]
        BY <1>0, <2>1 DEF SchedTypeOK
  <2>4. Numbered'
        BY <1>0, <2>2 DEF Numbered
  <2>5. CASE Refused(a)
        BY <1>0, <1>s, <2>2, <2>3, <2>4, <2>5 DEF Refused, NoWriteLost
  <2>6. CASE /\ row' = [row EXCEPT ![a][k] = callbacks[a][k]]
             /\ UNCHANGED lost
    <3>1. k \in Key
          BY <1>t DEF IsMap
    <3>2. /\ row'[a][k] = callbacks[a][k]
          /\ \A j \in Key \ {k} : row'[a][j] = row[a][j]
          /\ \A b \in Account \ {a} : row'[b] = row[b]
          BY <1>0, <2>6, <3>1 DEF SchedTypeOK
    <3>3. \A j \in Key : WillRead(a, j)' = WillRead(a, j)
          BY <2>3, <3>2 DEF WillRead, Erased
    <3>4. a \notin lost => AddsUp(a)'
          BY <1>0, <2>2, <3>3 DEF NoWriteLost, AddsUp
    <3> QED BY <1>0, <1>s, <2>2, <2>3, <2>4, <2>6, <3>2, <3>4 DEF NoWriteLost
  <2> QED BY <2>1, <2>4, <2>5, <2>6
<1>6. ASSUME EndPass
      PROVE  Numbered' /\ NoWriteLost'
  <2>1. mutex = "worker" => \A a \in Account : DOMAIN incremental[a] = {}
        BY <1>0, <1>6 DEF EndPass, PassDone, IncrementalDone, Numbered
  <2>2. Numbered'
        BY <1>0, <1>6, <2>1 DEF EndPass, CounterAfter, Numbered
  <2>3. NoWriteLost'
        BY <1>0, <1>s, <1>6 DEF EndPass, NoWriteLost
  <2> QED BY <2>2, <2>3
<1>7. ASSUME Crash
      PROVE  Numbered' /\ NoWriteLost'
  <2>1. \A a \in Account : DOMAIN incremental'[a] = {} /\ DOMAIN callbacks'[a] = {}
        BY <1>7 DEF Crash
  <2>2. NoWriteLost'
        BY <1>7, <2>1 DEF Crash, NoWriteLost, AddsUp, HoldsAfter, WillRead
  <2> QED BY <1>7, <2>1, <2>2 DEF Crash, Numbered
<1>8. ASSUME UNCHANGED schedVars
      PROVE  Numbered' /\ NoWriteLost'
  <2>1. Numbered'
        BY <1>0, <1>8 DEF schedVars, queueVars, Numbered
  <2>2. NoWriteLost'
        BY <1>0, <1>s, <1>8 DEF schedVars, queueVars, NoWriteLost
  <2> QED BY <2>1, <2>2
<1>9. Numbered' /\ NoWriteLost'
      BY <1>1, <1>2, <1>3, <1>4, <1>5, <1>6, <1>7, <1>8
      DEF SchedNext, MakeWrite, WorkerWakes
<1> QED BY <1>0, <1>9 DEF SchedIInv

\* The database and the queue always add up to what the handlers asked for,
\* account by account, whatever passes, crashes and refusals come between:
\* resetting the counter in persist() and not in persistFor is what makes the
\* numbers safe.
THEOREM QueueCorrect == SchedSpec => []NoWriteLost
<1>1. SchedIInv => NoWriteLost
      BY DEF SchedIInv
<1> QED BY <1>1, InitIInv, NextIInv, PTL DEF SchedSpec

-----------------------------------------------------------------------------
(* Accounts.                                                               *)

\* A handler that runs has a session and a step left.
Running == Idle \/ (handler.session \in Session /\ handler.todo # <<>>)

\* The fields a step has, by what it does.
LEMMA StepFields ==
    ASSUME NEW x \in Step
    PROVE  /\ x.do = "persistFor" => x.account \in Account
           /\ x.do = "erase" => x.session \in Session /\ x.to \in {"new", "removed"}
           /\ x.do \in {"insert", "remove"} => x.item \in Item
           /\ x.do = "set" => x.key \in Key /\ x.value \in Value
BY DEF Step

LEMMA SomeSteps ==
    /\ \A a \in Account : [do |-> "persistFor", account |-> a] \in Step
    /\ [do |-> "persisting"] \in Step
    /\ [do |-> "attach"] \in Step
    /\ [do |-> "sendInventory"] \in Step
    /\ \A s \in Session, to \in {"new", "removed"} :
         [do |-> "erase", session |-> s, to |-> to] \in Step
    /\ \A do \in {"insert", "remove"}, i \in Item : [do |-> do, item |-> i] \in Step
    /\ \A k \in Key, v \in Value : [do |-> "set", key |-> k, value |-> v] \in Step
BY DEF Step

\* Lists of one and of two steps.
LEMMA ShortLists ==
    ASSUME NEW S, NEW x \in S, NEW y \in S
    PROVE  /\ <<x>> \in Seq(S) /\ <<x>> # <<>>
           /\ <<x, y>> \in Seq(S) /\ <<x, y>> # <<>>
OBVIOUS

LEMMA RemoveSessionSteps ==
    ASSUME TypeOK, NEW s \in Session, NEW to \in {"new", "removed"}
    PROVE  RemoveSession(s, to) \in Seq(Step) /\ RemoveSession(s, to) # <<>>
<1>1. conn[s].account \in Account
      BY DEF TypeOK, Connection
<1>2. [do |-> "persistFor", account |-> conn[s].account] \in Step
      BY <1>1, SomeSteps
<1>3. [do |-> "erase", session |-> s, to |-> to] \in Step
      BY SomeSteps
<1>4. \A x, y \in Step : <<x, y>> \in Seq(Step) /\ <<x, y>> # <<>>
      BY ShortLists
<1> QED BY <1>2, <1>3, <1>4 DEF RemoveSession

LEMMA TakenOverSteps ==
    ASSUME TypeOK, NEW a \in Account
    PROVE  TakenOver(a) \in Seq(Step)
<1>1. CASE Online(a) = {}
      BY <1>1 DEF TakenOver
<1>2. CASE Online(a) # {}
  <2>1. (CHOOSE t \in Online(a) : TRUE) \in Session
        BY <1>2 DEF Online
  <2> QED BY <1>2, <2>1, RemoveSessionSteps DEF TakenOver
<1> QED BY <1>1, <1>2

LEMMA FreshType == FreshConnection \in Connection
BY AccountsAssumption DEF FreshConnection, Connection, Stage

\* A session starts a handler with steps to make.
LEMMA StartsType ==
    ASSUME TypeOK, NEW s \in Session, NEW todo \in Seq(Step), todo # <<>>, Starts(s, todo)
    PROVE  /\ handler' \in [session : Session \cup {NoSession}, todo : Seq(Step)]
           /\ Running'
BY DEF Starts, Running

\* What is left of a list that has more than one step.
LEMMA LongTail ==
    ASSUME NEW S, NEW q \in Seq(S), q # <<>>, Len(q) # 1
    PROVE  Tail(q) \in Seq(S) /\ Tail(q) # <<>>
<1>1. Len(q) \in Nat /\ Len(q) # 0
      BY EmptySeq
<1>2. Tail(q) \in Seq(S) /\ Len(Tail(q)) = Len(q) - 1
      BY HeadTailProperties
<1>3. Len(Tail(q)) # 0
      BY <1>1, <1>2
<1>4. Len(<<>>) = 0
      OBVIOUS
<1> QED BY <1>2, <1>3, <1>4

\* A list with its first step replaced.
LEMMA FirstReplaced ==
    ASSUME NEW S, NEW q \in Seq(S), q # <<>>, NEW x \in S
    PROVE  [q EXCEPT ![1] = x] \in Seq(S) /\ [q EXCEPT ![1] = x] # <<>>
<1>1. Len(q) \in Nat \ {0}
      BY EmptySeq
<1>2. [q EXCEPT ![1] = x] \in [1 .. Len(q) -> S]
      BY <1>1
<1>3. [q EXCEPT ![1] = x] \in Seq(S) /\ Len([q EXCEPT ![1] = x]) = Len(q)
      BY <1>1, <1>2
<1> QED BY <1>1, <1>3

\* A handler goes on to its next step, or returns.
LEMMA AdvanceType ==
    ASSUME TypeOK, Running, ~Idle, Advance
    PROVE  /\ handler' \in [session : Session \cup {NoSession}, todo : Seq(Step)]
           /\ Running'
<1>1. handler.todo \in Seq(Step) /\ handler.todo # <<>> /\ handler.session \in Session
      BY DEF TypeOK, Running
<1>2. CASE Len(handler.todo) = 1
  <2>1. handler' = [session |-> NoSession, todo |-> <<>>]
        BY <1>2 DEF Advance
  <2>2. <<>> \in Seq(Step)
        BY EmptySeq
  <2> QED BY <2>1, <2>2 DEF Running, Idle
<1>3. CASE Len(handler.todo) # 1
  <2>1. Tail(handler.todo) \in Seq(Step) /\ Tail(handler.todo) # <<>>
        BY <1>1, <1>3, LongTail
  <2>2. handler' = [handler EXCEPT !.todo = Tail(@)]
        BY <1>3 DEF Advance
  <2>3. handler'.session = handler.session /\ handler'.todo = Tail(handler.todo)
        BY <2>2 DEF TypeOK
  <2> QED BY <1>1, <2>1, <2>2, <2>3 DEF TypeOK, Running
<1> QED BY <1>2, <1>3

-----------------------------------------------------------------------------
(* The invariant. *)

IInv == TypeOK /\ Running

LEMMA InitIInvAccounts == Init => IInv
<1> SUFFICES ASSUME Init PROVE IInv
    OBVIOUS
<1>1. SchedTypeOK
      BY InitType DEF Init
<1>2. conn \in [Session -> Connection]
      BY FreshType DEF Init
<1>3. handler.session = NoSession /\ handler.todo = <<>>
      BY DEF Init
<1>4. handler \in [session : Session \cup {NoSession}, todo : Seq(Step)]
  <2>1. <<>> \in Seq(Step)
        BY EmptySeq
  <2> QED BY <2>1 DEF Init
<1>5. shared \subseteq Account
      BY DEF Init
<1> QED BY <1>1, <1>2, <1>3, <1>4, <1>5 DEF IInv, TypeOK, Running, Idle

\* The step of a handler that runs.
LEMMA FirstStep ==
    ASSUME IInv, ~Idle
    PROVE  Self \in Session /\ Step1 \in Step
<1>1. handler.todo \in Seq(Step) /\ handler.todo # <<>>
      BY DEF IInv, TypeOK, Running
<1>2. Head(handler.todo) \in Step
      BY <1>1, HeadTailProperties
<1> QED BY <1>2 DEF IInv, Running, Self, Step1

\* Every step of Accounts is a step of Scheduler, or leaves it alone: what
\* its handlers queue is a write Scheduler allows.
LEMMA NextImplements == IInv /\ [Next]_vars => [SchedNext]_schedVars
<1> SUFFICES ASSUME IInv, [Next]_vars PROVE [SchedNext]_schedVars
    OBVIOUS
<1>1. ASSUME NEW s \in Session, NEW a \in Account, Login(s, a)
      PROVE  UNCHANGED schedVars
      BY <1>1 DEF Login
<1>2. ASSUME NEW s \in Session, NEW i \in Item, Buy(s, i) \/ Sell(s, i) \/ Delete(s, i)
      PROVE  UNCHANGED schedVars
      BY <1>2 DEF Buy, Sell, Delete
<1>3. ASSUME NEW s \in Session, Evict(s) \/ Disconnect(s) \/ DisconnectRemoved(s)
      PROVE  UNCHANGED schedVars
      BY <1>3 DEF Evict, Disconnect, DisconnectRemoved
<1>4. ASSUME HandlerStep PROVE [SchedNext]_schedVars
  <2>1. Self \in Session /\ Step1 \in Step
        BY <1>4, FirstStep DEF HandlerStep
  <2>2. conn[Self].account \in Account
        BY <2>1 DEF IInv, TypeOK, Connection
  <2>3. CASE StepPersistFor
    <3>1. Step1.account \in Account
          BY <2>1, <2>3, StepFields DEF StepPersistFor
    <3> QED BY <2>3, <3>1 DEF StepPersistFor, SchedNext
  <2>4. CASE StepPersisted
        BY <2>4 DEF StepPersisted, SchedNext
  <2>5. CASE StepErase \/ StepAttach \/ StepInventory
        BY <2>5 DEF StepErase, StepAttach, StepInventory
  <2>6. CASE StepItem
    <3>1. Step1.do \in {"insert", "remove"} /\ Step1.item \in Item
          BY <2>1, <2>6, StepFields DEF StepItem
    <3>2. [kind |-> Step1.do, item |-> Step1.item] \in Write
          BY <3>1 DEF Write
    <3>3. AddIncremental(conn[Self].account, [kind |-> Step1.do, item |-> Step1.item])
          BY <2>6 DEF StepItem
    <3> QED BY <2>2, <3>2, <3>3 DEF SchedNext
  <2>7. CASE StepSet
    <3>1. Step1.key \in Key /\ Step1.value \in Value
          BY <2>1, <2>7, StepFields DEF StepSet
    <3>2. AddKeyed(conn[Self].account, Step1.key, Step1.value)
          BY <2>7 DEF StepSet
    <3> QED BY <2>2, <3>1, <3>2 DEF SchedNext
  <2> QED BY <1>4, <2>3, <2>4, <2>5, <2>6, <2>7 DEF HandlerStep
<1>5. CASE Wake \/ WriteBack \/ WorkerSleeps \/ Restart
      BY <1>5 DEF Wake, WriteBack, WorkerSleeps, Restart, SchedNext
<1>6. CASE UNCHANGED vars
      BY <1>6 DEF vars
<1> QED BY <1>1, <1>2, <1>3, <1>4, <1>5, <1>6 DEF Next

\* A connection after a step: what the connections keep keeps its type.
LEMMA StepIInv == IInv /\ HandlerStep => IInv'
<1> SUFFICES ASSUME IInv, HandlerStep PROVE IInv'
    OBVIOUS
<1>0. TypeOK /\ Running /\ SchedTypeOK /\ ~Idle
      BY DEF IInv, TypeOK, HandlerStep
<1>1. Self \in Session /\ Step1 \in Step
      BY <1>0, FirstStep
<1>2. /\ conn \in [Session -> Connection]
      /\ conn[Self] \in Connection
      /\ stored \in [Account -> SUBSET Item]
      /\ shared \subseteq Account
      BY <1>0, <1>1 DEF TypeOK, SchedTypeOK
<1>3. SchedTypeOK'
      BY <1>0, NextImplements, NextType DEF Next
<1>4. CASE StepPersistFor
  <2>1. handler' = [handler EXCEPT !.todo[1] = [do |-> "persisting"]]
        BY <1>4 DEF StepPersistFor
  <2>2. handler.todo \in Seq(Step) /\ handler.todo # <<>> /\ handler.session \in Session
        BY <1>0 DEF TypeOK, Running
  <2>3. [handler.todo EXCEPT ![1] = [do |-> "persisting"]] \in Seq(Step)
        BY <2>2, SomeSteps, FirstReplaced
  <2>4. [handler.todo EXCEPT ![1] = [do |-> "persisting"]] # <<>>
        BY <2>2, SomeSteps, FirstReplaced
  <2>5. /\ handler'.session = handler.session
        /\ handler'.todo = [handler.todo EXCEPT ![1] = [do |-> "persisting"]]
        /\ handler' = [session |-> handler'.session, todo |-> handler'.todo]
        BY <1>0, <2>1 DEF TypeOK
  <2>6. UNCHANGED <<conn, shared>>
        BY <1>4 DEF StepPersistFor
  <2> QED BY <1>2, <1>3, <2>2, <2>3, <2>4, <2>5, <2>6 DEF IInv, TypeOK, Running
<1>5. ASSUME Advance, conn' \in [Session -> Connection], UNCHANGED shared
      PROVE  IInv'
      BY <1>0, <1>2, <1>3, <1>5, AdvanceType DEF IInv, TypeOK
<1>6. CASE StepPersisted
      BY <1>2, <1>5, <1>6 DEF StepPersisted
<1>7. CASE StepErase
  <2>1. Step1.session \in Session /\ Step1.to \in {"new", "removed"}
        BY <1>1, <1>7, StepFields DEF StepErase
  <2>2. FreshConnection \in Connection
        BY FreshType
  <2>3. [conn[Step1.session] EXCEPT !.stage = Step1.to] \in Connection
        BY <1>2, <2>1 DEF Connection, Stage
  <2>4. conn' \in [Session -> Connection]
        BY <1>2, <1>7, <2>2, <2>3 DEF StepErase
  <2> QED BY <1>5, <1>7, <2>4 DEF StepErase
<1>8. CASE StepAttach
  <2>1. [conn[Self] EXCEPT !.stage = "online"] \in Connection
        BY <1>2 DEF Connection, Stage
  <2>2. conn' = [conn EXCEPT ![Self] = [conn[Self] EXCEPT !.stage = "online"]]
        BY <1>8 DEF StepAttach
  <2>3. conn' \in [Session -> Connection]
        BY <1>2, <2>1, <2>2
  <2> QED BY <1>5, <1>8, <2>3 DEF StepAttach
<1>9. CASE StepInventory
  <2>1. conn[Self].account \in Account
        BY <1>2 DEF Connection
  <2>2. [conn[Self] EXCEPT !.items = stored[conn[Self].account]] \in Connection
        BY <1>2, <2>1 DEF Connection
  <2>3. conn' = [conn EXCEPT ![Self] = [conn[Self] EXCEPT !.items = stored[conn[Self].account]]]
        BY <1>9 DEF StepInventory
  <2>4. conn' \in [Session -> Connection]
        BY <1>2, <2>2, <2>3
  <2> QED BY <1>5, <1>9, <2>4 DEF StepInventory
<1>10. CASE StepItem
  <2> DEFINE w == [kind |-> Step1.do, item |-> Step1.item]
  <2>1. w \in Write
        BY <1>1, <1>10, StepFields DEF StepItem, Write
  <2>2. Applied(conn[Self].items, w) \in SUBSET Item
        BY <1>2, <2>1, AppliedType DEF Connection
  <2>3. conn' = [conn EXCEPT ![Self] = [conn[Self] EXCEPT !.items = Applied(conn[Self].items, w)]]
        BY <1>10 DEF StepItem
  <2> HIDE DEF w
  <2>4. [conn[Self] EXCEPT !.items = Applied(conn[Self].items, w)] \in Connection
        BY <1>2, <2>2 DEF Connection
  <2>5. conn' \in [Session -> Connection]
        BY <1>2, <2>3, <2>4
  <2> QED BY <1>5, <1>10, <2>5 DEF StepItem
<1>11. CASE StepSet
  <2>1. Step1.key \in Key /\ Step1.value \in Value
        BY <1>1, <1>11, StepFields DEF StepSet
  <2>2. [conn[Self] EXCEPT !.balance[Step1.key] = Step1.value] \in Connection
        BY <1>2, <2>1 DEF Connection
  <2>3. conn' = [conn EXCEPT ![Self] = [conn[Self] EXCEPT !.balance[Step1.key] = Step1.value]]
        BY <1>11 DEF StepSet
  <2>4. conn' \in [Session -> Connection]
        BY <1>2, <2>2, <2>3
  <2> QED BY <1>5, <1>11, <2>4 DEF StepSet
<1> QED BY <1>4, <1>6, <1>7, <1>8, <1>9, <1>10, <1>11 DEF HandlerStep

LEMMA NextIInvAccounts == IInv /\ [Next]_vars => IInv'
<1> SUFFICES ASSUME IInv, [Next]_vars PROVE IInv'
    OBVIOUS
<1>0. TypeOK /\ Running /\ SchedTypeOK
      BY DEF IInv, TypeOK
<1>1. SchedTypeOK'
      BY <1>0, NextImplements, NextType
<1>2. /\ conn \in [Session -> Connection]
      /\ row \in [Account -> [Key -> Value]]
      /\ shared \subseteq Account
      BY <1>0 DEF TypeOK, SchedTypeOK
<1>3. \A s \in Session : conn[s] \in Connection
      BY <1>2
<1>4. \A s \in Session : conn[s].account \in Account
      BY <1>3 DEF Connection
<1>5. \A s \in Session : Touched(s) \subseteq Account
      BY <1>2, <1>4 DEF Touched
<1>6. ASSUME NEW s \in Session, NEW todo \in Seq(Step), todo # <<>>, Starts(s, todo),
             conn' \in [Session -> Connection], shared' \subseteq Account
      PROVE  IInv'
      BY <1>0, <1>1, <1>6, StartsType DEF IInv, TypeOK
<1>7. ASSUME NEW s \in Session, NEW a \in Account, Login(s, a) PROVE IInv'
  <2> DEFINE after == <<[do |-> "attach"], [do |-> "sendInventory"]>>
  <2>1. after \in Seq(Step) /\ Len(after) = 2
        BY SomeSteps, ShortLists
  <2>2. TakenOver(a) \in Seq(Step)
        BY <1>0, TakenOverSteps
  <2> HIDE DEF after
  <2>3. TakenOver(a) \o after \in Seq(Step) /\ TakenOver(a) \o after # <<>>
        BY <2>1, <2>2, ConcatProperties, EmptySeq
  <2>4. [stage |-> "login", account |-> a, items |-> {}, balance |-> row[a]] \in Connection
        BY <1>2 DEF Connection, Stage
  <2>5. conn' \in [Session -> Connection]
        BY <1>2, <1>7, <2>4 DEF Login
  <2>6. shared' \subseteq Account
        BY <1>2, <1>7 DEF Login
  <2>7. Starts(s, TakenOver(a) \o after)
        BY <1>7 DEF Login, after
  <2> QED BY <1>6, <2>3, <2>5, <2>6, <2>7
<1>8. ASSUME NEW s \in Session, NEW i \in Item, Buy(s, i) \/ Sell(s, i) PROVE IInv'
  <2>1. conn[s].balance["mp"] \in 0 .. MaxBalance
        BY <1>3, AccountsAssumption DEF Connection
  <2>2. ASSUME NEW d \in {"insert", "remove"}, NEW v \in Value,
               Starts(s, <<[do |-> d, item |-> i], [do |-> "set", key |-> "mp", value |-> v]>>)
        PROVE  IInv'
    <3>1. [do |-> d, item |-> i] \in Step /\ [do |-> "set", key |-> "mp", value |-> v] \in Step
          BY SomeSteps, AccountsAssumption
    <3>2. /\ <<[do |-> d, item |-> i], [do |-> "set", key |-> "mp", value |-> v]>> \in Seq(Step)
          /\ <<[do |-> d, item |-> i], [do |-> "set", key |-> "mp", value |-> v]>> # <<>>
          BY <3>1, ShortLists
    <3>3. conn' = conn /\ shared' = Touched(s)
          BY <1>8 DEF Buy, Sell
    <3> QED BY <1>2, <1>5, <1>6, <2>2, <3>2, <3>3
  <2>3. CASE Buy(s, i)
    <3>1. conn[s].balance["mp"] - 1 \in Value
          BY <2>1, <2>3, AccountsAssumption DEF Buy
    <3> QED BY <2>2, <2>3, <3>1 DEF Buy
  <2>4. CASE Sell(s, i) /\ Starts(s, <<[do |-> "remove", item |-> i]>>)
    <3>1. [do |-> "remove", item |-> i] \in Step
          BY SomeSteps
    <3>2. <<[do |-> "remove", item |-> i]>> \in Seq(Step) /\ <<[do |-> "remove", item |-> i]>> # <<>>
          BY <3>1, ShortLists
    <3>3. conn' = conn /\ shared' = Touched(s)
          BY <2>4 DEF Sell
    <3> QED BY <1>2, <1>5, <1>6, <2>4, <3>2, <3>3
  <2> QED BY <1>8, <2>2, <2>3, <2>4 DEF Sell
<1>9. ASSUME NEW s \in Session, NEW i \in Item, Delete(s, i) PROVE IInv'
  <2>1. [do |-> "remove", item |-> i] \in Step
        BY SomeSteps
  <2>2. <<[do |-> "remove", item |-> i]>> \in Seq(Step) /\ <<[do |-> "remove", item |-> i]>> # <<>>
        BY <2>1, ShortLists
  <2>3. conn' = conn /\ shared' = Touched(s) /\ Starts(s, <<[do |-> "remove", item |-> i]>>)
        BY <1>9 DEF Delete
  <2> QED BY <1>2, <1>5, <1>6, <2>2, <2>3
<1>10. ASSUME NEW s \in Session, Evict(s) \/ Disconnect(s) PROVE IInv'
  <2>1. PICK to \in {"new", "removed"} : Starts(s, RemoveSession(s, to))
        BY <1>10 DEF Evict, Disconnect
  <2>2. RemoveSession(s, to) \in Seq(Step) /\ RemoveSession(s, to) # <<>>
        BY <1>0, RemoveSessionSteps
  <2>3. conn' = conn /\ shared' = shared
        BY <1>10 DEF Evict, Disconnect
  <2> QED BY <1>2, <1>6, <2>1, <2>2, <2>3
<1>11. ASSUME conn' \in [Session -> Connection], UNCHANGED <<handler, shared>> PROVE IInv'
      BY <1>0, <1>1, <1>11 DEF IInv, TypeOK, Running, Idle
<1>12. ASSUME NEW s \in Session, DisconnectRemoved(s) PROVE IInv'
  <2>1. conn' \in [Session -> Connection]
        BY <1>2, <1>12, FreshType DEF DisconnectRemoved
  <2> QED BY <1>11, <1>12, <2>1 DEF DisconnectRemoved
<1>13. CASE HandlerStep
      BY <1>13, StepIInv
<1>14. CASE Wake \/ WriteBack \/ WorkerSleeps
      BY <1>2, <1>11, <1>14 DEF Wake, WriteBack, WorkerSleeps
<1>15. CASE Restart
  <2>1. conn' \in [Session -> Connection]
        BY <1>15, FreshType DEF Restart
  <2>2. <<>> \in Seq(Step)
        BY EmptySeq
  <2> QED BY <1>1, <1>15, <2>1, <2>2 DEF IInv, TypeOK, Running, Idle, Restart
<1>16. CASE UNCHANGED vars
      BY <1>2, <1>11, <1>16 DEF vars
<1> QED BY <1>7, <1>8, <1>9, <1>10, <1>12, <1>13, <1>14, <1>15, <1>16 DEF Next

-----------------------------------------------------------------------------
\* The connections, the handlers' steps and the queue keep their types; in
\* particular no handler ever sets a currency below zero (setAccountMicroPoints
\* takes an unsigned number).
THEOREM AccountsTypeCorrect == Spec => []TypeOK
<1>1. IInv => TypeOK
      BY DEF IInv
<1> QED BY <1>1, InitIInvAccounts, NextIInvAccounts, PTL DEF Spec

\* The handlers use the scheduler the way it is specified.
THEOREM Implements == Spec => SchedSpec
<1>1. Init => SchedInit
      BY DEF Init
<1> QED BY <1>1, InitIInvAccounts, NextIInvAccounts, NextImplements, PTL DEF Spec, SchedSpec

\* No write that a login, a purchase, a sale, a deletion or a disconnect
\* queues is lost, made twice or out of order, for any number of sessions.
THEOREM AccountsCorrect == Spec => []NoWriteLost
BY Implements, QueueCorrect, PTL

-----------------------------------------------------------------------------
(* What a handler leaves between its steps.                                *)
(*                                                                         *)
(* The properties of the account copies are no invariants of the steps: a  *)
(* login has read the row and not the items, a purchase has queued the     *)
(* item and not its price.  They follow from where the running handler is  *)
(* in its list and from what holds there.                                  *)

\* Nothing is queued for the account.
Written(a) == DOMAIN incremental[a] = {} /\ DOMAIN callbacks[a] = {}

Attach == [do |-> "attach"]
SendInventory == [do |-> "sendInventory"]
PersistFor(a) == [do |-> "persistFor", account |-> a]
Persisting == [do |-> "persisting"]
Erase(t, to) == [do |-> "erase", session |-> t, to |-> to]
SetMp(v) == [do |-> "set", key |-> "mp", value |-> v]
ItemStep(d, i) == [do |-> d, item |-> i]

\* One step and two steps, alone or before those of a login.
One(x, login) == IF login THEN <<x, Attach, SendInventory>> ELSE <<x>>
Two(x, y, login) == IF login THEN <<x, y, Attach, SendInventory>> ELSE <<x, y>>

\* Session t is to be removed, for a login of its account or by itself.
Removal(t, to, login) ==
    /\ conn[t].stage = "online"
    /\ IF login
       THEN /\ to = "new" /\ conn[Self].stage = "login"
            /\ conn[t].account = conn[Self].account /\ conn[t].account \in shared
       ELSE t = Self

Persists(t, to, login) == handler.todo = Two(PersistFor(conn[t].account), Erase(t, to), login)

Writes(t, to, login) ==
    /\ handler.todo = Two(Persisting, Erase(t, to), login)
    /\ mutex = "handler" /\ scope = {conn[t].account}

Erases(t, to, login) == handler.todo = One(Erase(t, to), login) /\ Written(conn[t].account)

Removing ==
    \E t \in Session, to \in {"new", "removed"}, login \in BOOLEAN :
        /\ Removal(t, to, login)
        /\ Persists(t, to, login) \/ Writes(t, to, login) \/ Erases(t, to, login)

\* A login finds no session of its account, or none any more.
Attaching ==
    /\ conn[Self].stage = "login"
    /\ handler.todo = <<Attach, SendInventory>> /\ Online(conn[Self].account) = {}

\* The items are read last, before anything is queued for the account.
Reading ==
    /\ conn[Self].stage = "online"
    /\ handler.todo = <<SendInventory>>
    /\ conn[Self].account \notin shared => Written(conn[Self].account)

Charging == \E v \in Value : handler.todo = <<SetMp(v)>>

\* An item comes or goes; the price is queued after it.
Trading ==
    /\ Active(Self)
    /\ conn[Self].stage = "removed" => conn[Self].account \in shared
    /\ \/ Charging
       \/ \E i \in Item : handler.todo = <<ItemStep("remove", i)>>
       \/ \E d \in {"insert", "remove"}, i \in Item, v \in Value :
             handler.todo = <<ItemStep(d, i), SetMp(v)>>

\* Where the running handler is.
AtStep == Idle \/ Removing \/ Attaching \/ Reading \/ Trading

\* The handlers' thread holds the mutex within persistFor only, a login is over
\* when its handler is, and a connection that is not logged in has no account.
Places ==
    /\ mutex = "handler" => ~Idle /\ Step1 = Persisting
    /\ \A s \in Session :
          /\ conn[s].stage = "login" => handler.session = s
          /\ conn[s].stage = "new" <=> conn[s].account = NoAccount

\* Two connections of an account share it, and one at most is in the table.
Owners ==
    /\ \A s, t \in Session :
          s # t /\ conn[s].account = conn[t].account /\ conn[s].account # NoAccount
            => conn[s].account \in shared
    /\ \A a \in Account : \A s, t \in Online(a) : s = t

\* Whoever is out of the table has nothing queued.
OthersWritten == \A a \in Account \ shared : Online(a) = {} => Written(a)

\* A price is queued with its item, or is the next thing to be queued.
Buys(a) == \E n \in DOMAIN incremental[a] : incremental[a][n].kind = "insert"

Charged ==
    \A a \in Account :
        Buys(a) => \/ "mp" \in DOMAIN callbacks[a]
                   \/ ~Idle /\ Charging /\ conn[Self].account = a

\* A session in the table has the row, and its items from when it has read them.
Current(s) ==
    LET a == conn[s].account
    IN  conn[s].stage \in {"login", "online"} /\ a \notin lost \cup shared =>
          /\ conn[s].balance = dueRow[a]
          /\ \/ conn[s].items = dueItems[a]
             \/ conn[s].stage = "login"
             \/ handler.session = s /\ Reading

Copies == \A s \in Session : Current(s)

StepsInv == AtStep /\ Places /\ Owners /\ OthersWritten /\ Charged /\ Copies

-----------------------------------------------------------------------------
(* Lists of steps. *)

LEMMA ListsOfSteps ==
    ASSUME NEW x, NEW y, NEW z, NEW w
    PROVE  /\ Head(<<x>>) = x /\ Len(<<x>>) = 1
           /\ Head(<<x, y>>) = x /\ Len(<<x, y>>) = 2 /\ Tail(<<x, y>>) = <<y>>
           /\ Head(<<x, y, z>>) = x /\ Len(<<x, y, z>>) = 3 /\ Tail(<<x, y, z>>) = <<y, z>>
           /\ Head(<<x, y, z, w>>) = x /\ Len(<<x, y, z, w>>) = 4
           /\ Tail(<<x, y, z, w>>) = <<y, z, w>>
           /\ <<>> \o <<x, y>> = <<x, y>>
<1>1. /\ Head(<<x>>) = x /\ Len(<<x>>) = 1
      /\ Head(<<x, y>>) = x /\ Len(<<x, y>>) = 2
      /\ Head(<<x, y, z>>) = x /\ Len(<<x, y, z>>) = 3
      /\ Head(<<x, y, z, w>>) = x /\ Len(<<x, y, z, w>>) = 4
  OBVIOUS
<1>2. /\ Tail(<<x, y>>) = <<y>> /\ Tail(<<x, y, z>>) = <<y, z>>
      /\ Tail(<<x, y, z, w>>) = <<y, z, w>>
  OBVIOUS
<1>3. <<>> \o <<x, y>> = <<x, y>>
  OBVIOUS
<1>4. QED
  BY <1>1, <1>2, <1>3

LEMMA TwoAndTwo ==
    ASSUME NEW x, NEW y, NEW z, NEW w
    PROVE  <<x, y>> \o <<z, w>> = <<x, y, z, w>>
<1> DEFINE p == <<x, y>>  q == <<z, w>>  r == <<x, y, z, w>>  S == {x, y, z, w}
<1>1. /\ p \in Seq(S) /\ Len(p) = 2 /\ p[1] = x /\ p[2] = y
      /\ q \in Seq(S) /\ Len(q) = 2 /\ q[1] = z /\ q[2] = w
      /\ r \in Seq(S) /\ Len(r) = 4 /\ r[1] = x /\ r[2] = y /\ r[3] = z /\ r[4] = w
  OBVIOUS
<1> HIDE DEF p, q, r, S
<1>2. /\ p \o q \in Seq(S) /\ Len(p \o q) = 4
      /\ \A i \in 1 .. 4 : (p \o q)[i] = IF i <= 2 THEN p[i] ELSE q[i - 2]
  <2>1. /\ p \o q \in Seq(S)
        /\ Len(p \o q) = Len(p) + Len(q)
        /\ \A i \in 1 .. Len(p) + Len(q) :
              (p \o q)[i] = IF i <= Len(p) THEN p[i] ELSE q[i - Len(p)]
    <3>1. p \in Seq(S) /\ q \in Seq(S)
      BY <1>1
    <3>2. QED
      BY <3>1, ConcatProperties, Zenon
  <2>2. QED
    BY <1>1, <2>1
<1>3. \A i \in 1 .. 4 : (p \o q)[i] = r[i]
  BY <1>1, <1>2
<1>4. p \o q = r
  <2>1. p \o q \in Seq(S) /\ r \in Seq(S) /\ Len(p \o q) = 4 /\ Len(r) = 4
    BY <1>1, <1>2
  <2>2. \A s \in Seq(S), t \in Seq(S) :
           Len(s) = Len(t) /\ (\A i \in 1 .. Len(s) : s[i] = t[i]) => s = t
    BY SeqEqual
  <2>3. QED
    BY <1>3, <2>1, <2>2
<1>5. QED
  BY <1>4 DEF p, q, r

LEMMA FirstOfTwo ==
    ASSUME NEW S, NEW x \in S, NEW y \in S, NEW z \in S
    PROVE  [<<x, y>> EXCEPT ![1] = z] = <<z, y>>
<1> DEFINE p == <<x, y>>  q == [p EXCEPT ![1] = z]  r == <<z, y>>
<1>1. /\ p \in Seq(S) /\ Len(p) = 2 /\ p[1] = x /\ p[2] = y
      /\ r \in Seq(S) /\ Len(r) = 2 /\ r[1] = z /\ r[2] = y
  OBVIOUS
<1>2. DOMAIN p = 1 .. 2 /\ DOMAIN r = 1 .. 2
  BY <1>1
<1> HIDE DEF p, r
<1>3. q \in [1 .. 2 -> S] /\ q[1] = r[1] /\ q[2] = r[2] /\ r \in [1 .. 2 -> S]
  BY <1>1, <1>2
<1>4. q = r
  BY <1>3
<1>5. QED
  BY <1>4 DEF p, r

LEMMA FirstOfFour ==
    ASSUME NEW S, NEW x \in S, NEW y \in S, NEW z \in S, NEW v \in S, NEW w \in S
    PROVE  [<<x, y, v, w>> EXCEPT ![1] = z] = <<z, y, v, w>>
<1> DEFINE p == <<x, y, v, w>>  q == [p EXCEPT ![1] = z]  r == <<z, y, v, w>>
<1>1. /\ p \in Seq(S) /\ Len(p) = 4 /\ p[1] = x /\ p[2] = y /\ p[3] = v /\ p[4] = w
      /\ r \in Seq(S) /\ Len(r) = 4 /\ r[1] = z /\ r[2] = y /\ r[3] = v /\ r[4] = w
  OBVIOUS
<1>2. DOMAIN p = 1 .. 4 /\ DOMAIN r = 1 .. 4
  BY <1>1
<1> HIDE DEF p, r
<1>3. q \in [1 .. 4 -> S] /\ r \in [1 .. 4 -> S]
      /\ q[1] = r[1] /\ q[2] = r[2] /\ q[3] = r[3] /\ q[4] = r[4]
  BY <1>1, <1>2
<1>4. q = r
  BY <1>3
<1>5. QED
  BY <1>4 DEF p, r

LEMMA OneAndTwo ==
    ASSUME NEW x, NEW y, NEW login \in BOOLEAN
    PROVE  /\ Head(One(x, login)) = x /\ Head(Two(x, y, login)) = x
           /\ Len(Two(x, y, login)) # 1 /\ Tail(Two(x, y, login)) = One(y, login)
           /\ Len(One(x, login)) = IF login THEN 3 ELSE 1
           /\ login => Tail(One(x, login)) = <<Attach, SendInventory>>
<1>1. CASE login
  BY <1>1, ListsOfSteps DEF One, Two
<1>2. CASE ~login
  BY <1>2, ListsOfSteps DEF One, Two
<1>3. QED
  BY <1>1, <1>2

\* The step that is next where a price is due and where items are read.
LEMMA DueStep ==
    /\ Charging => Step1.do = "set"
    /\ Reading => Step1.do = "sendInventory"
<1>1. ASSUME NEW v \in Value, handler.todo = <<SetMp(v)>> PROVE Step1.do = "set"
  BY <1>1, ListsOfSteps DEF Step1, SetMp
<1>2. ASSUME handler.todo = <<SendInventory>> PROVE Step1.do = "sendInventory"
  BY <1>2, ListsOfSteps DEF Step1, SendInventory
<1>3. QED
  BY <1>1, <1>2 DEF Charging, Reading

\* The handler's place, told by the step it makes next.
LEMMA NextStep ==
    ASSUME AtStep, ~Idle
    PROVE  /\ Step1.do = "persistFor" =>
                \E t \in Session, to \in {"new", "removed"}, login \in BOOLEAN :
                    Removal(t, to, login) /\ Persists(t, to, login)
           /\ Step1.do = "persisting" =>
                \E t \in Session, to \in {"new", "removed"}, login \in BOOLEAN :
                    Removal(t, to, login) /\ Writes(t, to, login)
           /\ Step1.do = "erase" =>
                \E t \in Session, to \in {"new", "removed"}, login \in BOOLEAN :
                    Removal(t, to, login) /\ Erases(t, to, login)
           /\ Step1.do = "attach" => Attaching
           /\ Step1.do = "sendInventory" => Reading
           /\ Step1.do = "set" => Trading /\ Charging
           /\ Step1.do \in {"insert", "remove"} => Trading /\ ~Charging
<1>1. ASSUME NEW t \in Session, NEW to \in {"new", "removed"}, NEW login \in BOOLEAN
      PROVE  /\ Persists(t, to, login) => Step1.do = "persistFor"
             /\ Writes(t, to, login) => Step1.do = "persisting"
             /\ Erases(t, to, login) => Step1.do = "erase"
  <2>1. ASSUME Persists(t, to, login) PROVE Step1.do = "persistFor"
    <3>1. Step1 = PersistFor(conn[t].account)
      BY <2>1, OneAndTwo DEF Step1, Persists
    <3>2. QED
      BY <3>1 DEF PersistFor
  <2>2. ASSUME Writes(t, to, login) PROVE Step1.do = "persisting"
    <3>1. Step1 = Persisting
      BY <2>2, OneAndTwo DEF Step1, Writes
    <3>2. QED
      BY <3>1 DEF Persisting
  <2>3. ASSUME Erases(t, to, login) PROVE Step1.do = "erase"
    <3>1. Step1 = Erase(t, to)
      BY <2>3, OneAndTwo DEF Step1, Erases
    <3>2. QED
      BY <3>1 DEF Erase
  <2>4. QED
    BY <2>1, <2>2, <2>3
<1>2. Attaching => Step1.do = "attach"
  BY ListsOfSteps DEF Step1, Attaching, Attach
<1>3. Reading => Step1.do = "sendInventory"
  BY DueStep
<1>4. Charging => Step1.do = "set"
  BY DueStep
<1>5. Trading => Charging \/ Step1.do \in {"insert", "remove"}
  <2>1. ASSUME NEW i \in Item, handler.todo = <<ItemStep("remove", i)>>
        PROVE  Step1.do = "remove"
    BY <2>1, ListsOfSteps DEF Step1, ItemStep
  <2>2. ASSUME NEW d \in {"insert", "remove"}, NEW i \in Item, NEW v \in Value,
               handler.todo = <<ItemStep(d, i), SetMp(v)>>
        PROVE  Step1.do = d
    BY <2>2, ListsOfSteps DEF Step1, ItemStep
  <2>3. QED
    BY <2>1, <2>2 DEF Trading
<1>6. Step1.do \in {"persistFor", "persisting", "erase"} => Removing
  BY <1>2, <1>3, <1>4, <1>5 DEF AtStep
<1>7. Removing => Step1.do \in {"persistFor", "persisting", "erase"}
  BY <1>1 DEF Removing
<1>8. QED
  BY <1>1, <1>2, <1>3, <1>4, <1>5, <1>6, <1>7 DEF AtStep, Removing

\* No removal, login or purchase is what a list with another first step is at.
LEMMA Advanced ==
    ASSUME IInv, ~Idle, Advance
    PROVE  /\ Len(handler.todo) = 1 => Idle' /\ handler'.session = NoSession /\ handler'.todo = <<>>
           /\ Len(handler.todo) # 1 =>
                ~Idle' /\ handler'.session = Self /\ handler'.todo = Tail(handler.todo)
BY DEF Advance, Idle, IInv, TypeOK, Self, Running

-----------------------------------------------------------------------------
(* Between two handlers. *)

LEMMA AtRest ==
    ASSUME IInv, StepsInv, Idle
    PROVE  /\ mutex # "handler"
           /\ \A s \in Session : conn[s].stage # "login" /\ handler.session # s
           /\ \A a \in Account : Buys(a) => "mp" \in DOMAIN callbacks[a]
BY AccountsAssumption DEF StepsInv, Places, Charged, Idle

LEMMA ConnTypes ==
    ASSUME IInv, NEW s \in Session
    PROVE  /\ conn[s].account \in Account /\ conn[s].stage \in Stage
           /\ conn[s].items \subseteq Item /\ conn[s].balance \in [Key -> Value]
           /\ conn[s] = [stage |-> conn[s].stage, account |-> conn[s].account,
                         items |-> conn[s].items, balance |-> conn[s].balance]
BY DEF IInv, TypeOK, Connection

\* Purchases, sales, deletions, evictions and disconnects start with what is there.
LEMMA StartStep ==
    ASSUME IInv, StepsInv, NEW s \in Session,
           \/ Evict(s) \/ Disconnect(s)
           \/ \E i \in Item : Buy(s, i) \/ Sell(s, i) \/ Delete(s, i)
    PROVE  StepsInv'
<1> USE DEF StepsInv
<1>0. Idle /\ UNCHANGED <<schedVars, conn>> /\ handler'.session = s /\ ~Idle'
      /\ shared \subseteq shared'
  BY AccountsAssumption DEF Evict, Disconnect, Buy, Sell, Delete, Starts, Touched, Idle
<1>1. AtStep'
  <2>1. ASSUME NEW to \in {"new", "removed"}, conn[s].stage = "online",
               Starts(s, RemoveSession(s, to))
        PROVE  Removing'
    <3>1. Removal(s, to, FALSE)'
      BY <1>0, <2>1 DEF Removal, Self
    <3>2. Persists(s, to, FALSE)'
      BY <1>0, <2>1 DEF Persists, Two, PersistFor, Erase, Starts, RemoveSession
    <3>3. QED
      BY <3>1, <3>2 DEF Removing
  <2>2. CASE Evict(s) \/ Disconnect(s)
    BY <2>1, <2>2 DEF Evict, Disconnect, AtStep
  <2>3. ASSUME NEW i \in Item, Buy(s, i) \/ Sell(s, i) \/ Delete(s, i)
        PROVE  Trading'
    <3>1. Active(Self)' /\ (conn'[s].stage = "removed" => conn'[s].account \in shared')
      BY <1>0, <2>3 DEF Buy, Sell, Delete, Active, Touched, Self
    <3>2. \/ handler'.todo = <<ItemStep("remove", i)>>
          \/ \E d \in {"insert", "remove"}, v \in Value :
                handler'.todo = <<ItemStep(d, i), SetMp(v)>>
      <4>1. conn[s].balance["mp"] \in Value
        BY ConnTypes, AccountsAssumption
      <4>2. CASE Buy(s, i)
        <5>1. conn[s].balance["mp"] - 1 \in Value
          BY <4>1, <4>2, AccountsAssumption DEF Buy
        <5>2. QED
          BY <4>2, <5>1 DEF Buy, Starts, ItemStep, SetMp
      <4>3. CASE Sell(s, i)
        BY <4>3 DEF Sell, Starts, ItemStep, SetMp
      <4>4. CASE Delete(s, i)
        BY <4>4 DEF Delete, Starts, ItemStep
      <4>5. QED
        BY <2>3, <4>2, <4>3, <4>4
    <3>3. QED
      BY <1>0, <3>1, <3>2 DEF Trading, Self
  <2>4. QED
    BY <2>2, <2>3 DEF AtStep
<1>2. Places'
  BY <1>0, AtRest DEF Places, schedVars
<1>3. Owners'
  BY <1>0 DEF Owners, Online
<1>4. OthersWritten'
  BY <1>0 DEF OthersWritten, Online, Written, schedVars, queueVars
<1>5. Charged'
  BY <1>0, AtRest DEF Charged, Buys, schedVars, queueVars
<1>6. Copies'
  BY <1>0, AtRest DEF Copies, Current, schedVars
<1>7. QED
  BY <1>1, <1>2, <1>3, <1>4, <1>5, <1>6

\* A login reads the row; the account is its own, or it shares it.
LEMMA LoginStep ==
    ASSUME IInv, NoWriteLost, StepsInv, NEW s \in Session, NEW a \in Account, Login(s, a)
    PROVE  StepsInv'
<1> USE DEF StepsInv
<1> DEFINE new == [stage |-> "login", account |-> a, items |-> {}, balance |-> row[a]]
<1>0. /\ Idle /\ conn[s].stage = "new" /\ a # NoAccount
      /\ conn' = [conn EXCEPT ![s] = new] /\ conn \in [Session -> Connection]
      /\ UNCHANGED schedVars
      /\ handler'.session = s /\ ~Idle'
      /\ shared' = IF \E t \in Session : conn[t].account = a THEN shared \cup {a} ELSE shared
  BY AccountsAssumption DEF Login, Starts, Idle, IInv, TypeOK
<1>1. /\ conn'[s] = new /\ conn'[s].stage = "login" /\ conn'[s].account = a
      /\ conn'[s].balance = row[a]
      /\ \A t \in Session \ {s} : conn'[t] = conn[t]
      /\ shared \subseteq shared'
  BY <1>0
<1> HIDE DEF new
<1>2. \A b \in Account : Online(b)' = Online(b)
  BY <1>0, <1>1 DEF Online
<1>3. AtStep'
  <2>1. handler'.todo = TakenOver(a) \o <<Attach, SendInventory>>
    BY DEF Login, Starts, Attach, SendInventory
  <2>2. CASE Online(a) = {}
    <3>1. handler'.todo = <<Attach, SendInventory>>
      BY <2>1, <2>2, ListsOfSteps DEF TakenOver
    <3>2. Attaching'
      BY <1>0, <1>1, <1>2, <2>2, <3>1 DEF Attaching, Self
    <3>3. QED
      BY <3>2 DEF AtStep
  <2>3. CASE Online(a) # {}
    <3>1. PICK t \in Online(a) : TakenOver(a) = RemoveSession(t, "new")
      BY <2>3 DEF TakenOver
    <3>2. t \in Session /\ t # s /\ conn[t].stage = "online" /\ conn[t].account = a
      BY <1>0 DEF Online
    <3>3. handler'.todo = Two(PersistFor(a), Erase(t, "new"), TRUE)
      <4>1. TakenOver(a) = <<PersistFor(a), Erase(t, "new")>>
        BY <3>1, <3>2 DEF RemoveSession, PersistFor, Erase
      <4>2. <<PersistFor(a), Erase(t, "new")>> \o <<Attach, SendInventory>>
               = <<PersistFor(a), Erase(t, "new"), Attach, SendInventory>>
        BY TwoAndTwo
      <4>3. QED
        BY <2>1, <4>1, <4>2 DEF Two
    <3>4. Persists(t, "new", TRUE)'
      BY <1>1, <3>2, <3>3 DEF Persists, Two, PersistFor, Erase
    <3>5. Removal(t, "new", TRUE)'
      BY <1>0, <1>1, <3>2 DEF Removal, Self
    <3>6. QED
      BY <3>2, <3>4, <3>5 DEF AtStep, Removing
  <2>4. QED
    BY <2>2, <2>3
<1>4. Places'
  BY <1>0, <1>1, AtRest DEF Places, schedVars
<1>5. Owners'
  <2>1. ASSUME NEW t \in Session, NEW u \in Session, t # u,
               conn'[t].account = conn'[u].account, conn'[t].account # NoAccount
        PROVE  conn'[t].account \in shared'
    <3>1. CASE t # s /\ u # s
      BY <1>1, <2>1, <3>1 DEF Owners
    <3>2. CASE t = s \/ u = s
      BY <1>0, <1>1, <2>1, <3>2
    <3>3. QED
      BY <3>1, <3>2
  <2>2. \A b \in Account : \A t, u \in Online(b)' : t = u
    BY <1>2 DEF Owners
  <2>3. QED
    BY <2>1, <2>2 DEF Owners
<1>6. OthersWritten'
  BY <1>0, <1>1, <1>2 DEF OthersWritten, Written, schedVars, queueVars
<1>7. Charged'
  BY <1>0, AtRest DEF Charged, Buys, schedVars, queueVars
<1>8. Copies'
  <2>1. ASSUME a \notin lost \cup shared'
        PROVE  row[a] = dueRow[a]
    <3>1. \A t \in Session : conn[t].account # a
      BY <1>0, <2>1
    <3>2. Online(a) = {} /\ a \notin shared
      BY <1>1, <2>1, <3>1 DEF Online
    <3>3. AddsUp(a) /\ Written(a)
      BY <2>1, <3>2 DEF NoWriteLost, OthersWritten
    <3>4. row[a] \in [Key -> Value] /\ dueRow[a] \in [Key -> Value]
      BY DEF IInv, TypeOK, SchedTypeOK
    <3>5. \A k \in Key : dueRow[a][k] = row[a][k]
      BY <3>3 DEF AddsUp, Written, WillRead
    <3>6. QED
      BY <3>4, <3>5
  <2>2. Current(s)'
    BY <1>0, <1>1, <2>1 DEF Current, schedVars
  <2>3. ASSUME NEW t \in Session, t # s PROVE Current(t)'
    BY <1>0, <1>1, <2>3, AtRest DEF Copies, Current, schedVars
  <2>4. QED
    BY <2>2, <2>3 DEF Copies
<1>9. QED
  BY <1>3, <1>4, <1>5, <1>6, <1>7, <1>8

LEMMA DisconnectRemovedStep ==
    ASSUME IInv, StepsInv, NEW s \in Session, DisconnectRemoved(s)
    PROVE  StepsInv'
<1> USE DEF StepsInv
<1>0. /\ Idle /\ Idle' /\ conn[s].stage = "removed"
      /\ UNCHANGED <<schedVars, handler, shared>>
      /\ conn'[s] = FreshConnection
      /\ \A t \in Session \ {s} : conn'[t] = conn[t]
  BY DEF DisconnectRemoved, Idle, IInv, TypeOK
<1>1. conn'[s].stage = "new" /\ conn'[s].account = NoAccount
  BY <1>0 DEF FreshConnection
<1>2. \A b \in Account : Online(b)' = Online(b)
  BY <1>0, <1>1 DEF Online
<1>3. AtStep' /\ Places'
  BY <1>0, <1>1, AtRest DEF AtStep, Places, schedVars
<1>4. Owners'
  BY <1>0, <1>1, <1>2 DEF Owners
<1>5. OthersWritten' /\ Charged'
  BY <1>0, <1>2, AtRest DEF OthersWritten, Charged, Buys, Written, schedVars, queueVars
<1>6. Copies'
  BY <1>0, <1>1, AtRest DEF Copies, Current, schedVars
<1>7. QED
  BY <1>3, <1>4, <1>5, <1>6

-----------------------------------------------------------------------------
(* The steps of a handler. *)

\* persistFor takes the mutex for the account of the session it removes.
LEMMA PersistForStep ==
    ASSUME IInv, StepsInv, ~Idle, StepPersistFor
    PROVE  StepsInv'
<1> USE DEF StepsInv
<1>1. PICK t \in Session, to \in {"new", "removed"}, login \in BOOLEAN :
         Removal(t, to, login) /\ Persists(t, to, login)
  BY NextStep DEF StepPersistFor
<1> DEFINE a == conn[t].account
<1>2. a \in Account /\ Step1 = PersistFor(a)
  <2>1. Head(Two(PersistFor(a), Erase(t, to), login)) = PersistFor(a)
    BY OneAndTwo
  <2>2. QED
    BY <1>1, <2>1, ConnTypes DEF Persists, Step1
<1>3. /\ mutex = "free" /\ mutex' = "handler" /\ scope' = {a}
      /\ UNCHANGED <<stored, row, queueVars, lost, dueItems, dueRow, conn, shared>>
  BY <1>2 DEF StepPersistFor, BeginPass, PersistFor
<1>4. /\ handler'.session = Self /\ ~Idle'
      /\ handler'.todo = [handler.todo EXCEPT ![1] = Persisting]
  BY DEF StepPersistFor, Idle, Self, IInv, TypeOK, Persisting
<1>5. handler'.todo = Two(Persisting, Erase(t, to), login)
  <2>1. CASE login
    <3> DEFINE S == {PersistFor(a), Erase(t, to), Attach, SendInventory, Persisting}
    <3>1. /\ PersistFor(a) \in S /\ Erase(t, to) \in S /\ Attach \in S
          /\ SendInventory \in S /\ Persisting \in S
      OBVIOUS
    <3> HIDE DEF S
    <3>2. handler.todo = <<PersistFor(a), Erase(t, to), Attach, SendInventory>>
      BY <1>1, <2>1 DEF Persists, Two
    <3>3. [<<PersistFor(a), Erase(t, to), Attach, SendInventory>> EXCEPT ![1] = Persisting]
             = <<Persisting, Erase(t, to), Attach, SendInventory>>
      BY <3>1, FirstOfFour
    <3>4. QED
      BY <1>4, <2>1, <3>2, <3>3 DEF Two
  <2>2. CASE ~login
    <3> DEFINE S == {PersistFor(a), Erase(t, to), Persisting}
    <3>1. PersistFor(a) \in S /\ Erase(t, to) \in S /\ Persisting \in S
      OBVIOUS
    <3> HIDE DEF S
    <3>2. handler.todo = <<PersistFor(a), Erase(t, to)>>
      BY <1>1, <2>2 DEF Persists, Two
    <3>3. [<<PersistFor(a), Erase(t, to)>> EXCEPT ![1] = Persisting] = <<Persisting, Erase(t, to)>>
      BY <3>1, FirstOfTwo
    <3>4. QED
      BY <1>4, <2>2, <3>2, <3>3 DEF Two
  <2>3. QED
    BY <2>1, <2>2
<1>6. Step1' = Persisting
  BY <1>5, OneAndTwo DEF Step1
<1>7. AtStep'
  <2>1. Writes(t, to, login)'
    BY <1>3, <1>5 DEF Writes, Two, Persisting, Erase, Attach, SendInventory
  <2>2. Removal(t, to, login)'
    BY <1>1, <1>3, <1>4 DEF Removal, Self
  <2>3. QED
    BY <2>1, <2>2 DEF AtStep, Removing
<1>8. Places' /\ Owners' /\ OthersWritten'
  BY <1>3, <1>4, <1>6 DEF Places, Owners, OthersWritten, Written, Online, Self, queueVars, Persisting
<1>9. ~Charging /\ ~Reading
  BY DueStep DEF StepPersistFor
<1>10. Charged' /\ Copies'
  BY <1>3, <1>9 DEF Charged, Buys, Copies, Current, queueVars
<1>11. QED
  BY <1>7, <1>8, <1>10

\* It gives the mutex back when the account's queue is empty.
LEMMA PersistedStep ==
    ASSUME IInv, StepsInv, ~Idle, StepPersisted
    PROVE  StepsInv'
<1> USE DEF StepsInv
<1>1. PICK t \in Session, to \in {"new", "removed"}, login \in BOOLEAN :
         Removal(t, to, login) /\ Writes(t, to, login)
  BY NextStep DEF StepPersisted
<1>2. /\ mutex = "handler" /\ mutex' = "free" /\ Written(conn[t].account)
      /\ UNCHANGED <<stored, row, incremental, callbacks, lost, dueItems, dueRow, conn, shared>>
  BY <1>1 DEF StepPersisted, EndPass, PassDone, IncrementalDone, Writes, Written
<1>3. /\ ~Idle' /\ handler'.session = Self
      /\ handler'.todo = One(Erase(t, to), login)
  <2>1. handler.todo = Two(Persisting, Erase(t, to), login)
    BY <1>1 DEF Writes
  <2>2. Len(handler.todo) # 1 /\ Tail(handler.todo) = One(Erase(t, to), login)
    BY <2>1, OneAndTwo
  <2>3. QED
    BY <2>2, Advanced DEF StepPersisted
<1>4. AtStep'
  <2>1. Erases(t, to, login)'
    BY <1>2, <1>3 DEF Erases, One, Erase, Attach, SendInventory, Written
  <2>2. Removal(t, to, login)'
    BY <1>1, <1>2, <1>3 DEF Removal, Self
  <2>3. QED
    BY <2>1, <2>2 DEF AtStep, Removing
<1>5. Places' /\ Owners' /\ OthersWritten'
  BY <1>2, <1>3 DEF Places, Owners, OthersWritten, Written, Online, Self
<1>7. ~Charging /\ ~Reading
  BY DueStep DEF StepPersisted
<1>8. Charged' /\ Copies'
  BY <1>2, <1>7 DEF Charged, Buys, Copies, Current
<1>9. QED
  BY <1>4, <1>5, <1>8

\* The session that leaves the table leaves an empty queue.
LEMMA EraseStep ==
    ASSUME IInv, StepsInv, ~Idle, StepErase
    PROVE  StepsInv'
<1> USE DEF StepsInv
<1>1. PICK t \in Session, to \in {"new", "removed"}, login \in BOOLEAN :
         Removal(t, to, login) /\ Erases(t, to, login)
  BY NextStep DEF StepErase
<1>2. PICK a \in Account :
         /\ conn[t].account = a /\ conn[t].stage = "online" /\ Written(a) /\ a # NoAccount
         /\ handler.todo = One(Erase(t, to), login)
  BY <1>1, ConnTypes DEF Removal, Erases, Places
<1>3. Step1.session = t /\ Step1.to = to
  <2>1. Step1 = Erase(t, to)
    BY <1>2, OneAndTwo DEF Step1
  <2>2. QED
    BY <2>1 DEF Erase
<1>4. /\ conn'[t].stage = to
      /\ conn'[t].account = IF to = "new" THEN NoAccount ELSE a
      /\ \A s \in Session \ {t} : conn'[s] = conn[s]
      /\ UNCHANGED <<schedVars, shared>>
  <2>1. /\ conn' = [conn EXCEPT ![t] = IF to = "new" THEN FreshConnection
                                         ELSE [conn[t] EXCEPT !.stage = to]]
        /\ UNCHANGED <<schedVars, shared>>
    BY <1>3 DEF StepErase
  <2>2. conn \in [Session -> Connection] /\ conn[t] \in Connection
    BY DEF IInv, TypeOK
  <2>3. /\ conn'[t] = IF to = "new" THEN FreshConnection ELSE [conn[t] EXCEPT !.stage = to]
        /\ \A s \in Session \ {t} : conn'[s] = conn[s]
    BY <2>1, <2>2
  <2>4. CASE to = "new"
    BY <2>1, <2>3, <2>4 DEF FreshConnection
  <2>5. CASE to = "removed"
    BY <1>2, <2>1, <2>2, <2>3, <2>5 DEF Connection
  <2>6. QED
    BY <2>4, <2>5
<1>5. /\ \A b \in Account \ {a} : Online(b)' = Online(b)
      /\ Online(a)' = {}
      /\ \A b \in Account : Online(b)' \subseteq Online(b)
  <2>1. \A b \in Account, s \in Session \ {t} : s \in Online(b)' <=> s \in Online(b)
    BY <1>4 DEF Online
  <2>2. /\ \A b \in Account : t \notin Online(b)' /\ Online(b) \subseteq Session /\ Online(b)' \subseteq Session
        /\ \A b \in Account \ {a} : t \notin Online(b)
        /\ t \in Online(a)
    BY <1>2, <1>4 DEF Online
  <2>3. \A s \in Online(a) : s = t
    BY <2>2 DEF Owners
  <2>4. QED
    BY <2>1, <2>2, <2>3
<1>6. mutex # "handler"
  <2>1. Step1.do = "erase"
    BY DEF StepErase
  <2>2. QED
    BY <2>1 DEF Places, Persisting
<1>7. /\ login => /\ handler'.session = Self /\ ~Idle'
                  /\ handler'.todo = <<Attach, SendInventory>>
      /\ ~login => Idle' /\ handler'.session = NoSession
  <2>1. Len(handler.todo) = IF login THEN 3 ELSE 1
    BY <1>2, OneAndTwo
  <2>2. login => Tail(handler.todo) = <<Attach, SendInventory>>
    BY <1>2, OneAndTwo
  <2>3. Advance
    BY DEF StepErase
  <2>4. CASE login
    <3>1. Len(handler.todo) # 1
      BY <2>1, <2>4
    <3>2. QED
      BY <2>2, <2>3, <2>4, <3>1, Advanced
  <2>5. CASE ~login
    <3>1. Len(handler.todo) = 1
      BY <2>1, <2>5
    <3>2. QED
      BY <2>3, <2>5, <3>1, Advanced
  <2>6. QED
    BY <2>4, <2>5
<1>8. AtStep'
  <2>1. CASE login
    <3>1. PICK me \in Session : me = Self /\ me = handler.session
      BY DEF Self, IInv, Running
    <3>2. t # me /\ conn[me].stage = "login" /\ conn[me].account = a
      BY <1>1, <1>2, <2>1, <3>1 DEF Removal
    <3>3. Attaching'
      BY <1>4, <1>5, <1>7, <2>1, <3>1, <3>2 DEF Attaching, Self
    <3>4. QED
      BY <3>3 DEF AtStep
  <2>2. CASE ~login
    BY <1>7, <2>2 DEF AtStep
  <2>3. QED
    BY <2>1, <2>2
<1>9. Places'
  <2>1. ~login => \A s \in Session : conn[s].stage # "login"
    <3>1. ~login => t = Self /\ conn[Self].stage = "online"
      BY <1>1 DEF Removal
    <3>2. QED
      BY <3>1 DEF Places, Self
  <2>2. ASSUME NEW s \in Session
        PROVE  /\ conn'[s].stage = "login" => handler'.session = s
               /\ conn'[s].stage = "new" <=> conn'[s].account = NoAccount
    <3>1. CASE s = t
      BY <1>2, <1>4, <3>1
    <3>2. CASE s # t
      BY <1>4, <1>7, <2>1, <3>2 DEF Places, Self
    <3>3. QED
      BY <3>1, <3>2
  <2>3. QED
    BY <1>4, <1>6, <2>2 DEF Places, schedVars
<1>10. Owners'
  <2>1. ASSUME NEW s \in Session, NEW u \in Session, s # u,
               conn'[s].account = conn'[u].account, conn'[s].account # NoAccount
        PROVE  conn'[s].account \in shared'
    <3>1. conn[s].account = conn'[s].account /\ conn[u].account = conn'[u].account
      BY <1>2, <1>4, <2>1
    <3>2. QED
      BY <1>4, <2>1, <3>1 DEF Owners
  <2>2. \A b \in Account : \A s, u \in Online(b)' : s = u
    BY <1>5 DEF Owners
  <2>3. QED
    BY <2>1, <2>2 DEF Owners
<1>11. OthersWritten'
  BY <1>2, <1>4, <1>5 DEF OthersWritten, Written, schedVars, queueVars
<1>12. ~Charging /\ ~Reading
  BY DueStep DEF StepErase
<1>13. Charged'
  BY <1>4, <1>12 DEF Charged, Buys, schedVars, queueVars
<1>14. Copies'
  BY <1>4, <1>12 DEF Copies, Current, schedVars
<1>15. QED
  BY <1>8, <1>9, <1>10, <1>11, <1>13, <1>14

\* The new session enters the table, where its account has none.
LEMMA AttachStep ==
    ASSUME IInv, StepsInv, ~Idle, StepAttach
    PROVE  StepsInv'
<1> USE DEF StepsInv
<1>1. PICK me \in Session : me = Self /\ me = handler.session /\ Attaching
  BY NextStep DEF StepAttach, Self, IInv, Running
<1>2. PICK a \in Account : conn[me].account = a /\ a # NoAccount
  BY <1>1, ConnTypes DEF Attaching, Places
<1>3. /\ conn'[me].stage = "online" /\ conn'[me].account = a
      /\ conn'[me].balance = conn[me].balance
      /\ \A s \in Session \ {me} : conn'[s] = conn[s]
      /\ UNCHANGED <<schedVars, shared>>
  BY <1>1, <1>2, ConnTypes DEF StepAttach, IInv, TypeOK
<1>4. /\ \A b \in Account \ {a} : Online(b)' = Online(b)
      /\ Online(a)' = {me}
      /\ \A b \in Account : Online(b) \subseteq Online(b)'
  <2>1. Online(a) = {}
    BY <1>1, <1>2 DEF Attaching
  <2>2. QED
    BY <1>1, <1>2, <1>3, <2>1 DEF Online
<1>5. ~Idle' /\ handler'.session = me /\ handler'.todo = <<SendInventory>>
  <2>1. Len(handler.todo) = 2 /\ Tail(handler.todo) = <<SendInventory>>
    BY <1>1, <1>2, ListsOfSteps DEF Attaching
  <2>2. Advance /\ Len(handler.todo) # 1
    BY <2>1 DEF StepAttach
  <2>3. QED
    BY <1>1, <2>1, <2>2, Advanced
<1>6. a \notin shared => Written(a)
  BY <1>1, <1>2 DEF Attaching, OthersWritten
<1>7. Reading'
  BY <1>1, <1>2, <1>3, <1>5, <1>6 DEF Reading, Self, Written, schedVars, queueVars
<1>8. mutex # "handler"
  <2>1. Step1.do = "attach"
    BY DEF StepAttach
  <2>2. QED
    BY <2>1 DEF Places, Persisting
<1>9. Places'
  BY <1>1, <1>2, <1>3, <1>5, <1>8 DEF Places, Self, schedVars
<1>10. Owners'
  BY <1>1, <1>2, <1>3, <1>4 DEF Owners
<1>11. OthersWritten'
  BY <1>1, <1>2, <1>3, <1>4 DEF OthersWritten, Written, schedVars, queueVars
<1>12. ~Charging /\ ~Reading
  BY DueStep DEF StepAttach
<1>13. Charged'
  BY <1>3, <1>12 DEF Charged, Buys, schedVars, queueVars
<1>14. Copies'
  <2>1. conn[me].stage = "login"
    BY <1>1, <1>2 DEF Attaching
  <2>2. Current(me)'
    BY <1>1, <1>2, <1>3, <1>5, <1>7, <2>1 DEF Copies, Current, schedVars
  <2>3. ASSUME NEW s \in Session, s # me PROVE Current(s)'
    BY <1>3, <1>12, <2>3 DEF Copies, Current, schedVars
  <2>4. QED
    BY <2>2, <2>3 DEF Copies
<1>15. QED
  BY <1>7, <1>9, <1>10, <1>11, <1>13, <1>14 DEF AtStep

\* The items are read from a database that nothing is queued for.
LEMMA InventoryStep ==
    ASSUME IInv, NoWriteLost, StepsInv, ~Idle, StepInventory
    PROVE  StepsInv'
<1> USE DEF StepsInv
<1>1. PICK me \in Session : me = Self /\ me = handler.session /\ Reading
  BY NextStep DEF StepInventory, Self, IInv, Running
<1>2. PICK a \in Account : conn[me].account = a
  BY <1>1, ConnTypes
<1>3. /\ conn'[me].stage = conn[me].stage /\ conn'[me].account = a
      /\ conn'[me].balance = conn[me].balance /\ conn'[me].items = stored[a]
      /\ \A s \in Session \ {me} : conn'[s] = conn[s]
      /\ UNCHANGED <<schedVars, shared>>
  BY <1>1, <1>2, ConnTypes DEF StepInventory, IInv, TypeOK
<1>4. \A b \in Account : Online(b)' = Online(b)
  BY <1>1, <1>2, <1>3 DEF Online
<1>5. Idle' /\ handler'.session = NoSession
  <2>1. Len(handler.todo) = 1
    BY <1>1, <1>2, ListsOfSteps DEF Reading
  <2>2. QED
    BY <1>1, <1>2, <2>1, Advanced DEF StepInventory
<1>6. mutex # "handler"
  <2>1. Step1.do = "sendInventory"
    BY DEF StepInventory
  <2>2. QED
    BY <2>1 DEF Places, Persisting
<1>7. Places'
  BY <1>1, <1>2, <1>3, <1>6 DEF Places, Self, schedVars, Reading
<1>8. Owners'
  BY <1>1, <1>2, <1>3, <1>4 DEF Owners
<1>9. OthersWritten'
  BY <1>1, <1>2, <1>3, <1>4 DEF OthersWritten, Written, schedVars, queueVars
<1>10. ~Charging
  BY DueStep DEF StepInventory
<1>11. Charged'
  BY <1>3, <1>10 DEF Charged, Buys, schedVars, queueVars
<1>12. Copies'
  <2>1. ASSUME a \notin lost \cup shared PROVE stored[a] = dueItems[a]
    <3>1. Written(a) /\ AddsUp(a)
      BY <1>1, <1>2, <2>1 DEF Reading, NoWriteLost
    <3>2. stored[a] \subseteq Item /\ dueItems[a] \subseteq Item
      BY <1>2 DEF IInv, TypeOK, SchedTypeOK
    <3>3. \A i \in Item : i \in dueItems[a] <=> i \in stored[a]
      BY <3>1 DEF AddsUp, Written, HoldsAfter
    <3>4. QED
      BY <3>2, <3>3
  <2>2. Current(me)'
    BY <1>1, <1>2, <1>3, <2>1 DEF Copies, Current, schedVars
  <2>3. ASSUME NEW s \in Session, s # me PROVE Current(s)'
    BY <1>1, <1>2, <1>3, <2>3 DEF Copies, Current, schedVars, Self
  <2>4. QED
    BY <2>2, <2>3 DEF Copies
<1>13. QED
  BY <1>5, <1>7, <1>8, <1>9, <1>11, <1>12 DEF AtStep

\* Whoever trades is in the table, or shares the account; and nobody else has it
\* unless it is shared.
LEMMA TradersOwn ==
    ASSUME IInv, StepsInv, ~Idle, Trading
    PROVE  /\ Self \in Session /\ conn[Self].account \in Account \ {NoAccount}
           /\ conn[Self].account \notin shared => Self \in Online(conn[Self].account)
           /\ \A s \in Session \ {Self} :
                 conn[s].account = conn[Self].account => conn[s].account \in shared
           /\ \A s \in Session : conn[s].stage # "login"
<1> USE DEF StepsInv
<1>1. Self \in Session /\ conn[Self].stage \in {"online", "removed"}
  BY DEF Self, IInv, Running, Trading, Active
<1>2. conn[Self].account \in Account \ {NoAccount}
  BY <1>1, ConnTypes DEF Places
<1>3. QED
  BY <1>1, <1>2 DEF Places, Owners, Trading, Active, Online, Self

\* An item comes or goes, in the copy and in the queue.
LEMMA ItemQueued ==
    ASSUME IInv, StepsInv, ~Idle, StepItem
    PROVE  StepsInv'
<1> USE DEF StepsInv
<1>1. Trading /\ ~Charging /\ ~Reading /\ Step1.do \in {"insert", "remove"}
  BY NextStep, DueStep DEF StepItem
<1>w. PICK w : w = [kind |-> Step1.do, item |-> Step1.item]
  OBVIOUS
<1>2. PICK me \in Session, a \in Account :
         /\ me = Self /\ me = handler.session /\ conn[me].account = a /\ a # NoAccount
         /\ a \notin shared => me \in Online(a)
         /\ \A s \in Session \ {me} : conn[s].account = a => a \in shared
         /\ \A s \in Session : conn[s].stage # "login"
  <2>1. Self = handler.session
    BY DEF Self
  <2>2. QED
    BY <1>1, <2>1, TradersOwn
<1>3. /\ mutex = "free"
      /\ incremental' = [incremental EXCEPT ![a] = Put(@, counter + 1, w)]
      /\ dueItems' = [dueItems EXCEPT ![a] = Applied(@, w)]
      /\ UNCHANGED <<callbacks, mutex, lost, dueRow, shared>>
  BY <1>2, <1>w DEF StepItem, AddIncremental
<1>4. /\ conn'[me].stage = conn[me].stage /\ conn'[me].account = a
      /\ conn'[me].balance = conn[me].balance
      /\ conn'[me].items = Applied(conn[me].items, w)
      /\ \A s \in Session \ {me} : conn'[s] = conn[s]
  BY <1>2, <1>w, ConnTypes DEF StepItem, IInv, TypeOK
<1>5. \A b \in Account : Online(b)' = Online(b)
  BY <1>2, <1>4 DEF Online
<1>6. /\ Step1.do = "insert" => ~Idle' /\ Charging' /\ handler'.session = me
      /\ Idle' \/ (~Idle' /\ Charging' /\ handler'.session = me)
  <2>1. CASE \E i \in Item : handler.todo = <<ItemStep("remove", i)>>
    <3>1. PICK i \in Item : handler.todo = <<ItemStep("remove", i)>>
      BY <2>1
    <3>2. Len(handler.todo) = 1 /\ Step1 = ItemStep("remove", i)
      BY <3>1, ListsOfSteps DEF Step1
    <3>3. QED
      BY <1>2, <3>2, Advanced DEF StepItem, ItemStep
  <2>2. ASSUME NEW d \in {"insert", "remove"}, NEW i \in Item, NEW v \in Value,
               handler.todo = <<ItemStep(d, i), SetMp(v)>>
        PROVE  ~Idle' /\ Charging' /\ handler'.session = me
    <3>1. Len(handler.todo) = 2 /\ Tail(handler.todo) = <<SetMp(v)>>
      BY <2>2, ListsOfSteps
    <3>2. ~Idle' /\ handler'.session = me /\ handler'.todo = <<SetMp(v)>>
      <4>1. Advance /\ Len(handler.todo) # 1
        BY <3>1 DEF StepItem
      <4>2. QED
        BY <1>2, <3>1, <4>1, Advanced
    <3>3. QED
      BY <3>2 DEF Charging, SetMp
  <2>3. QED
    BY <1>1, <2>1, <2>2 DEF Trading
<1>7. AtStep'
  <2>1. CASE Idle'
    BY <2>1 DEF AtStep
  <2>2. CASE Charging' /\ handler'.session = me
    BY <1>1, <1>2, <1>3, <1>4, <2>2 DEF AtStep, Trading, Active, Self
  <2>3. QED
    BY <1>6, <2>1, <2>2
<1>8. Places'
  BY <1>2, <1>3, <1>4 DEF Places
<1>9. Owners'
  BY <1>2, <1>3, <1>4, <1>5 DEF Owners
<1>10. OthersWritten'
  <2>1. ASSUME NEW b \in Account \ shared', Online(b)' = {} PROVE Written(b)'
    <3>1. b # a
      BY <1>2, <1>3, <1>5, <2>1
    <3>2. incremental'[b] = incremental[b]
      BY <1>3, <3>1 DEF IInv, TypeOK, SchedTypeOK
    <3>3. QED
      BY <1>3, <1>5, <2>1, <3>2 DEF OthersWritten, Written
  <2>2. QED
    BY <2>1 DEF OthersWritten
<1>11. Charged'
  <2>1. ASSUME NEW b \in Account, Buys(b)'
        PROVE  "mp" \in DOMAIN callbacks'[b] \/ (~Idle' /\ Charging' /\ conn'[Self'].account = b)
    <3>1. CASE b # a
      <4>1. incremental'[b] = incremental[b]
        BY <1>3, <3>1 DEF IInv, TypeOK, SchedTypeOK
      <4>2. QED
        BY <1>1, <1>3, <2>1, <4>1 DEF Charged, Buys
    <3>2. CASE b = a /\ Step1.do = "insert"
      BY <1>4, <1>6, <3>2 DEF Self
    <3>3. CASE b = a /\ Step1.do = "remove"
      <4>1. incremental'[a] = Put(incremental[a], counter + 1, w)
        BY <1>2, <1>3 DEF IInv, TypeOK, SchedTypeOK
      <4>2. Buys(a)
        BY <1>2, <1>w, <2>1, <3>3, <4>1 DEF Buys, Put
      <4>3. "mp" \in DOMAIN callbacks[a]
        BY <1>1, <1>2, <4>2 DEF Charged
      <4>4. QED
        BY <1>3, <3>3, <4>3
    <3>4. QED
      BY <1>1, <3>1, <3>2, <3>3
  <2>2. QED
    BY <2>1 DEF Charged
<1>12. Copies'
  <2>1. Current(me)'
    <3>1. Current(me)
      BY <1>2 DEF Copies
    <3>2. dueItems'[a] = Applied(dueItems[a], w)
      BY <1>2, <1>3 DEF IInv, TypeOK, SchedTypeOK
    <3>3. QED
      BY <1>1, <1>2, <1>3, <1>4, <3>1, <3>2 DEF Current
  <2>2. ASSUME NEW s \in Session, s # me PROVE Current(s)'
    <3>1. Current(s) /\ conn[s].account \in Account
      BY ConnTypes DEF Copies
    <3>2. CASE conn[s].account = a
      BY <1>2, <1>3, <1>4, <2>2, <3>2 DEF Current
    <3>3. CASE conn[s].account # a
      <4>1. dueItems'[conn[s].account] = dueItems[conn[s].account]
        BY <1>3, <3>1, <3>3 DEF IInv, TypeOK, SchedTypeOK
      <4>2. QED
        BY <1>1, <1>2, <1>3, <1>4, <2>2, <3>1, <4>1 DEF Current
    <3>4. QED
      BY <3>2, <3>3
  <2>3. QED
    BY <2>1, <2>2 DEF Copies
<1>13. QED
  BY <1>7, <1>8, <1>9, <1>10, <1>11, <1>12

\* The price is set, in the copy and in the queue.
LEMMA PriceQueued ==
    ASSUME IInv, StepsInv, ~Idle, StepSet
    PROVE  StepsInv'
<1> USE DEF StepsInv
<1>1. Trading /\ Charging /\ ~Reading
  BY NextStep, DueStep DEF StepSet
<1>2. PICK me \in Session, a \in Account :
         /\ me = Self /\ me = handler.session /\ conn[me].account = a /\ a # NoAccount
         /\ a \notin shared => me \in Online(a)
         /\ \A s \in Session \ {me} : conn[s].account = a => a \in shared
         /\ \A s \in Session : conn[s].stage # "login"
  <2>1. Self = handler.session
    BY DEF Self
  <2>2. QED
    BY <1>1, <2>1, TradersOwn
<1>3. PICK v \in Value : handler.todo = <<SetMp(v)>>
  BY <1>1 DEF Charging
<1>4. Step1.key = "mp" /\ Step1.value = v /\ Len(handler.todo) = 1
  BY <1>3, ListsOfSteps DEF Step1, SetMp
<1>5. /\ mutex = "free"
      /\ callbacks' = [callbacks EXCEPT ![a] = Put(@, "mp", v)]
      /\ dueRow' = [dueRow EXCEPT ![a]["mp"] = v]
      /\ UNCHANGED <<incremental, mutex, lost, dueItems, shared>>
  BY <1>2, <1>4 DEF StepSet, AddKeyed
<1>6. /\ conn'[me].stage = conn[me].stage /\ conn'[me].account = a
      /\ conn'[me].items = conn[me].items
      /\ conn'[me].balance = [conn[me].balance EXCEPT !["mp"] = v]
      /\ \A s \in Session \ {me} : conn'[s] = conn[s]
  BY <1>2, <1>4, ConnTypes DEF StepSet, IInv, TypeOK
<1>7. \A b \in Account : Online(b)' = Online(b)
  BY <1>2, <1>6 DEF Online
<1>8. Idle'
  <2>1. Advance
    BY DEF StepSet
  <2>2. QED
    BY <1>4, <2>1, Advanced
<1>9. Places'
  BY <1>2, <1>5, <1>6 DEF Places
<1>10. Owners'
  BY <1>2, <1>5, <1>6, <1>7 DEF Owners
<1>11. OthersWritten'
  <2>1. ASSUME NEW b \in Account \ shared', Online(b)' = {} PROVE Written(b)'
    <3>1. b # a
      BY <1>2, <1>5, <1>7, <2>1
    <3>2. callbacks'[b] = callbacks[b]
      BY <1>5, <3>1 DEF IInv, TypeOK, SchedTypeOK
    <3>3. QED
      BY <1>5, <1>7, <2>1, <3>2 DEF OthersWritten, Written
  <2>2. QED
    BY <2>1 DEF OthersWritten
<1>12. Charged'
  <2>1. ASSUME NEW b \in Account, Buys(b)' PROVE "mp" \in DOMAIN callbacks'[b]
    <3>1. CASE b = a
      <4>1. callbacks'[a] = Put(callbacks[a], "mp", v)
        BY <1>2, <1>5 DEF IInv, TypeOK, SchedTypeOK
      <4>2. QED
        BY <3>1, <4>1 DEF Put
    <3>2. CASE b # a
      <4>1. callbacks'[b] = callbacks[b]
        BY <1>5, <3>2 DEF IInv, TypeOK, SchedTypeOK
      <4>2. QED
        BY <1>2, <1>5, <2>1, <3>2, <4>1 DEF Charged, Buys
    <3>3. QED
      BY <3>1, <3>2
  <2>2. QED
    BY <2>1 DEF Charged
<1>13. Copies'
  <2>1. Current(me)'
    <3>1. Current(me)
      BY <1>2 DEF Copies
    <3>2. dueRow'[a] = [dueRow[a] EXCEPT !["mp"] = v]
      BY <1>2, <1>5 DEF IInv, TypeOK, SchedTypeOK
    <3>3. QED
      BY <1>1, <1>2, <1>5, <1>6, <3>1, <3>2 DEF Current
  <2>2. ASSUME NEW s \in Session, s # me PROVE Current(s)'
    <3>1. Current(s) /\ conn[s].account \in Account
      BY ConnTypes DEF Copies
    <3>2. CASE conn[s].account = a
      BY <1>2, <1>5, <1>6, <2>2, <3>2 DEF Current
    <3>3. CASE conn[s].account # a
      <4>1. dueRow'[conn[s].account] = dueRow[conn[s].account]
        BY <1>5, <3>1, <3>3 DEF IInv, TypeOK, SchedTypeOK
      <4>2. QED
        BY <1>1, <1>2, <1>5, <1>6, <2>2, <3>1, <4>1 DEF Current
    <3>4. QED
      BY <3>2, <3>3
  <2>3. QED
    BY <2>1, <2>2 DEF Copies
<1>14. QED
  BY <1>8, <1>9, <1>10, <1>11, <1>12, <1>13 DEF AtStep

-----------------------------------------------------------------------------
(* The worker, and the end of the process. *)

\* A pass only takes writes out of the queue, and the items' first.
LEMMA PassTakes ==
    ASSUME SchedTypeOK, MakeWrite
    PROVE  /\ UNCHANGED <<mutex, scope, dueItems, dueRow>> /\ lost \subseteq lost'
           /\ \A b \in Account : Written(b) => Written(b)'
           /\ \A b \in Account : Buys(b)' => Buys(b) /\ callbacks'[b] = callbacks[b]
<1> USE DEF SchedTypeOK
<1>1. PICK a \in Account : MakeIncremental(a) \/ MakeKeyed(a)
  BY DEF MakeWrite
<1>2. CASE MakeIncremental(a)
  <2>1. PICK n \in DOMAIN incremental[a] : incremental' = [incremental EXCEPT ![a] = Erased(@, n)]
    BY <1>2 DEF MakeIncremental
  <2>2. UNCHANGED <<mutex, scope, callbacks, dueItems, dueRow>> /\ lost \subseteq lost'
    BY <1>2 DEF MakeIncremental, Refused
  <2>3. /\ incremental'[a] = Erased(incremental[a], n)
        /\ \A b \in Account \ {a} : incremental'[b] = incremental[b]
    BY <2>1
  <2>4. ~Written(a)
    BY <2>1 DEF Written
  <2>5. Buys(a)' => Buys(a)
    BY <2>3 DEF Buys, Erased
  <2>6. \A b \in Account \ {a} : (Written(b) => Written(b)') /\ (Buys(b)' => Buys(b))
    BY <2>2, <2>3 DEF Written, Buys
  <2>7. QED
    BY <2>2, <2>4, <2>5, <2>6
<1>3. CASE MakeKeyed(a)
  <2>1. PICK k \in DOMAIN callbacks[a] : callbacks' = [callbacks EXCEPT ![a] = Erased(@, k)]
    BY <1>3 DEF MakeKeyed
  <2>2. /\ UNCHANGED <<mutex, scope, incremental, dueItems, dueRow>> /\ lost \subseteq lost'
        /\ DOMAIN incremental[a] = {}
    BY <1>3 DEF MakeKeyed, Refused, IncrementalDone
  <2>3. /\ callbacks'[a] = Erased(callbacks[a], k)
        /\ \A b \in Account \ {a} : callbacks'[b] = callbacks[b]
    BY <2>1
  <2>4. ~Written(a)
    BY <2>1 DEF Written
  <2>5. ~Buys(a)'
    BY <2>2 DEF Buys
  <2>6. \A b \in Account \ {a} : (Written(b) => Written(b)') /\ (Buys(b)' => Buys(b))
    BY <2>2, <2>3 DEF Written, Buys
  <2>7. QED
    BY <2>2, <2>3, <2>4, <2>5, <2>6
<1>4. QED
  BY <1>1, <1>2, <1>3

\* What the worker does to the queue, the handlers do not notice.
LEMMA QueueShrinks ==
    ASSUME IInv, StepsInv,
           UNCHANGED <<conn, handler, shared, dueItems, dueRow>>, lost \subseteq lost',
           mutex' = "handler" => mutex = "handler",
           mutex = "handler" => mutex' = "handler" /\ scope' = scope,
           \A b \in Account : Written(b) => Written(b)',
           \A b \in Account : Buys(b)' => Buys(b) /\ callbacks'[b] = callbacks[b]
    PROVE  StepsInv'
<1> USE DEF StepsInv
<1>1. Self' = Self /\ Step1' = Step1 /\ Idle' = Idle
  BY DEF Self, Step1, Idle
<1>2. \A b \in Account : Online(b)' = Online(b)
  BY DEF Online
<1>3. \A s \in Session : conn[s].account \in Account
  BY ConnTypes
<1>4. Self \in Session /\ Reading => Reading'
  BY <1>1, <1>3 DEF Reading
<1>5. Charging' <=> Charging
  BY DEF Charging
<1>6. AtStep'
  <2>1. CASE Idle
    BY <1>1, <2>1 DEF AtStep
  <2>2. CASE ~Idle /\ Reading
    BY <1>4, <2>2 DEF AtStep, Self, IInv, Running
  <2>3. ASSUME NEW t \in Session, NEW to \in {"new", "removed"}, NEW login \in BOOLEAN,
               Removal(t, to, login),
               Persists(t, to, login) \/ Writes(t, to, login) \/ Erases(t, to, login)
        PROVE  Removing'
    <3>1. Removal(t, to, login)'
      BY <1>1, <2>3 DEF Removal
    <3>2. Persists(t, to, login) => Persists(t, to, login)'
      BY DEF Persists, Two, PersistFor, Erase, Attach, SendInventory
    <3>3. Writes(t, to, login) => Writes(t, to, login)'
      BY DEF Writes, Two, Persisting, Erase, Attach, SendInventory
    <3>4. Erases(t, to, login) => Erases(t, to, login)'
      BY <1>3 DEF Erases, One, Erase, Attach, SendInventory
    <3>5. QED
      BY <2>3, <3>1, <3>2, <3>3, <3>4 DEF Removing
  <2>4. CASE Removing
    BY <2>3, <2>4 DEF Removing, AtStep
  <2>5. CASE ~Idle /\ Attaching
    <3>1. PICK me \in Session : me = Self /\ me = Self'
      BY <1>1, <2>5 DEF Self, IInv, Running
    <3>2. Online(conn[me].account)' = Online(conn[me].account)
      BY <1>2, <1>3
    <3>3. Attaching'
      BY <2>5, <3>1, <3>2 DEF Attaching, Attach, SendInventory
    <3>4. QED
      BY <3>3 DEF AtStep
  <2>6. CASE Trading
    BY <1>1, <1>5, <2>6 DEF AtStep, Trading, Active, ItemStep, SetMp
  <2>7. QED
    BY <2>1, <2>2, <2>4, <2>5, <2>6 DEF AtStep
<1>7. Places'
  BY <1>1 DEF Places, Persisting
<1>8. Owners' /\ OthersWritten'
  BY <1>2 DEF Owners, OthersWritten
<1>9. Charged'
  BY <1>1, <1>5 DEF Charged
<1>10. Copies'
  BY <1>1, <1>3, <1>4 DEF Copies, Current, Self
<1>11. QED
  BY <1>6, <1>7, <1>8, <1>9, <1>10

LEMMA WorkerStep ==
    ASSUME IInv, StepsInv, Wake \/ WriteBack \/ WorkerSleeps
    PROVE  StepsInv'
<1>1. CASE Wake
  <2>1. /\ UNCHANGED <<conn, handler, shared, dueItems, dueRow, lost, incremental, callbacks>>
        /\ mutex = "free" /\ mutex' = "worker"
    BY <1>1 DEF Wake, WorkerWakes, BeginPass, queueVars
  <2>2. \A b \in Account : (Written(b) => Written(b)') /\ (Buys(b)' => Buys(b))
    BY <2>1 DEF Written, Buys
  <2>3. QED
    BY <2>1, <2>2, QueueShrinks
<1>2. CASE WriteBack
  <2>1. UNCHANGED <<conn, handler, shared>> /\ MakeWrite /\ SchedTypeOK
    BY <1>2 DEF WriteBack, IInv, TypeOK
  <2>2. QED
    BY <2>1, PassTakes, QueueShrinks
<1>3. CASE WorkerSleeps
  <2>1. /\ UNCHANGED <<conn, handler, shared, dueItems, dueRow, lost, incremental, callbacks>>
        /\ mutex = "worker" /\ mutex' = "free"
    BY <1>3 DEF WorkerSleeps, EndPass
  <2>2. \A b \in Account : (Written(b) => Written(b)') /\ (Buys(b)' => Buys(b))
    BY <2>1 DEF Written, Buys
  <2>3. QED
    BY <2>1, <2>2, QueueShrinks
<1>4. QED
  BY <1>1, <1>2, <1>3

\* All connections are new and nothing is queued: at the start and after a crash.
LEMMA Fresh ==
    ASSUME handler.session = NoSession, mutex = "free",
           conn = [s \in Session |-> FreshConnection],
           \A a \in Account : Written(a)
    PROVE  StepsInv
<1>1. \A s \in Session : conn[s].stage = "new" /\ conn[s].account = NoAccount
  BY DEF FreshConnection
<1>2. Owners /\ Copies
  BY <1>1 DEF Owners, Copies, Current, Online
<1>3. AtStep /\ Places /\ OthersWritten /\ Charged
  BY <1>1 DEF AtStep, Idle, Places, OthersWritten, Charged, Buys, Written
<1>4. QED
  BY <1>2, <1>3 DEF StepsInv

LEMMA RestartStep ==
    ASSUME Restart
    PROVE  StepsInv'
<1>1. /\ handler'.session = NoSession /\ mutex' = "free"
      /\ conn' = [s \in Session |-> FreshConnection]
      /\ \A a \in Account : incremental'[a] = <<>> /\ callbacks'[a] = <<>>
  BY DEF Restart, Crash
<1>2. \A a \in Account : Written(a)'
  BY <1>1 DEF Written
<1>3. \A s \in Session : conn'[s].stage = "new" /\ conn'[s].account = NoAccount
  BY <1>1 DEF FreshConnection
<1>4. (Owners /\ Copies)'
  BY <1>3 DEF Owners, Copies, Current, Online
<1>5. (AtStep /\ Places /\ OthersWritten /\ Charged)'
  BY <1>1, <1>2, <1>3 DEF AtStep, Idle, Places, OthersWritten, Charged, Buys, Written
<1>6. QED
  BY <1>4, <1>5 DEF StepsInv

LEMMA InitStepsInv == Init => StepsInv
<1> SUFFICES ASSUME Init PROVE StepsInv
  OBVIOUS
<1>1. \A a \in Account : Written(a)
  BY DEF Init, SchedInit, Written
<1>2. QED
  BY <1>1, Fresh DEF Init, SchedInit

LEMMA NextStepsInv == IInv /\ NoWriteLost /\ StepsInv /\ [Next]_vars => StepsInv'
<1> SUFFICES ASSUME IInv, NoWriteLost, StepsInv, [Next]_vars PROVE StepsInv'
  OBVIOUS
<1>1. ASSUME NEW s \in Session, NEW a \in Account, Login(s, a) PROVE StepsInv'
  BY <1>1, LoginStep
<1>2. ASSUME NEW s \in Session, NEW i \in Item, Buy(s, i) \/ Sell(s, i) \/ Delete(s, i)
      PROVE  StepsInv'
  BY <1>2, StartStep
<1>3. ASSUME NEW s \in Session, Evict(s) \/ Disconnect(s) PROVE StepsInv'
  BY <1>3, StartStep
<1>4. ASSUME NEW s \in Session, DisconnectRemoved(s) PROVE StepsInv'
  BY <1>4, DisconnectRemovedStep
<1>5. CASE HandlerStep
  BY <1>5, PersistForStep, PersistedStep, EraseStep, AttachStep, InventoryStep, ItemQueued,
     PriceQueued DEF HandlerStep
<1>6. CASE Wake \/ WriteBack \/ WorkerSleeps
  BY <1>6, WorkerStep
<1>7. CASE Restart
  BY <1>7, RestartStep
<1>8. CASE UNCHANGED vars
  <2>1. UNCHANGED <<conn, handler, shared, dueItems, dueRow, lost, incremental, callbacks, mutex, scope>>
    BY <1>8 DEF vars, schedVars, queueVars
  <2>2. \A b \in Account : (Written(b) => Written(b)') /\ (Buys(b)' => Buys(b))
    BY <2>1 DEF Written, Buys
  <2>3. QED
    BY <2>1, <2>2, QueueShrinks
<1>9. QED
  BY <1>1, <1>2, <1>3, <1>4, <1>5, <1>6, <1>7, <1>8 DEF Next

LEMMA StepsCorrect == Spec => [](IInv /\ StepsInv)
<1>1. Spec => []IInv
  BY InitIInvAccounts, NextIInvAccounts, PTL DEF Spec
<1>2. Spec => []NoWriteLost
  BY AccountsCorrect
<1>3. QED
  BY <1>1, <1>2, InitStepsInv, NextStepsInv, PTL DEF Spec

\* getSessionByAccountId finds the one session a login has to close.
THEOREM OneSessionEach == Spec => []OneInTable
<1>1. StepsInv => OneInTable
  <2> SUFFICES ASSUME StepsInv, NEW a \in Account PROVE Cardinality(Online(a)) <= 1
    BY DEF OneInTable
  <2>1. CASE Online(a) = {}
    BY <2>1, FS_EmptySet
  <2>2. CASE Online(a) # {}
    <3>1. PICK s \in Online(a) : TRUE
      BY <2>2
    <3>2. Online(a) = {s}
      BY <3>1 DEF StepsInv, Owners
    <3>3. QED
      BY <3>2, FS_Singleton
  <2>3. QED
    BY <2>1, <2>2
<1>2. QED
  BY <1>1, StepsCorrect, PTL

\* removeSession leaves nothing queued, for any number of connections, accounts
\* and items, whatever the worker has done meanwhile.
THEOREM NothingLeftBehind == Spec => []OfflineIsWritten
<1>1. StepsInv => OfflineIsWritten
  BY DEF StepsInv, OthersWritten, Written, OfflineIsWritten
<1>2. QED
  BY <1>1, StepsCorrect, PTL

\* What a login reads without the mutex is what the database will hold.
THEOREM CopiesCorrect == Spec => []CopyIsCurrent
<1>1. IInv /\ StepsInv => CopyIsCurrent
  BY AtRest DEF StepsInv, Copies, Current, CopyIsCurrent
<1>2. QED
  BY <1>1, StepsCorrect, PTL

\* No crash takes the price without leaving the item.
THEOREM ItemBeforePrice == Spec => []NotChargedFirst
<1>1. IInv /\ StepsInv => NotChargedFirst
  BY AtRest DEF NotChargedFirst, Buys
<1>2. QED
  BY <1>1, StepsCorrect, PTL
=============================================================================
