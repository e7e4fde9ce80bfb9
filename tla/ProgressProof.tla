---------------------------- MODULE ProgressProof ----------------------------
(***************************************************************************)
(* What the session of an account shows and what its row will be agree, in *)
(* every field, and a calendar gives one item a day: for every set of      *)
(* missions, calendars and outcomes of matches, any limits, any number of  *)
(* packets, passes, logins and ends of the process.                        *)
(*                                                                         *)
(* The properties speak of the database once the queue is written, which   *)
(* is a recursion along the queue.  The first part says what holds of it   *)
(* without induction over data: a queue has a chain of databases           *)
(* (Chain), and of the places where a chain goes wrong there would be a    *)
(* first one (LeastNatural).  The second part says what each kind of write *)
(* does, the third states the invariant, the fourth goes through the       *)
(* handlers.                                                               *)
(***************************************************************************)
EXTENDS Progress, NaturalsInduction, WellFoundedInduction, SequenceTheorems, TLAPS

LEMMA LeastNatural ==
    ASSUME NEW T \in SUBSET Nat, T # {}
    PROVE  \E x \in T : \A y \in T : x <= y
<1>1. \A m, n \in Nat : m < n => <<m, n>> \in OpToRel(<, Nat)
  BY DEF OpToRel
<1>2. PICK R : IsWellFoundedOn(R, Nat) /\ \A m, n \in Nat : m < n => <<m, n>> \in R
  BY <1>1, NatLessThanWellFounded
<1>3. T \subseteq Nat /\ T # {} /\ IsWellFoundedOn(R, Nat)
  BY <1>2
<1>4. PICK x \in T : \A y \in T : ~ (<<y, x>> \in R)
  BY ONLY <1>3, WFMin
<1>5. ASSUME NEW y \in T PROVE x <= y
  <2>1. x \in Nat /\ y \in Nat /\ ~ (<<y, x>> \in R)
    BY <1>4
  <2>2. ~ (y < x)
    BY <1>2, <2>1
  <2>3. QED
    BY <2>1, <2>2
<1>6. QED
  BY <1>4, <1>5

-----------------------------------------------------------------------------
(* What a queue makes of the database. *)

\* The databases from one to the other, write by write.
Chain(g, d, ws) ==
    g = [n \in 0 .. Len(ws) |-> IF n = 0 THEN d ELSE Applied(g[n - 1], ws[n])]

LEMMA ChainSteps ==
    ASSUME NEW ws, Len(ws) \in Nat, NEW d, NEW g, Chain(g, d, ws)
    PROVE  /\ g[0] = d
           /\ \A i \in 1 .. Len(ws) : g[i] = Applied(g[i - 1], ws[i])
<1>1. Len(ws) \in Nat
  OBVIOUS
<1>2. \A n \in 0 .. Len(ws) : g[n] = IF n = 0 THEN d ELSE Applied(g[n - 1], ws[n])
  BY Zenon DEF Chain
<1>3. QED
  BY <1>1, <1>2

LEMMA MadeByChain ==
    ASSUME NEW ws, Len(ws) \in Nat, NEW d
    PROVE  \E g : Chain(g, d, ws) /\ Made(d, ws) = g[Len(ws)]
<1> DEFINE Up(g, k) == g = [n \in 0 .. k |-> IF n = 0 THEN d ELSE Applied(g[n - 1], ws[n])]
           Bad == {k \in 0 .. Len(ws) : ~ \E g : Up(g, k)}
<1>1. Len(ws) \in Nat
  OBVIOUS
<1>2. Bad = {}
  <2>1. SUFFICES ASSUME Bad # {} PROVE FALSE
    OBVIOUS
  <2>2. Bad \in SUBSET Nat
    BY <1>1
  <2>3. PICK k \in Bad : \A y \in Bad : k <= y
    BY <2>1, <2>2, LeastNatural
  <2>4. k \in 0 .. Len(ws) /\ ~ \E g : Up(g, k)
    BY <2>3
  <2>5. CASE k = 0
    <3>1. [n \in 0 .. 0 |-> d] = [n \in 0 .. 0 |-> IF n = 0 THEN d
                                                  ELSE Applied([m \in 0 .. 0 |-> d][n - 1], ws[n])]
      OBVIOUS
    <3>2. Up([n \in 0 .. 0 |-> d], 0)
      BY <3>1
    <3>3. QED
      BY <2>4, <2>5, <3>2
  <2>6. CASE k # 0
    <3>1. k - 1 \in 0 .. Len(ws) /\ k \in Nat /\ ~(k <= k - 1)
      BY <2>4, <2>6, <1>1
    <3>2. k - 1 \notin Bad
      <4> HIDE DEF Bad
      <4> QED BY <2>3, <3>1
    <3>3. PICK g : Up(g, k - 1)
      BY <3>1, <3>2
    <3> DEFINE h == [n \in 0 .. k |-> IF n = 0 THEN d ELSE Applied(g[n - 1], ws[n])]
    <3>4. \A n \in 0 .. k - 1 : g[n] = IF n = 0 THEN d ELSE Applied(g[n - 1], ws[n])
      BY <3>3
    <3>5. \A n \in 0 .. k - 1 : h[n] = IF n = 0 THEN d ELSE Applied(g[n - 1], ws[n])
      BY <3>1
    <3>6. \A n \in 0 .. k - 1 : h[n] = g[n]
      <4> HIDE DEF h, Bad
      <4> QED BY <3>4, <3>5
    <3>7. \A n \in 0 .. k : n # 0 => h[n - 1] = g[n - 1]
      <4> HIDE DEF h, Bad
      <4> QED BY <3>6, <3>1
    <3>8. h = [n \in 0 .. k |-> IF n = 0 THEN d ELSE Applied(h[n - 1], ws[n])]
      <4> HIDE DEF Bad
      <4>1. \A n \in 0 .. k : (IF n = 0 THEN d ELSE Applied(g[n - 1], ws[n]))
                               = (IF n = 0 THEN d ELSE Applied(h[n - 1], ws[n]))
        <5> HIDE DEF h
        <5> QED BY <3>7
      <4>2. QED
        BY <4>1
    <3>9. Up(h, k)
      <4> HIDE DEF h
      <4> QED BY <3>8
    <3>10. QED
      BY <2>4, <3>9
  <2>7. QED
    BY <2>5, <2>6
<1>3. \E g : Chain(g, d, ws)
  BY <1>1, <1>2 DEF Chain
<1>4. Chain(CHOOSE g : Chain(g, d, ws), d, ws)
  BY <1>3
<1>5. Made(d, ws) = (CHOOSE g : Chain(g, d, ws))[Len(ws)]
  BY DEF Made, Chain
<1>6. QED
  BY <1>4, <1>5

LEMMA ChainsAlike ==
    ASSUME NEW g, NEW h, NEW n \in Nat, g[0] = h[0],
           \A i \in 1 .. n : g[i - 1] = h[i - 1] => g[i] = h[i]
    PROVE  g[n] = h[n]
<1> DEFINE Bad == {i \in 0 .. n : g[i] # h[i]}
<1>1. Bad = {}
  <2>1. SUFFICES ASSUME Bad # {} PROVE FALSE
    OBVIOUS
  <2>2. Bad \in SUBSET Nat
    OBVIOUS
  <2>3. PICK i \in Bad : \A y \in Bad : i <= y
    BY <2>1, <2>2, LeastNatural
  <2>4. i \in 0 .. n /\ g[i] # h[i]
    BY <2>3
  <2>5. i # 0
    BY <2>4
  <2>6. i - 1 \in 0 .. n /\ i \in 1 .. n /\ ~(i <= i - 1)
    BY <2>4, <2>5
  <2>7. i - 1 \notin Bad
    BY <2>3, <2>6
  <2>8. QED
    BY <2>4, <2>6, <2>7
<1>2. n \in 0 .. n
  OBVIOUS
<1>3. QED
  BY <1>1, <1>2

\* An empty queue changes nothing.
LEMMA MadeEmpty ==
    ASSUME NEW d
    PROVE  Made(d, <<>>) = d
<1>1. Len(<<>>) = 0 /\ 0 \in Nat
  OBVIOUS
<1>2. PICK g : Chain(g, d, <<>>) /\ Made(d, <<>>) = g[Len(<<>>)]
  BY <1>1, MadeByChain
<1>3. QED
  BY <1>1, <1>2, ChainSteps

\* A queue is another one with a third behind it.
Joined(r, p, q) ==
    /\ Len(p) \in Nat /\ Len(q) \in Nat /\ Len(r) = Len(p) + Len(q)
    /\ \A i \in 1 .. Len(p) : r[i] = p[i]
    /\ \A i \in 1 .. Len(q) : r[Len(p) + i] = q[i]

LEMMA MadeJoined ==
    ASSUME NEW p, NEW q, NEW r, Joined(r, p, q), NEW d
    PROVE  Made(d, r) = Made(Made(d, p), q)
<1> USE DEF Joined
<1>1. Len(p) \in Nat /\ Len(q) \in Nat /\ Len(r) \in Nat
  OBVIOUS
<1>2. PICK c : Chain(c, d, r) /\ Made(d, r) = c[Len(r)]
  BY <1>1, MadeByChain
<1>3. PICK e : Chain(e, d, p) /\ Made(d, p) = e[Len(p)]
  BY <1>1, MadeByChain
<1>4. PICK f : Chain(f, Made(d, p), q) /\ Made(Made(d, p), q) = f[Len(q)]
  BY <1>1, MadeByChain
<1>5. c[0] = d /\ \A i \in 1 .. Len(r) : c[i] = Applied(c[i - 1], r[i])
  BY ONLY <1>1, <1>2, ChainSteps
<1>6. e[0] = d /\ \A i \in 1 .. Len(p) : e[i] = Applied(e[i - 1], p[i])
  BY ONLY <1>1, <1>3, ChainSteps
<1>7. f[0] = Made(d, p) /\ \A i \in 1 .. Len(q) : f[i] = Applied(f[i - 1], q[i])
  BY ONLY <1>1, <1>4, ChainSteps
<1>8. e[Len(p)] = c[Len(p)]
  <2>1. \A i \in 1 .. Len(p) : i \in 1 .. Len(r)
    BY <1>1
  <2>2. \A i \in 1 .. Len(p) : e[i - 1] = c[i - 1] => e[i] = c[i]
    BY <1>5, <1>6, <2>1
  <2>3. e[0] = c[0]
    BY <1>5, <1>6
  <2>4. QED
    BY ONLY <1>1, <2>2, <2>3, ChainsAlike
<1> DEFINE h == [i \in 0 .. Len(q) |-> c[Len(p) + i]]
<1>9. f[Len(q)] = h[Len(q)]
  <2>1. h[0] = c[Len(p)]
    BY <1>1
  <2>2. f[0] = h[0]
    BY <1>3, <1>7, <1>8, <2>1
  <2>3. \A i \in 1 .. Len(q) : h[i] = c[Len(p) + i] /\ h[i - 1] = c[Len(p) + i - 1]
    BY <1>1
  <2>4. \A i \in 1 .. Len(q) : Len(p) + i \in 1 .. Len(r)
    BY <1>1
  <2>5. \A i \in 1 .. Len(q) : c[Len(p) + i] = Applied(c[Len(p) + i - 1], q[i])
    BY <1>5, <2>4
  <2> HIDE DEF h
  <2>6. \A i \in 1 .. Len(q) : f[i - 1] = h[i - 1] => f[i] = h[i]
    BY <1>7, <2>3, <2>5
  <2>7. QED
    BY ONLY <1>1, <2>2, <2>6, ChainsAlike
<1>10. h[Len(q)] = c[Len(r)]
  BY <1>1
<1>11. QED
  BY <1>2, <1>4, <1>9, <1>10

\* Of two queues the second works on what the first has made.
LEMMA MadeConcat ==
    ASSUME NEW S, NEW p \in Seq(S), NEW q \in Seq(S), NEW d
    PROVE  Made(d, p \o q) = Made(Made(d, p), q)
<1>1. PICK r : r = p \o q
  OBVIOUS
<1>2. Len(p) \in Nat /\ Len(q) \in Nat /\ Len(r) = Len(p) + Len(q)
  BY <1>1
<1>3. \A i \in 1 .. Len(p) : r[i] = p[i]
  BY <1>1
<1>4. \A i \in 1 .. Len(q) : r[Len(p) + i] = q[i]
  BY <1>1
<1>5. Joined(r, p, q)
  BY ONLY <1>2, <1>3, <1>4 DEF Joined
<1>6. Made(d, r) = Made(Made(d, p), q)
  BY ONLY <1>5, MadeJoined
<1>7. QED
  BY ONLY <1>1, <1>6

LEMMA MadeOne ==
    ASSUME NEW d, NEW w
    PROVE  Made(d, <<w>>) = Applied(d, w)
<1>1. <<w>> \in Seq({w}) /\ Len(<<w>>) = 1 /\ <<w>>[1] = w /\ 1 \in 1 .. 1 /\ 1 - 1 = 0
  OBVIOUS
<1>2. PICK g : Chain(g, d, <<w>>) /\ Made(d, <<w>>) = g[Len(<<w>>)]
  BY <1>1, MadeByChain
<1>3. g[0] = d /\ \A i \in 1 .. Len(<<w>>) : g[i] = Applied(g[i - 1], <<w>>[i])
  BY <1>1, <1>2, ChainSteps
<1>4. QED
  BY <1>1, <1>2, <1>3

\* A write that is queued is made last ...
LEMMA MadeLast ==
    ASSUME NEW S, NEW q \in Seq(S), NEW w \in S, NEW d
    PROVE  Made(d, q \o <<w>>) = Applied(Made(d, q), w)
<1>1. PICK o : o = <<w>>
  OBVIOUS
<1>2. o \in Seq(S)
  BY <1>1
<1>3. Made(d, q \o o) = Made(Made(d, q), o)
  BY ONLY <1>2, q \in Seq(S), MadeConcat
<1>4. Made(Made(d, q), o) = Applied(Made(d, q), w)
  BY ONLY <1>1, MadeOne
<1>5. QED
  BY ONLY <1>1, <1>3, <1>4

\* ... and the first of a queue can be made at once.
LEMMA MadeFirst ==
    ASSUME NEW S, NEW q \in Seq(S), q # <<>>, NEW d
    PROVE  Made(Applied(d, Head(q)), Tail(q)) = Made(d, q)
<1>1. <<Head(q)>> \in Seq(S) /\ Tail(q) \in Seq(S) /\ q = <<Head(q)>> \o Tail(q)
  OBVIOUS
<1>2. PICK w, t : w = Head(q) /\ t = Tail(q)
  OBVIOUS
<1>3. <<w>> \in Seq(S) /\ t \in Seq(S)
  BY <1>1, <1>2
<1>4. Made(d, <<w>> \o t) = Made(Made(d, <<w>>), t)
  BY ONLY <1>3, MadeConcat
<1>5. Made(d, <<w>>) = Applied(d, w)
  BY MadeOne
<1>6. QED
  BY ONLY <1>1, <1>2, <1>4, <1>5

\* What every write keeps, a queue of writes keeps.
LEMMA MadeIn ==
    ASSUME NEW D, NEW S, NEW q \in Seq(S), NEW d \in D,
           \A e \in D, w \in S : Applied(e, w) \in D
    PROVE  Made(d, q) \in D
<1>0. Len(q) \in Nat
  OBVIOUS
<1>1. PICK g : Chain(g, d, q) /\ Made(d, q) = g[Len(q)]
  BY <1>0, MadeByChain
<1>2. g[0] = d /\ \A i \in 1 .. Len(q) : g[i] = Applied(g[i - 1], q[i])
  BY <1>0, <1>1, ChainSteps
<1> DEFINE Bad == {i \in 0 .. Len(q) : g[i] \notin D}
<1>3. Bad = {}
  <2>1. SUFFICES ASSUME Bad # {} PROVE FALSE
    OBVIOUS
  <2>2. Bad \in SUBSET Nat
    OBVIOUS
  <2>3. PICK i \in Bad : \A y \in Bad : i <= y
    BY <2>1, <2>2, LeastNatural
  <2>4. i \in 0 .. Len(q) /\ g[i] \notin D
    BY <2>3
  <2>5. i # 0
    BY <2>4, <1>2
  <2>6. i - 1 \in 0 .. Len(q) /\ i \in 1 .. Len(q) /\ ~(i <= i - 1)
    BY <2>4, <2>5
  <2>7. i - 1 \notin Bad
    BY <2>3, <2>6
  <2>8. g[i - 1] \in D /\ q[i] \in S
    BY <2>6, <2>7
  <2>9. QED
    BY <1>2, <2>4, <2>6, <2>8
<1>4. Len(q) \in 0 .. Len(q)
  OBVIOUS
<1>5. QED
  BY <1>1, <1>3, <1>4

\* The same of two databases that go through the same queue.
LEMMA MadeInBoth ==
    ASSUME NEW R, NEW S, NEW q \in Seq(S), NEW d1, NEW d2, <<d1, d2>> \in R,
           \A e1, e2 : \A w \in S : <<e1, e2>> \in R => <<Applied(e1, w), Applied(e2, w)>> \in R
    PROVE  <<Made(d1, q), Made(d2, q)>> \in R
<1>0. Len(q) \in Nat
  OBVIOUS
<1>1. PICK g : Chain(g, d1, q) /\ Made(d1, q) = g[Len(q)]
  BY <1>0, MadeByChain
<1>2. g[0] = d1 /\ \A i \in 1 .. Len(q) : g[i] = Applied(g[i - 1], q[i])
  BY <1>0, <1>1, ChainSteps
<1>3. PICK h : Chain(h, d2, q) /\ Made(d2, q) = h[Len(q)]
  BY <1>0, MadeByChain
<1>4. h[0] = d2 /\ \A i \in 1 .. Len(q) : h[i] = Applied(h[i - 1], q[i])
  BY <1>0, <1>3, ChainSteps
<1> DEFINE Bad == {i \in 0 .. Len(q) : <<g[i], h[i]>> \notin R}
<1>5. Bad = {}
  <2>1. SUFFICES ASSUME Bad # {} PROVE FALSE
    OBVIOUS
  <2>2. Bad \in SUBSET Nat
    OBVIOUS
  <2>3. PICK i \in Bad : \A y \in Bad : i <= y
    BY <2>1, <2>2, LeastNatural
  <2>4. i \in 0 .. Len(q) /\ <<g[i], h[i]>> \notin R
    BY <2>3
  <2>5. i # 0
    BY <2>4, <1>2, <1>4
  <2>6. i - 1 \in 0 .. Len(q) /\ i \in 1 .. Len(q) /\ ~(i <= i - 1)
    BY <2>4, <2>5
  <2>7. i - 1 \notin Bad
    BY <2>3, <2>6
  <2>8. <<g[i - 1], h[i - 1]>> \in R /\ q[i] \in S
    BY <2>6, <2>7
  <2>9. QED
    BY <1>2, <1>4, <2>4, <2>6, <2>8
<1>6. Len(q) \in 0 .. Len(q)
  OBVIOUS
<1>7. QED
  BY <1>1, <1>3, <1>5, <1>6

-----------------------------------------------------------------------------
(* The values. *)

Numbers == {"level", "exp", "mp", "kills", "wins", "score", "stage", "attempts",
            "contribution", "battery", "maxBattery"}
Fields == Numbers \cup {"tutorial", "worn"}
Value == Int \cup BOOLEAN

\* A row of the database, and the copy of it.
User == {u \in [Fields -> Value] : \A f \in Numbers : u[f] \in Int}

Day == 1 .. MaxDay

Database ==
    [user : User, points : [Mission -> Int], lastDay : [Calendar -> Int],
     gifts : [Calendar -> [Day -> Int]], clan : Int]

Points == UNION {[A -> Int] : A \in SUBSET Mission}

Write ==
    [kind : {"stats"}, copy : User] \cup [kind : {"reset"}, field : {"kills", "wins"}]
      \cup [kind : {"battery"}, to : Int] \cup [kind : {"worn"}, to : BOOLEAN]
      \cup [kind : {"expand"}] \cup [kind : {"clan"}, more : Int]
      \cup [kind : {"points"}, all : Points] \cup [kind : {"over"}, mission : Mission]
      \cup [kind : {"gift"}, calendar : Calendar, day : Day]

LEMMA PointsFacts ==
    ASSUME NEW all
    PROVE  all \in Points <=> DOMAIN all \subseteq Mission /\ all \in [DOMAIN all -> Int]
<1>1. ASSUME all \in Points
      PROVE  DOMAIN all \subseteq Mission /\ all \in [DOMAIN all -> Int]
  <2>1. PICK A \in SUBSET Mission : all \in [A -> Int]
    BY <1>1 DEF Points
  <2>2. DOMAIN all = A
    BY <2>1
  <2>3. QED
    BY <2>1, <2>2
<1>2. ASSUME DOMAIN all \subseteq Mission, all \in [DOMAIN all -> Int]
      PROVE  all \in Points
  BY <1>2 DEF Points
<1>3. QED
  BY <1>1, <1>2

LEMMA DatabaseFields ==
    ASSUME NEW d \in Database
    PROVE  /\ d.user \in User
           /\ d.points \in [Mission -> Int] /\ d.lastDay \in [Calendar -> Int]
           /\ d.gifts \in [Calendar -> [Day -> Int]] /\ d.clan \in Int
  BY DEF Database

LEMMA UserFields ==
    ASSUME NEW u \in User
    PROVE  /\ u \in [Fields -> Value] /\ DOMAIN u = Fields
           /\ \A f \in Numbers : u[f] \in Int
           /\ \A f \in Fields : u[f] \in Value
  BY DEF User

\* An assignment to a field.
LEMMA FieldSetAny ==
    ASSUME NEW d \in Database, NEW f \in Fields, NEW v \in Value, f \in Numbers => v \in Int
    PROVE  /\ SetField(d, f, v) \in Database
           /\ SetField(d, f, v).points = d.points /\ SetField(d, f, v).gifts = d.gifts
           /\ SetField(d, f, v).lastDay = d.lastDay
           /\ \A g \in Fields : SetField(d, f, v).user[g] = IF g = f THEN v ELSE d.user[g]
<1>1. d.user \in [Fields -> Value] /\ \A g \in Numbers : d.user[g] \in Int
  BY DEF Database, User
<1>2. v \in Value /\ (f \in Numbers => v \in Int)
  OBVIOUS
<1> DEFINE u == [d.user EXCEPT ![f] = v]
<1>3. u \in [Fields -> Value] /\ \A g \in Fields : u[g] = IF g = f THEN v ELSE d.user[g]
  BY <1>1, <1>2
<1>4. \A g \in Numbers : g \in Fields
  BY DEF Fields
<1>5. u \in User
  <2> HIDE DEF u
  <2> QED BY <1>1, <1>2, <1>3, <1>4 DEF User
<1>6. SetField(d, f, v) = [d EXCEPT !.user = u]
  BY DEF SetField
<1> HIDE DEF u
<1>7. /\ [d EXCEPT !.user = u] \in Database
      /\ [d EXCEPT !.user = u].user = u
      /\ [d EXCEPT !.user = u].points = d.points /\ [d EXCEPT !.user = u].gifts = d.gifts
      /\ [d EXCEPT !.user = u].lastDay = d.lastDay
  BY <1>5 DEF Database
<1>8. QED
  BY <1>3, <1>6, <1>7

LEMMA FieldSet ==
    ASSUME NEW d \in Database, NEW f, f \in Fields, NEW v, v \in Int
    PROVE  /\ SetField(d, f, v) \in Database
           /\ SetField(d, f, v).points = d.points /\ SetField(d, f, v).gifts = d.gifts
           /\ SetField(d, f, v).lastDay = d.lastDay
           /\ \A g \in Fields : SetField(d, f, v).user[g] = IF g = f THEN v ELSE d.user[g]
<1>1. v \in Value /\ (f \in Numbers => v \in Int)
  BY DEF Value
<1>2. QED
  BY <1>1, FieldSetAny

LEMMA FlagSet ==
    ASSUME NEW d \in Database, NEW f, f \in Fields, f \notin Numbers, NEW v, v \in BOOLEAN
    PROVE  /\ SetField(d, f, v) \in Database
           /\ SetField(d, f, v).points = d.points /\ SetField(d, f, v).gifts = d.gifts
           /\ SetField(d, f, v).lastDay = d.lastDay
           /\ \A g \in Fields : SetField(d, f, v).user[g] = IF g = f THEN v ELSE d.user[g]
<1>1. v \in Value /\ (f \in Numbers => v \in Int) /\ f \in Fields
  BY DEF Value
<1>2. QED
  BY <1>1, FieldSetAny

\* The statistics.
LEMMA StatsSet ==
    ASSUME NEW d \in Database, NEW copy \in User
    PROVE  /\ StatsWritten(d, copy) \in Database
           /\ StatsWritten(d, copy).points = d.points /\ StatsWritten(d, copy).gifts = d.gifts
           /\ StatsWritten(d, copy).lastDay = d.lastDay
           /\ \A g \in Fields : StatsWritten(d, copy).user[g] = IF g \in Stats THEN copy[g] ELSE d.user[g]
<1>1. d.user \in [Fields -> Value] /\ \A g \in Numbers : d.user[g] \in Int
  BY DEF Database, User
<1>2. copy \in [Fields -> Value] /\ \A g \in Numbers : copy[g] \in Int
  BY DEF User
<1> DEFINE u == [f \in DOMAIN d.user |-> IF f \in Stats THEN copy[f] ELSE d.user[f]]
<1>3. u \in [Fields -> Value] /\ \A g \in Fields : u[g] = IF g \in Stats THEN copy[g] ELSE d.user[g]
  BY <1>1, <1>2
<1>4. \A g \in Numbers : g \in Fields
  BY DEF Fields
<1>5. u \in User
  <2> HIDE DEF u
  <2> QED BY <1>1, <1>2, <1>3, <1>4 DEF User
<1>6. StatsWritten(d, copy) = [d EXCEPT !.user = u]
  BY DEF StatsWritten
<1> HIDE DEF u
<1>7. /\ [d EXCEPT !.user = u] \in Database
      /\ [d EXCEPT !.user = u].user = u
      /\ [d EXCEPT !.user = u].points = d.points /\ [d EXCEPT !.user = u].gifts = d.gifts
      /\ [d EXCEPT !.user = u].lastDay = d.lastDay
  BY <1>5 DEF Database
<1>8. QED
  BY <1>3, <1>6, <1>7

\* The battery's maximum.
LEMMA ExpandedSet ==
    ASSUME NEW d \in Database
    PROVE  /\ BatteryExpanded(d) \in Database
           /\ BatteryExpanded(d).points = d.points /\ BatteryExpanded(d).gifts = d.gifts
           /\ BatteryExpanded(d).lastDay = d.lastDay
           /\ \A g \in Fields : BatteryExpanded(d).user[g] =
                 IF g = "maxBattery" /\ ~(d.user["maxBattery"] > TopBattery)
                 THEN d.user["maxBattery"] + 1 ELSE d.user[g]
<1>1. d.user["maxBattery"] \in Int /\ "maxBattery" \in Fields
  BY DEF Database, User, Numbers, Fields
<1>2. CASE d.user["maxBattery"] > TopBattery
  <2>1. BatteryExpanded(d) = d
    BY <1>2 DEF BatteryExpanded
  <2>2. QED
    BY <1>2, <2>1
<1>3. CASE ~(d.user["maxBattery"] > TopBattery)
  <2>1. BatteryExpanded(d) = SetField(d, "maxBattery", d.user["maxBattery"] + 1)
    BY <1>3 DEF BatteryExpanded, SetField
  <2>2. d.user["maxBattery"] + 1 \in Int
    BY <1>1
  <2> DEFINE v == d.user["maxBattery"] + 1
  <2> HIDE DEF v
  <2>3. /\ SetField(d, "maxBattery", v) \in Database
        /\ SetField(d, "maxBattery", v).points = d.points
        /\ SetField(d, "maxBattery", v).gifts = d.gifts
        /\ SetField(d, "maxBattery", v).lastDay = d.lastDay
        /\ \A g \in Fields : SetField(d, "maxBattery", v).user[g]
              = IF g = "maxBattery" THEN v ELSE d.user[g]
    BY <1>1, <2>2, FieldSet DEF v
  <2>4. BatteryExpanded(d) = SetField(d, "maxBattery", v)
    BY <2>1 DEF v
  <2>5. \A g \in Fields : BatteryExpanded(d).user[g] = IF g = "maxBattery" THEN v ELSE d.user[g]
    BY <2>3, <2>4
  <2>6. QED
    BY <1>3, <2>3, <2>4, <2>5 DEF v
<1>4. QED
  BY <1>2, <1>3

\* The points of the missions.
LEMMA PointsSet ==
    ASSUME NEW d \in Database, NEW all \in Points
    PROVE  /\ PointsSaved(d, all) \in Database
           /\ PointsSaved(d, all).user = d.user /\ PointsSaved(d, all).gifts = d.gifts
           /\ PointsSaved(d, all).lastDay = d.lastDay
           /\ \A m \in Mission : PointsSaved(d, all).points[m]
                 = IF m \in DOMAIN all THEN all[m] ELSE d.points[m]
<1>1. d.points \in [Mission -> Int]
  BY DEF Database
<1>2. DOMAIN all \subseteq Mission /\ \A x \in DOMAIN all : all[x] \in Int
  BY PointsFacts
<1>3. /\ Over(all, d.points) \in [Mission -> Int]
      /\ \A x \in Mission : Over(all, d.points)[x] = IF x \in DOMAIN all THEN all[x] ELSE d.points[x]
  <2>1. DOMAIN all \cup DOMAIN d.points = Mission
    BY <1>1, <1>2
  <2>2. Over(all, d.points) = [x \in Mission |-> IF x \in DOMAIN all THEN all[x] ELSE d.points[x]]
    BY <2>1 DEF Over
  <2>3. QED
    BY <1>1, <1>2, <2>2
<1>4. PICK p : p = Over(all, d.points)
  OBVIOUS
<1>5. PointsSaved(d, all) = [d EXCEPT !.points = p]
  BY <1>4 DEF PointsSaved
<1>6. [d EXCEPT !.points = p] \in Database /\ [d EXCEPT !.points = p].points = p
  BY <1>3, <1>4 DEF Database
<1>7. /\ [d EXCEPT !.points = p].user = d.user /\ [d EXCEPT !.points = p].gifts = d.gifts
      /\ [d EXCEPT !.points = p].lastDay = d.lastDay
  BY DEF Database
<1>8. QED
  BY <1>3, <1>4, <1>5, <1>6, <1>7

LEMMA OverSet ==
    ASSUME NEW d \in Database, NEW m \in Mission
    PROVE  /\ MissionOver(d, m) \in Database
           /\ MissionOver(d, m).user = d.user /\ MissionOver(d, m).gifts = d.gifts
           /\ MissionOver(d, m).lastDay = d.lastDay
           /\ \A n \in Mission : MissionOver(d, m).points[n] = IF n = m THEN MissionTotal ELSE d.points[n]
<1>1. d.points \in [Mission -> Int] /\ MissionTotal \in Int
  BY ProgressAssumption DEF Database
<1> DEFINE p == [d.points EXCEPT ![m] = MissionTotal]
<1>2. p \in [Mission -> Int] /\ \A n \in Mission : p[n] = IF n = m THEN MissionTotal ELSE d.points[n]
  BY <1>1
<1>3. MissionOver(d, m) = [d EXCEPT !.points = p]
  BY DEF MissionOver
<1> HIDE DEF p
<1>4. [d EXCEPT !.points = p] \in Database /\ [d EXCEPT !.points = p].points = p
  BY <1>2 DEF Database
<1>5. /\ [d EXCEPT !.points = p].user = d.user /\ [d EXCEPT !.points = p].gifts = d.gifts
      /\ [d EXCEPT !.points = p].lastDay = d.lastDay
  BY DEF Database
<1>6. QED
  BY <1>2, <1>3, <1>4, <1>5

GiftAdded(d, c, x) == [d EXCEPT !.gifts[c][x] = @ + 1]

LEMMA GiftSet ==
    ASSUME NEW d \in Database, NEW c \in Calendar, NEW x \in Day
    PROVE  /\ GiftAdded(d, c, x) \in Database
           /\ GiftAdded(d, c, x).user = d.user /\ GiftAdded(d, c, x).points = d.points
           /\ GiftAdded(d, c, x).lastDay = d.lastDay
           /\ \A b \in Calendar, y \in Day : GiftAdded(d, c, x).gifts[b][y]
                 = IF b = c /\ y = x THEN d.gifts[b][y] + 1 ELSE d.gifts[b][y]
<1>1. d.gifts \in [Calendar -> [Day -> Int]]
  BY DEF Database
<1> DEFINE h == [d.gifts EXCEPT ![c][x] = d.gifts[c][x] + 1]
<1>2. h \in [Calendar -> [Day -> Int]]
  <2>0. d.gifts[c] \in [Day -> Int]
    BY <1>1
  <2>1. d.gifts[c] \in [Day -> Int] /\ d.gifts[c][x] + 1 \in Int
    BY <2>0
  <2> DEFINE k == [d.gifts[c] EXCEPT ![x] = d.gifts[c][x] + 1]
  <2>2. k \in [Day -> Int]
    BY <2>1
  <2>3. h = [d.gifts EXCEPT ![c] = k]
    OBVIOUS
  <2> HIDE DEF k
  <2>4. [d.gifts EXCEPT ![c] = k] \in [Calendar -> [Day -> Int]]
    BY <1>1, <2>2
  <2>5. QED
    BY <2>3, <2>4
<1>3. \A b \in Calendar, y \in Day :
         h[b][y] = IF b = c /\ y = x THEN d.gifts[b][y] + 1 ELSE d.gifts[b][y]
  BY <1>1
<1>4. GiftAdded(d, c, x) = [d EXCEPT !.gifts = h]
  BY DEF GiftAdded
<1> HIDE DEF h
<1>5. [d EXCEPT !.gifts = h] \in Database /\ [d EXCEPT !.gifts = h].gifts = h
  BY <1>2 DEF Database
<1>6. /\ [d EXCEPT !.gifts = h].user = d.user /\ [d EXCEPT !.gifts = h].points = d.points
      /\ [d EXCEPT !.gifts = h].lastDay = d.lastDay
  BY DEF Database
<1>7. QED
  BY <1>3, <1>4, <1>5, <1>6

LEMMA ClanFacts ==
    ASSUME NEW d \in Database, NEW more \in Int
    PROVE  /\ ContributionAdded(d, more) \in Database
           /\ ContributionAdded(d, more).user = d.user /\ ContributionAdded(d, more).points = d.points
           /\ ContributionAdded(d, more).lastDay = d.lastDay /\ ContributionAdded(d, more).gifts = d.gifts
<1>1. d.clan + more \in Int
  BY DEF Database
<1>2. PICK k \in Int : k = d.clan + more
  BY <1>1
<1>3. ContributionAdded(d, more) = [d EXCEPT !.clan = k]
  BY <1>2 DEF ContributionAdded
<1>4. [d EXCEPT !.clan = k] \in Database
  BY DEF Database
<1>5. /\ [d EXCEPT !.clan = k].user = d.user /\ [d EXCEPT !.clan = k].points = d.points
      /\ [d EXCEPT !.clan = k].lastDay = d.lastDay /\ [d EXCEPT !.clan = k].gifts = d.gifts
  BY DEF Database
<1>6. QED
  BY <1>3, <1>4, <1>5

-----------------------------------------------------------------------------
(* One write, whatever its kind. *)

LEMMA AppliedKinds ==
    ASSUME NEW w \in Write
    PROVE  \/ w.copy \in User /\ \A d : Applied(d, w) = StatsWritten(d, w.copy)
           \/ w.field \in {"kills", "wins"} /\ \A d : Applied(d, w) = SetField(d, w.field, 0)
           \/ w.to \in Int /\ \A d : Applied(d, w) = SetField(d, "battery", w.to)
           \/ w.to \in BOOLEAN /\ \A d : Applied(d, w) = SetField(d, "worn", w.to)
           \/ \A d : Applied(d, w) = BatteryExpanded(d)
           \/ w.more \in Int /\ \A d : Applied(d, w) = ContributionAdded(d, w.more)
           \/ w.all \in Points /\ \A d : Applied(d, w) = PointsSaved(d, w.all)
           \/ w.mission \in Mission /\ \A d : Applied(d, w) = MissionOver(d, w.mission)
           \/ /\ w.calendar \in Calendar /\ w.day \in Day
              /\ \A d : Applied(d, w) = GiftAdded(d, w.calendar, w.day)
<1>1. CASE w \in [kind : {"stats"}, copy : User]
  BY <1>1 DEF Applied
<1>2. CASE w \in [kind : {"reset"}, field : {"kills", "wins"}]
  <2>1. w.kind = "reset" /\ w.field \in {"kills", "wins"}
    BY <1>2
  <2>2. \A d : Applied(d, w) = CounterReset(d, w.field)
    BY <2>1 DEF Applied
  <2>3. QED
    BY <2>1, <2>2 DEF CounterReset
<1>3. CASE w \in [kind : {"battery"}, to : Int]
  <2>1. w.kind = "battery" /\ w.to \in Int
    BY <1>3
  <2>2. \A d : Applied(d, w) = BatteryWritten(d, w.to)
    BY <2>1 DEF Applied
  <2>3. QED
    BY <2>1, <2>2 DEF BatteryWritten
<1>4. CASE w \in [kind : {"worn"}, to : BOOLEAN]
  <2>1. w.kind = "worn" /\ w.to \in BOOLEAN
    BY <1>4
  <2>2. \A d : Applied(d, w) = WearWritten(d, w.to)
    BY <2>1 DEF Applied
  <2>3. QED
    BY <2>1, <2>2 DEF WearWritten
<1>5. CASE w \in [kind : {"expand"}]
  BY <1>5 DEF Applied
<1>6. CASE w \in [kind : {"clan"}, more : Int]
  BY <1>6 DEF Applied
<1>7. CASE w \in [kind : {"points"}, all : Points]
  BY <1>7 DEF Applied
<1>8. CASE w \in [kind : {"over"}, mission : Mission]
  BY <1>8 DEF Applied
<1>9. CASE w \in [kind : {"gift"}, calendar : Calendar, day : Day]
  <2>1. w.kind = "gift" /\ w.calendar \in Calendar /\ w.day \in Day
    BY <1>9
  <2>2. \A d : Applied(d, w) = GiftAdded(d, w.calendar, w.day)
    BY <2>1 DEF Applied, GiftAdded
  <2>3. QED
    BY <2>1, <2>2
<1>10. QED
  BY <1>1, <1>2, <1>3, <1>4, <1>5, <1>6, <1>7, <1>8, <1>9 DEF Write

GiftsWithin(d, e) == \A c \in Calendar, x \in Day : d.gifts[c][x] <= e.gifts[c][x]

LEMMA GiftsReflexive ==
    ASSUME NEW d \in Database, NEW e, e.gifts = d.gifts
    PROVE  GiftsWithin(d, e)
<1>1. \A c \in Calendar, x \in Day : d.gifts[c][x] \in Int
  BY DEF Database
<1>2. QED
  BY <1>1 DEF GiftsWithin

LEMMA GiftsTransitive ==
    ASSUME NEW d \in Database, NEW e \in Database, NEW f \in Database,
           GiftsWithin(d, e), GiftsWithin(e, f)
    PROVE  GiftsWithin(d, f)
<1>1. \A c \in Calendar, x \in Day :
         d.gifts[c][x] \in Int /\ e.gifts[c][x] \in Int /\ f.gifts[c][x] \in Int
  BY DEF Database
<1>2. QED
  BY <1>1 DEF GiftsWithin

\* No write takes a gift away or changes a date.
LEMMA AppliedDatabase ==
    ASSUME NEW d \in Database, NEW w \in Write
    PROVE  /\ Applied(d, w) \in Database
           /\ Applied(d, w).lastDay = d.lastDay
           /\ GiftsWithin(d, Applied(d, w))
<1>1. "kills" \in Fields /\ "wins" \in Fields /\ "battery" \in Fields /\ "worn" \in Fields
      /\ "worn" \notin Numbers
  BY DEF Fields, Numbers
<1>2. CASE w.copy \in User /\ \A e : Applied(e, w) = StatsWritten(e, w.copy)
  BY <1>2, StatsSet, GiftsReflexive
<1>3. CASE w.field \in {"kills", "wins"} /\ \A e : Applied(e, w) = SetField(e, w.field, 0)
  BY <1>1, <1>3, FieldSet, GiftsReflexive
<1>4. CASE w.to \in Int /\ \A e : Applied(e, w) = SetField(e, "battery", w.to)
  BY <1>1, <1>4, FieldSet, GiftsReflexive
<1>5. CASE w.to \in BOOLEAN /\ \A e : Applied(e, w) = SetField(e, "worn", w.to)
  BY <1>1, <1>5, FlagSet, GiftsReflexive
<1>6. CASE \A e : Applied(e, w) = BatteryExpanded(e)
  BY <1>6, ExpandedSet, GiftsReflexive
<1>7. CASE w.more \in Int /\ \A e : Applied(e, w) = ContributionAdded(e, w.more)
  BY <1>7, ClanFacts, GiftsReflexive
<1>8. CASE w.all \in Points /\ \A e : Applied(e, w) = PointsSaved(e, w.all)
  BY <1>8, PointsSet, GiftsReflexive
<1>9. CASE w.mission \in Mission /\ \A e : Applied(e, w) = MissionOver(e, w.mission)
  BY <1>9, OverSet, GiftsReflexive
<1>10. CASE /\ w.calendar \in Calendar /\ w.day \in Day
            /\ \A e : Applied(e, w) = GiftAdded(e, w.calendar, w.day)
  <2>1. /\ Applied(d, w) \in Database /\ Applied(d, w).lastDay = d.lastDay
        /\ \A b \in Calendar, y \in Day : Applied(d, w).gifts[b][y]
              = IF b = w.calendar /\ y = w.day THEN d.gifts[b][y] + 1 ELSE d.gifts[b][y]
    BY <1>10, GiftSet
  <2>2. \A b \in Calendar, y \in Day : d.gifts[b][y] \in Int
    BY DEF Database
  <2>3. GiftsWithin(d, Applied(d, w))
    BY <2>1, <2>2 DEF GiftsWithin
  <2>4. QED
    BY <2>1, <2>3
<1>11. QED
  BY <1>2, <1>3, <1>4, <1>5, <1>6, <1>7, <1>8, <1>9, <1>10, AppliedKinds

LEMMA MadeDatabase ==
    ASSUME NEW d \in Database, NEW q \in Seq(Write)
    PROVE  /\ Made(d, q) \in Database
           /\ Made(d, q).lastDay = d.lastDay
           /\ GiftsWithin(d, Made(d, q))
<1> DEFINE D == {e \in Database : e.lastDay = d.lastDay /\ GiftsWithin(d, e)}
<1>1. d \in D
  BY GiftsReflexive
<1>2. ASSUME NEW e \in D, NEW w \in Write
      PROVE  Applied(e, w) \in D
  BY <1>2, AppliedDatabase, GiftsTransitive
<1> HIDE DEF D
<1>3. \A e \in D, w \in Write : Applied(e, w) \in D
  BY <1>2
<1>4. Made(d, q) \in D
  BY ONLY <1>1, <1>3, q \in Seq(Write), MadeIn
<1>5. QED
  BY <1>4 DEF D

-----------------------------------------------------------------------------
(* A date is written beside the queue. *)

Redated(d, l) == [d EXCEPT !.lastDay = l]

LEMMA RedatedFields ==
    ASSUME NEW d \in Database, NEW l \in [Calendar -> Int]
    PROVE  /\ Redated(d, l) \in Database /\ Redated(d, l).lastDay = l
           /\ Redated(d, l).user = d.user /\ Redated(d, l).points = d.points
           /\ Redated(d, l).gifts = d.gifts /\ Redated(d, l).clan = d.clan
  BY DEF Redated, Database

LEMMA RedatedOther ==
    ASSUME NEW d \in Database, NEW l, NEW v
    PROVE  /\ [Redated(d, l) EXCEPT !.user = v] = Redated([d EXCEPT !.user = v], l)
           /\ [Redated(d, l) EXCEPT !.points = v] = Redated([d EXCEPT !.points = v], l)
           /\ [Redated(d, l) EXCEPT !.gifts = v] = Redated([d EXCEPT !.gifts = v], l)
           /\ [Redated(d, l) EXCEPT !.clan = v] = Redated([d EXCEPT !.clan = v], l)
  BY DEF Redated, Database

LEMMA RedatedApplied ==
    ASSUME NEW d \in Database, NEW l \in [Calendar -> Int], NEW w \in Write
    PROVE  Applied(Redated(d, l), w) = Redated(Applied(d, w), l)
<1> DEFINE r == Redated(d, l)
<1>1. r.user = d.user /\ r.points = d.points /\ r.gifts = d.gifts /\ r.clan = d.clan
  BY RedatedFields
<1>11. \A v : /\ [r EXCEPT !.user = v] = Redated([d EXCEPT !.user = v], l)
              /\ [r EXCEPT !.points = v] = Redated([d EXCEPT !.points = v], l)
              /\ [r EXCEPT !.gifts = v] = Redated([d EXCEPT !.gifts = v], l)
              /\ [r EXCEPT !.clan = v] = Redated([d EXCEPT !.clan = v], l)
  BY RedatedOther
<1> HIDE DEF r
<1> DEFINE Same(x, y) == x = Redated(y, l)
<1>2. \A f, v : Same(SetField(r, f, v), SetField(d, f, v))
  <2>1. SUFFICES ASSUME NEW f, NEW v PROVE Same(SetField(r, f, v), SetField(d, f, v))
    OBVIOUS
  <2>2. PICK u : u = [d.user EXCEPT ![f] = v]
    OBVIOUS
  <2>3. SetField(r, f, v) = [r EXCEPT !.user = u] /\ SetField(d, f, v) = [d EXCEPT !.user = u]
    BY <1>1, <2>2 DEF SetField
  <2>4. QED
    BY <2>3, <1>11
<1>3. \A c : Same(StatsWritten(r, c), StatsWritten(d, c))
  <2>1. SUFFICES ASSUME NEW c PROVE Same(StatsWritten(r, c), StatsWritten(d, c))
    OBVIOUS
  <2>2. PICK u : u = [f \in DOMAIN d.user |-> IF f \in Stats THEN c[f] ELSE d.user[f]]
    OBVIOUS
  <2>3. StatsWritten(r, c) = [r EXCEPT !.user = u] /\ StatsWritten(d, c) = [d EXCEPT !.user = u]
    BY <1>1, <2>2 DEF StatsWritten
  <2>4. QED
    BY <2>3, <1>11
<1>4. Same(BatteryExpanded(r), BatteryExpanded(d))
  <2>1. CASE d.user.maxBattery > TopBattery
    BY <1>1, <2>1 DEF BatteryExpanded, r
  <2>2. CASE ~(d.user.maxBattery > TopBattery)
    <3>1. /\ BatteryExpanded(d) = SetField(d, "maxBattery", d.user["maxBattery"] + 1)
          /\ BatteryExpanded(r) = SetField(r, "maxBattery", d.user["maxBattery"] + 1)
      BY <1>1, <2>2 DEF BatteryExpanded, SetField
    <3>2. QED
      BY <1>2, <3>1
  <2>3. QED
    BY <2>1, <2>2
<1>5. \A more : Same(ContributionAdded(r, more), ContributionAdded(d, more))
  <2>1. SUFFICES ASSUME NEW more PROVE Same(ContributionAdded(r, more), ContributionAdded(d, more))
    OBVIOUS
  <2>2. PICK k : k = d.clan + more
    OBVIOUS
  <2>3. ContributionAdded(r, more) = [r EXCEPT !.clan = k] /\ ContributionAdded(d, more) = [d EXCEPT !.clan = k]
    BY <1>1, <2>2 DEF ContributionAdded
  <2>4. QED
    BY <2>3, <1>11
<1>6. \A all : Same(PointsSaved(r, all), PointsSaved(d, all))
  <2>1. SUFFICES ASSUME NEW all PROVE Same(PointsSaved(r, all), PointsSaved(d, all))
    OBVIOUS
  <2>2. PICK p : p = Over(all, d.points)
    OBVIOUS
  <2>3. PointsSaved(r, all) = [r EXCEPT !.points = p] /\ PointsSaved(d, all) = [d EXCEPT !.points = p]
    BY <1>1, <2>2 DEF PointsSaved
  <2>4. QED
    BY <2>3, <1>11
<1>7. \A m : Same(MissionOver(r, m), MissionOver(d, m))
  <2>1. SUFFICES ASSUME NEW m PROVE Same(MissionOver(r, m), MissionOver(d, m))
    OBVIOUS
  <2>2. PICK p : p = [d.points EXCEPT ![m] = MissionTotal]
    OBVIOUS
  <2>3. MissionOver(r, m) = [r EXCEPT !.points = p] /\ MissionOver(d, m) = [d EXCEPT !.points = p]
    BY <1>1, <2>2 DEF MissionOver
  <2>4. QED
    BY <2>3, <1>11
<1>8. \A c, x : Same(GiftAdded(r, c, x), GiftAdded(d, c, x))
  <2>1. SUFFICES ASSUME NEW c, NEW x PROVE Same(GiftAdded(r, c, x), GiftAdded(d, c, x))
    OBVIOUS
  <2>2. PICK h : h = [d.gifts EXCEPT ![c][x] = d.gifts[c][x] + 1]
    OBVIOUS
  <2>3. GiftAdded(r, c, x) = [r EXCEPT !.gifts = h] /\ GiftAdded(d, c, x) = [d EXCEPT !.gifts = h]
    BY <1>1, <2>2 DEF GiftAdded
  <2>4. QED
    BY <2>3, <1>11
<1> HIDE DEF Same
<1>9. Same(Applied(r, w), Applied(d, w))
  <2>1. CASE \A e : Applied(e, w) = StatsWritten(e, w.copy)
    BY <1>3, <2>1
  <2>2. CASE \A e : Applied(e, w) = SetField(e, w.field, 0)
    BY <1>2, <2>2
  <2>3. CASE \A e : Applied(e, w) = SetField(e, "battery", w.to)
    BY <1>2, <2>3
  <2>4. CASE \A e : Applied(e, w) = SetField(e, "worn", w.to)
    BY <1>2, <2>4
  <2>5. CASE \A e : Applied(e, w) = BatteryExpanded(e)
    BY <1>4, <2>5
  <2>6. CASE \A e : Applied(e, w) = ContributionAdded(e, w.more)
    BY <1>5, <2>6
  <2>7. CASE \A e : Applied(e, w) = PointsSaved(e, w.all)
    BY <1>6, <2>7
  <2>8. CASE \A e : Applied(e, w) = MissionOver(e, w.mission)
    BY <1>7, <2>8
  <2>9. CASE \A e : Applied(e, w) = GiftAdded(e, w.calendar, w.day)
    BY <1>8, <2>9
  <2>10. QED
    BY <2>1, <2>2, <2>3, <2>4, <2>5, <2>6, <2>7, <2>8, <2>9, AppliedKinds
<1>10. QED
  BY <1>9 DEF Same, r

\* A date that changes under a queue stays beside what the queue makes.
LEMMA MadeRedated ==
    ASSUME NEW d \in Database, NEW l \in [Calendar -> Int], NEW q \in Seq(Write)
    PROVE  Made(Redated(d, l), q) = Redated(Made(d, q), l)
<1> DEFINE R == {p \in Database \X Database : p[2] = Redated(p[1], l)}
<1>1. <<d, Redated(d, l)>> \in R
  BY RedatedFields
<1>2. ASSUME NEW e1, NEW e2, NEW w \in Write, <<e1, e2>> \in R
      PROVE  <<Applied(e1, w), Applied(e2, w)>> \in R
  <2>1. e1 \in Database /\ e2 \in Database /\ e2 = Redated(e1, l)
    BY <1>2
  <2>2. Applied(e1, w) \in Database /\ Applied(e2, w) \in Database
    BY <2>1, AppliedDatabase
  <2>3. Applied(e2, w) = Redated(Applied(e1, w), l)
    BY <2>1, RedatedApplied
  <2>4. QED
    BY <2>2, <2>3
<1> HIDE DEF R
<1>3. \A e1, e2 : \A w \in Write : <<e1, e2>> \in R => <<Applied(e1, w), Applied(e2, w)>> \in R
  BY <1>2
<1>4. <<Made(d, q), Made(Redated(d, l), q)>> \in R
  BY ONLY <1>1, <1>3, q \in Seq(Write), MadeInBoth
<1>5. QED
  BY <1>4 DEF R

-----------------------------------------------------------------------------
(* The invariant. *)

\* The database once the incremental writes are made.
Ahead == Made(db, incremental)

Types ==
    /\ online \in BOOLEAN
    /\ online => mem \in User /\ active \in Points
    /\ collected \in Int
    /\ rewards \subseteq Calendar
    /\ dating # <<>> => dating \in Calendar \X Day
    /\ db \in Database
    /\ incremental \in Seq(Write)
    /\ DOMAIN callbacks \subseteq Keyed
    /\ \A f \in DOMAIN callbacks : callbacks[f] \in Int
    /\ pass \in {"none", "worker", "logout"}
    /\ today \in Day
    /\ overtaken \subseteq Keyed

\* Nothing waits without a session, and no reward is open when it ends.
Quiet ==
    /\ ~online => incremental = <<>> /\ DOMAIN callbacks = {} /\ rewards = {} /\ dating = <<>>
    /\ pass = "logout" => online /\ rewards = {} /\ dating = <<>>

\* What a field of the row will be: the value under its key, or that of the row.
Held(cb, u, f) == IF f \in DOMAIN cb THEN cb[f] ELSE u[f]

\* The highest stage is that of the row, or the attempts that were read for it.
Misread(stored, f) == f = "stage" /\ stored["stage"] = stored["attempts"]

Agrees(copy, ov, cb, u) ==
    \A f \in Fields \ ov : Held(cb, u, f) = Stored(copy)[f] \/ Misread(Stored(copy), f)

MissionAgrees(act, points, m) ==
    \/ points[m] = act[m]
    \/ act[m] = MissionTotal - 1 /\ points[m] = MissionTotal

MissionsAgree(act, points) == \A m \in DOMAIN act : MissionAgrees(act, points, m)

RowAgrees ==
    online => Agrees(mem, overtaken, callbacks, Ahead.user) /\ MissionsAgree(active, Ahead.points)

\* An item given is dated, is about to be, or was torn from its date; no reward
\* is open for a day that is dated.
Accounted(gifts, last, dat, to) ==
    \A c \in Calendar, x \in Day :
        /\ gifts[c][x] > 0 => <<c, x>> \in to \/ last[c] >= x \/ dat = <<c, x>>
        /\ gifts[c][x] <= 1 \/ <<c, x>> \in to

InTime(last, dat, rew, now) ==
    /\ \A c \in Calendar : last[c] <= now /\ (c \in rew => last[c] < now)
    /\ dat # <<>> => dat[1] \notin rew /\ dat[2] <= now /\ last[dat[1]] < dat[2]

GiftsAccounted ==
    /\ Accounted(Ahead.gifts, db.lastDay, dating, torn)
    /\ InTime(db.lastDay, dating, rewards, today)

\* The battery is within its maximum, in what each write of the queue leaves as
\* well: the process may end after any of them.
Within(u) == u["battery"] <= u["maxBattery"]

Sound(d, ws) == \E g : Chain(g, d, ws) /\ \A n \in 0 .. Len(ws) : Within(g[n].user)

BatterySound == Sound(db, incremental)

ProgressInv == Types /\ Quiet /\ RowAgrees /\ GiftsAccounted /\ BatterySound

LEMMA AheadDatabase ==
    ASSUME Types
    PROVE  /\ Ahead \in Database /\ Ahead.lastDay = db.lastDay
           /\ GiftsWithin(db, Ahead)
<1>1. db \in Database /\ incremental \in Seq(Write)
  BY DEF Types
<1>2. QED
  BY ONLY <1>1, MadeDatabase DEF Ahead

LEMMA StoredFacts ==
    ASSUME NEW copy \in User
    PROVE  /\ Stored(copy) \in User
           /\ \A f \in Fields : Stored(copy)[f] = IF f = "level" THEN copy["level"] - 1 ELSE copy[f]
<1>1. copy \in [Fields -> Value] /\ \A g \in Numbers : copy[g] \in Int
  BY DEF User
<1>2. copy["level"] \in Int /\ "level" \in Fields
  BY <1>1 DEF Numbers, Fields
<1>3. PICK k \in Int : k = copy["level"] - 1
  BY <1>2
<1>4. Stored(copy) = [copy EXCEPT !["level"] = k]
  BY <1>3 DEF Stored
<1>5. k \in Value
  BY DEF Value
<1>6. /\ [copy EXCEPT !["level"] = k] \in [Fields -> Value]
      /\ \A f \in Fields : [copy EXCEPT !["level"] = k][f] = IF f = "level" THEN k ELSE copy[f]
  BY <1>1, <1>5
<1>7. \A g \in Numbers : g \in Fields
  BY DEF Fields
<1>8. \A g \in Numbers : [copy EXCEPT !["level"] = k][g] \in Int
  BY <1>1, <1>6, <1>7
<1>9. QED
  BY <1>3, <1>4, <1>6, <1>8 DEF User

LEMMA LoadedFacts ==
    ASSUME NEW u \in User
    PROVE  /\ Loaded(u) \in User
           /\ \A f \in Fields : Loaded(u)[f] = IF f = "level" THEN u["level"] + 1
                                               ELSE IF f = "stage" THEN u["attempts"] ELSE u[f]
<1>1. u \in [Fields -> Value] /\ \A g \in Numbers : u[g] \in Int
  BY DEF User
<1>2. /\ u["level"] \in Int /\ "level" \in Fields
      /\ u["attempts"] \in Int /\ "stage" \in Fields /\ "attempts" \in Fields
  BY <1>1 DEF Numbers, Fields
<1>3. PICK k \in Int : k = u["level"] + 1
  BY <1>2
<1>4. PICK n \in Int : n = u["attempts"]
  BY <1>2
<1>5. PICK v : v = [u EXCEPT !["level"] = k]
  OBVIOUS
<1>6. Loaded(u) = [v EXCEPT !["stage"] = n]
  BY <1>3, <1>4, <1>5 DEF Loaded
<1>7. k \in Value /\ n \in Value
  BY DEF Value
<1>8. v \in [Fields -> Value] /\ \A f \in Fields : v[f] = IF f = "level" THEN k ELSE u[f]
  BY <1>1, <1>5, <1>7
<1>9. /\ [v EXCEPT !["stage"] = n] \in [Fields -> Value]
      /\ \A f \in Fields : [v EXCEPT !["stage"] = n][f] = IF f = "stage" THEN n ELSE v[f]
  BY <1>7, <1>8
<1>10. \A g \in Numbers : g \in Fields
  BY DEF Fields
<1>11. \A g \in Numbers : [v EXCEPT !["stage"] = n][g] \in Int
  BY <1>1, <1>8, <1>9, <1>10
<1>12. \A f \in Fields : Loaded(u)[f] = IF f = "level" THEN u["level"] + 1
                                         ELSE IF f = "stage" THEN u["attempts"] ELSE u[f]
  BY <1>3, <1>4, <1>6, <1>8, <1>9
<1>13. Loaded(u) \in User
  BY <1>6, <1>9, <1>11 DEF User
<1>14. QED
  BY <1>12, <1>13

\* A row under the values by key.
LEMMA OverUser ==
    ASSUME NEW u \in User, NEW cb, DOMAIN cb \subseteq Keyed, \A f \in DOMAIN cb : cb[f] \in Int
    PROVE  /\ Over(cb, u) \in User
           /\ \A f \in Fields : Over(cb, u)[f] = Held(cb, u, f)
<1>1. u \in [Fields -> Value] /\ \A g \in Numbers : u[g] \in Int
  BY DEF User
<1>2. Keyed \subseteq Fields /\ \A g \in Numbers : g \in Fields
  BY DEF Keyed, Fields, Numbers
<1>3. DOMAIN cb \cup DOMAIN u = Fields
  BY <1>1, <1>2
<1>4. Over(cb, u) = [f \in Fields |-> Held(cb, u, f)]
  BY <1>3 DEF Over, Held
<1>5. \A f \in Fields : Held(cb, u, f) \in Value
  BY <1>1 DEF Held, Value
<1>6. \A f \in Numbers : Held(cb, u, f) \in Int
  BY <1>1 DEF Held
<1>7. Over(cb, u) \in [Fields -> Value] /\ \A f \in Fields : Over(cb, u)[f] = Held(cb, u, f)
  BY <1>4, <1>5
<1>8. QED
  BY <1>2, <1>6, <1>7 DEF User

\* The claims of module Progress follow from the invariant.
LEMMA InvImpliesRowFollows ==
    ASSUME ProgressInv
    PROVE  RowFollows
<1>1. SUFFICES ASSUME online PROVE RowFollows
  BY DEF RowFollows
<1>2. /\ mem \in User /\ Ahead \in Database
      /\ Agrees(mem, overtaken, callbacks, Ahead.user) /\ MissionsAgree(active, Ahead.points)
      /\ DOMAIN callbacks \subseteq Keyed /\ \A f \in DOMAIN callbacks : callbacks[f] \in Int
  BY <1>1, AheadDatabase DEF ProgressInv, Types, RowAgrees
<1>3. PICK u : u = Over(callbacks, Ahead.user)
  OBVIOUS
<1>4. Drained = [Ahead EXCEPT !.user = u]
  BY <1>3 DEF Drained, Ahead
<1>5. Drained.user = u /\ Drained.points = Ahead.points
  BY <1>2, <1>4 DEF Database
<1>6. Ahead.user \in User
  BY <1>2 DEF Database
<1>7. u \in User /\ \A f \in Fields : u[f] = Held(callbacks, Ahead.user, f)
  BY <1>2, <1>3, <1>6, OverUser
<1>8. DOMAIN mem = Fields /\ mem["level"] \in Int /\ "stage" \in Fields /\ "attempts" \in Fields
      /\ "stage" \notin Keyed /\ "attempts" \notin Keyed
  BY <1>2 DEF User, Fields, Numbers, Keyed
<1>9. \A f \in DOMAIN mem \ (overtaken \cup {"stage"}) : Loaded(Drained.user)[f] = mem[f]
  <2>1. ASSUME NEW f \in Fields \ (overtaken \cup {"stage"})
        PROVE  Loaded(u)[f] = mem[f]
    <3>1. u[f] = Stored(mem)[f]
      BY <1>2, <1>7 DEF Agrees, Misread
    <3>2. Loaded(u)[f] = IF f = "level" THEN u["level"] + 1 ELSE u[f]
      BY <1>7, LoadedFacts
    <3>3. Stored(mem)[f] = IF f = "level" THEN mem["level"] - 1 ELSE mem[f]
      BY <1>2, StoredFacts
    <3>4. QED
      BY <1>8, <3>1, <3>2, <3>3
  <2>2. QED
    BY <1>5, <1>8, <2>1
<1>10. mem.stage \in {Drained.user.stage, Loaded(Drained.user).stage}
  <2>1. "stage" \notin overtaken /\ "attempts" \notin overtaken
    BY <1>8 DEF ProgressInv, Types
  <2>2. /\ Stored(mem)["stage"] = mem["stage"] /\ Stored(mem)["attempts"] = mem["attempts"]
        /\ Loaded(u)["stage"] = u["attempts"]
    BY <1>2, <1>7, <1>8, StoredFacts, LoadedFacts
  <2>3. u["attempts"] = mem["attempts"]
    BY <1>2, <1>7, <1>8, <2>1, <2>2 DEF Agrees, Misread
  <2>4. u["stage"] = mem["stage"] \/ mem["stage"] = mem["attempts"]
    BY <1>2, <1>7, <1>8, <2>1, <2>2 DEF Agrees, Misread
  <2>5. QED
    BY <1>5, <2>2, <2>3, <2>4
<1>11. QED
  BY <1>2, <1>5, <1>9, <1>10 DEF RowFollows, MissionsAgree, MissionAgrees

LEMMA InvImpliesOneGiftADay ==
    ASSUME ProgressInv
    PROVE  OneGiftADay
<1>1. Ahead \in Database /\ Accounted(Ahead.gifts, db.lastDay, dating, torn)
  BY AheadDatabase DEF ProgressInv, GiftsAccounted
<1>2. PICK u : u = Over(callbacks, Ahead.user)
  OBVIOUS
<1>3. Drained = [Ahead EXCEPT !.user = u]
  BY <1>2 DEF Drained, Ahead
<1>4. Drained.gifts = Ahead.gifts
  BY <1>1, <1>3 DEF Database
<1>5. QED
  BY <1>1, <1>4 DEF OneGiftADay, Accounted, Day

-----------------------------------------------------------------------------
(* Queues that are sound. *)

LEMMA ChainEnd ==
    ASSUME NEW ws, Len(ws) \in Nat, NEW d, NEW g, Chain(g, d, ws)
    PROVE  Made(d, ws) = g[Len(ws)]
<1>1. PICK h : Chain(h, d, ws) /\ Made(d, ws) = h[Len(ws)]
  BY MadeByChain
<1>2. g[0] = d /\ \A i \in 1 .. Len(ws) : g[i] = Applied(g[i - 1], ws[i])
  BY ChainSteps
<1>3. h[0] = d /\ \A i \in 1 .. Len(ws) : h[i] = Applied(h[i - 1], ws[i])
  BY <1>1, ChainSteps
<1>4. g[0] = h[0] /\ \A i \in 1 .. Len(ws) : g[i - 1] = h[i - 1] => g[i] = h[i]
  BY <1>2, <1>3
<1>5. Len(ws) \in Nat
  OBVIOUS
<1>6. g[Len(ws)] = h[Len(ws)]
  BY ONLY <1>4, <1>5, ChainsAlike
<1>7. QED
  BY <1>1, <1>6

LEMMA ChainBySteps ==
    ASSUME NEW ws, Len(ws) \in Nat, NEW d, NEW g, NEW h,
           g = [n \in 0 .. Len(ws) |-> h[n]],
           g[0] = d,
           \A i \in 1 .. Len(ws) : g[i] = Applied(g[i - 1], ws[i])
    PROVE  Chain(g, d, ws)
<1>1. \A n \in 0 .. Len(ws) : n # 0 => n \in 1 .. Len(ws)
  OBVIOUS
<1>2. \A n \in 0 .. Len(ws) : g[n] = IF n = 0 THEN d ELSE Applied(g[n - 1], ws[n])
  BY <1>1
<1>3. g = [n \in 0 .. Len(ws) |-> g[n]]
  <2>1. \A n \in 0 .. Len(ws) : h[n] = g[n]
    OBVIOUS
  <2>2. [n \in 0 .. Len(ws) |-> h[n]] = [n \in 0 .. Len(ws) |-> g[n]]
    BY ONLY <2>1, Zenon
  <2>3. QED
    BY ONLY <2>2, g = [n \in 0 .. Len(ws) |-> h[n]]
<1>4. [n \in 0 .. Len(ws) |-> g[n]]
        = [n \in 0 .. Len(ws) |-> IF n = 0 THEN d ELSE Applied(g[n - 1], ws[n])]
  BY ONLY <1>2, Zenon
<1>5. QED
  BY ONLY <1>3, <1>4 DEF Chain

LEMMA SoundEmpty ==
    ASSUME NEW d, Within(d.user)
    PROVE  Sound(d, <<>>)
<1>1. Len(<<>>) = 0 /\ 0 \in Nat
  OBVIOUS
<1>2. PICK g : Chain(g, d, <<>>) /\ Made(d, <<>>) = g[Len(<<>>)]
  BY <1>1, MadeByChain
<1>3. g[0] = d
  BY <1>1, <1>2, ChainSteps
<1>4. \A n \in 0 .. Len(<<>>) : n = 0
  BY <1>1
<1>5. QED
  BY <1>2, <1>3, <1>4 DEF Sound

LEMMA SoundEnds ==
    ASSUME NEW d, NEW q \in Seq(Write), Sound(d, q)
    PROVE  Within(d.user) /\ Within(Made(d, q).user)
<1>1. Len(q) \in Nat /\ 0 \in 0 .. Len(q) /\ Len(q) \in 0 .. Len(q)
  OBVIOUS
<1>2. PICK g : Chain(g, d, q) /\ \A n \in 0 .. Len(q) : Within(g[n].user)
  BY DEF Sound
<1>3. g[0] = d
  BY <1>1, <1>2, ChainSteps
<1>4. Made(d, q) = g[Len(q)]
  BY <1>1, <1>2, ChainEnd
<1>5. QED
  BY <1>1, <1>2, <1>3, <1>4

\* A write queued behind others.
LEMMA QueuedLast ==
    ASSUME NEW d, NEW q \in Seq(Write), NEW w \in Write, Sound(d, q),
           Within(Applied(Made(d, q), w).user)
    PROVE  /\ q \o <<w>> \in Seq(Write)
           /\ Made(d, q \o <<w>>) = Applied(Made(d, q), w)
           /\ Sound(d, q \o <<w>>)
<1>1. PICK r : r = q \o <<w>>
  OBVIOUS
<1>2. /\ r \in Seq(Write) /\ Len(q) \in Nat /\ Len(r) = Len(q) + 1 /\ Len(r) \in Nat
      /\ \A i \in 1 .. Len(q) : r[i] = q[i]
      /\ r[Len(r)] = w
  BY <1>1
<1>3. Made(d, q \o <<w>>) = Applied(Made(d, q), w)
  BY MadeLast
<1>4. PICK g : Chain(g, d, q) /\ \A n \in 0 .. Len(q) : Within(g[n].user)
  BY DEF Sound
<1>5. g[0] = d /\ \A i \in 1 .. Len(q) : g[i] = Applied(g[i - 1], q[i])
  BY <1>2, <1>4, ChainSteps
<1>6. Made(d, q) = g[Len(q)]
  BY <1>2, <1>4, ChainEnd
<1> DEFINE e == Applied(Made(d, q), w)
           h == [n \in 0 .. Len(r) |-> IF n = Len(r) THEN e ELSE g[n]]
<1>7. h[Len(r)] = e /\ \A n \in 0 .. Len(q) : h[n] = g[n]
  <2> HIDE DEF e
  <2> QED BY <1>2
<1> HIDE DEF e
<1>8. h[0] = d
  BY <1>2, <1>5, <1>7
<1>9. \A i \in 1 .. Len(r) : h[i] = Applied(h[i - 1], r[i])
  <2> HIDE DEF h
  <2>1. SUFFICES ASSUME NEW i \in 1 .. Len(r) PROVE h[i] = Applied(h[i - 1], r[i])
    OBVIOUS
  <2>2. CASE i = Len(r)
    <3>1. i - 1 = Len(q) /\ Len(q) \in 0 .. Len(q)
      BY <1>2, <2>2
    <3>2. h[i] = Applied(g[Len(q)], w)
      BY <1>6, <1>7, <2>2 DEF e
    <3>3. QED
      BY <1>2, <1>7, <2>2, <3>1, <3>2
  <2>3. CASE i # Len(r)
    <3>1. i \in 1 .. Len(q) /\ i \in 0 .. Len(q) /\ i - 1 \in 0 .. Len(q)
      BY <1>2, <2>3
    <3>2. QED
      BY <1>2, <1>5, <1>7, <3>1
  <2>4. QED
    BY <2>2, <2>3
<1>10. Chain(h, d, r)
  <2>1. h = [n \in 0 .. Len(r) |-> h[n]]
    OBVIOUS
  <2> HIDE DEF h
  <2>2. QED
    BY ONLY <1>2, <1>8, <1>9, <2>1, ChainBySteps
<1>11. \A n \in 0 .. Len(r) : Within(h[n].user)
  <2> HIDE DEF h
  <2>1. \A n \in 0 .. Len(r) : n = Len(r) \/ n \in 0 .. Len(q)
    BY <1>2
  <2>2. QED
    BY <1>4, <1>7, <2>1 DEF e
<1>12. Sound(d, r)
  <2> HIDE DEF h
  <2> QED BY <1>10, <1>11 DEF Sound
<1>13. QED
  BY <1>1, <1>2, <1>3, <1>12

\* The first of a queue is made.
LEMMA SoundTail ==
    ASSUME NEW d, NEW q \in Seq(Write), q # <<>>, Sound(d, q)
    PROVE  Sound(Applied(d, Head(q)), Tail(q))
<1>1. PICK t, w : t = Tail(q) /\ w = Head(q)
  OBVIOUS
<1>2. /\ t \in Seq(Write) /\ Len(q) \in Nat /\ Len(t) \in Nat /\ Len(q) = Len(t) + 1
      /\ \A i \in 1 .. Len(t) : t[i] = q[i + 1]
      /\ w = q[1]
  BY <1>1
<1>3. PICK g : Chain(g, d, q) /\ \A n \in 0 .. Len(q) : Within(g[n].user)
  BY DEF Sound
<1>4. g[0] = d /\ \A i \in 1 .. Len(q) : g[i] = Applied(g[i - 1], q[i])
  BY <1>2, <1>3, ChainSteps
<1> DEFINE h == [n \in 0 .. Len(t) |-> g[n + 1]]
<1>5. \A n \in 0 .. Len(t) : h[n] = g[n + 1] /\ n + 1 \in 0 .. Len(q)
  BY <1>2
<1>6. h = [n \in 0 .. Len(t) |-> h[n]]
  OBVIOUS
<1> HIDE DEF h
<1>7. h[0] = Applied(d, w)
  <2>1. 0 \in 0 .. Len(t) /\ 0 + 1 = 1 /\ 1 \in 1 .. Len(q) /\ 1 - 1 = 0
    BY <1>2
  <2>2. h[0] = g[1]
    BY <1>5, <2>1
  <2>3. QED
    BY <1>2, <1>4, <2>1, <2>2
<1>8. \A i \in 1 .. Len(t) : h[i] = Applied(h[i - 1], t[i])
  <2>1. SUFFICES ASSUME NEW i \in 1 .. Len(t) PROVE h[i] = Applied(h[i - 1], t[i])
    OBVIOUS
  <2>2. i \in 0 .. Len(t) /\ i - 1 \in 0 .. Len(t) /\ i + 1 \in 1 .. Len(q)
        /\ i + 1 - 1 = i /\ i - 1 + 1 = i
    BY <1>2
  <2>3. h[i] = g[i + 1] /\ h[i - 1] = g[i]
    BY <1>5, <2>2
  <2>4. g[i + 1] = Applied(g[i], q[i + 1])
    BY <1>4, <2>2
  <2>5. QED
    BY <1>2, <2>3, <2>4
<1>9. Chain(h, Applied(d, w), t)
  BY ONLY <1>2, <1>6, <1>7, <1>8, ChainBySteps
<1>10. \A n \in 0 .. Len(t) : Within(h[n].user)
  BY <1>3, <1>5
<1>11. Sound(Applied(d, w), t)
  BY <1>9, <1>10 DEF Sound
<1>12. QED
  BY <1>1, <1>11

\* A date is written.
LEMMA SoundRedated ==
    ASSUME NEW d \in Database, NEW l \in [Calendar -> Int], NEW q \in Seq(Write), Sound(d, q)
    PROVE  Sound(Redated(d, l), q)
<1>1. Len(q) \in Nat /\ \A i \in 1 .. Len(q) : q[i] \in Write
  OBVIOUS
<1>2. PICK g : Chain(g, d, q) /\ \A n \in 0 .. Len(q) : Within(g[n].user)
  BY DEF Sound
<1>3. g[0] = d /\ \A i \in 1 .. Len(q) : g[i] = Applied(g[i - 1], q[i])
  BY <1>1, <1>2, ChainSteps
<1>4. \A n \in 0 .. Len(q) : g[n] \in Database
  <2> DEFINE Bad == {i \in 0 .. Len(q) : g[i] \notin Database}
  <2>1. SUFFICES ASSUME Bad # {} PROVE FALSE
    OBVIOUS
  <2>2. Bad \in SUBSET Nat
    BY <1>1
  <2>3. PICK i \in Bad : \A y \in Bad : i <= y
    BY <2>1, <2>2, LeastNatural
  <2>4. i \in 0 .. Len(q) /\ g[i] \notin Database
    BY <2>3
  <2>5. i # 0
    BY <2>4, <1>3
  <2>6. i - 1 \in 0 .. Len(q) /\ i \in 1 .. Len(q) /\ ~(i <= i - 1)
    BY <2>4, <2>5, <1>1
  <2>7. g[i - 1] \in Database
    BY <2>3, <2>6
  <2>8. g[i] \in Database
    BY <1>1, <1>3, <2>6, <2>7, AppliedDatabase
  <2>9. QED
    BY <2>4, <2>8
<1> DEFINE h == [n \in 0 .. Len(q) |-> Redated(g[n], l)]
<1>5. \A n \in 0 .. Len(q) : h[n] = Redated(g[n], l)
  OBVIOUS
<1>6. h = [n \in 0 .. Len(q) |-> h[n]]
  OBVIOUS
<1> HIDE DEF h
<1>7. h[0] = Redated(d, l)
  BY <1>1, <1>3, <1>5
<1>8. \A i \in 1 .. Len(q) : h[i] = Applied(h[i - 1], q[i])
  <2>1. SUFFICES ASSUME NEW i \in 1 .. Len(q) PROVE h[i] = Applied(h[i - 1], q[i])
    OBVIOUS
  <2>2. i \in 0 .. Len(q) /\ i - 1 \in 0 .. Len(q)
    BY <1>1
  <2>3. Applied(Redated(g[i - 1], l), q[i]) = Redated(Applied(g[i - 1], q[i]), l)
    BY <1>1, <1>4, <2>2, RedatedApplied
  <2>4. QED
    BY <1>3, <1>5, <2>2, <2>3
<1>9. Chain(h, Redated(d, l), q)
  BY ONLY <1>1, <1>6, <1>7, <1>8, ChainBySteps
<1>10. \A n \in 0 .. Len(q) : Within(h[n].user)
  BY <1>2, <1>4, <1>5, RedatedFields
<1>11. QED
  BY <1>9, <1>10 DEF Sound

-----------------------------------------------------------------------------
(* What a packet does to the agreement of copy and row. *)

LEMMA FieldNames ==
    /\ Keyed \subseteq Stats /\ Stats \subseteq Fields /\ Numbers \subseteq Fields
    /\ "level" \in Keyed /\ "mp" \in Keyed /\ "exp" \in Keyed /\ Keyed \subseteq Numbers
    /\ "battery" \in Numbers /\ "maxBattery" \in Numbers /\ "kills" \in Numbers /\ "wins" \in Numbers
    /\ "score" \in Numbers /\ "worn" \in Fields \ Numbers /\ "tutorial" \in Fields \ Numbers
    /\ "battery" \notin Stats /\ "maxBattery" \notin Stats /\ "worn" \notin Stats
    /\ "kills" \notin Keyed /\ "wins" \notin Keyed /\ "score" \notin Keyed
    /\ "stage" \in Stats /\ "stage" \in Fields /\ "stage" \in Numbers /\ "stage" \notin Keyed
    /\ "attempts" \in Fields \ Stats /\ "attempts" \notin Keyed
    /\ "score" \in Stats /\ "tutorial" \in Stats
    /\ "level" \in Fields /\ "mp" \in Fields /\ "exp" \in Fields /\ "battery" \in Fields
    /\ "maxBattery" \in Fields /\ "score" \in Fields /\ "worn" \in Fields /\ "tutorial" \in Fields
    /\ "worn" \notin Numbers /\ "tutorial" \notin Numbers
  BY DEF Keyed, Stats, Fields, Numbers

CopyWith(copy, f, v) == [copy EXCEPT ![f] = v]

LEMMA CopySetAny ==
    ASSUME NEW copy \in User, NEW f \in Fields, NEW v \in Value, f \in Numbers => v \in Int
    PROVE  /\ CopyWith(copy, f, v) \in User
           /\ \A g \in Fields : CopyWith(copy, f, v)[g] = IF g = f THEN v ELSE copy[g]
<1>1. copy \in [Fields -> Value] /\ \A g \in Numbers : copy[g] \in Int
  BY DEF User
<1>2. v \in Value /\ (f \in Numbers => v \in Int)
  OBVIOUS
<1> DEFINE u == [copy EXCEPT ![f] = v]
<1>3. u \in [Fields -> Value] /\ \A g \in Fields : u[g] = IF g = f THEN v ELSE copy[g]
  BY <1>1, <1>2
<1>4. \A g \in Numbers : g \in Fields
  BY DEF Fields
<1>5. u \in User
  <2> HIDE DEF u
  <2> QED BY <1>1, <1>2, <1>3, <1>4 DEF User
<1>6. QED
  BY <1>3, <1>5 DEF CopyWith

LEMMA CopySet ==
    ASSUME NEW copy \in User, NEW f, f \in Fields, NEW v, v \in Int
    PROVE  /\ CopyWith(copy, f, v) \in User
           /\ \A g \in Fields : CopyWith(copy, f, v)[g] = IF g = f THEN v ELSE copy[g]
<1>1. v \in Value /\ (f \in Numbers => v \in Int)
  BY DEF Value
<1>2. QED
  BY <1>1, CopySetAny

LEMMA CopyFlag ==
    ASSUME NEW copy \in User, NEW f, f \in Fields, f \notin Numbers, NEW v, v \in BOOLEAN
    PROVE  /\ CopyWith(copy, f, v) \in User
           /\ \A g \in Fields : CopyWith(copy, f, v)[g] = IF g = f THEN v ELSE copy[g]
<1>1. v \in Value /\ (f \in Numbers => v \in Int) /\ f \in Fields
  BY DEF Value
<1>2. QED
  BY <1>1, CopySetAny

\* Fields that have no key, each set in the copy and in the row.
SetAlike(copy, copy2, u, u2, F) ==
    /\ F \cap Keyed = {} /\ "stage" \notin F /\ "attempts" \notin F
    /\ \A f \in Fields \ F : copy2[f] = copy[f] /\ u2[f] = u[f]
    /\ \A f \in F : u2[f] = copy2[f]

LEMMA AgreesSet ==
    ASSUME NEW copy \in User, NEW copy2 \in User, NEW ov, NEW cb, NEW u, NEW u2,
           DOMAIN cb \subseteq Keyed, Agrees(copy, ov, cb, u),
           NEW F, SetAlike(copy, copy2, u, u2, F)
    PROVE  Agrees(copy2, ov, cb, u2)
<1> USE DEF SetAlike
<1>1. SUFFICES ASSUME NEW f \in Fields \ ov
               PROVE  Held(cb, u2, f) = Stored(copy2)[f] \/ Misread(Stored(copy2), f)
  BY DEF Agrees
<1>2. /\ "level" \in Keyed /\ "level" \in Fields
      /\ "stage" \in Fields /\ "attempts" \in Fields
  BY DEF Keyed, Fields, Numbers
<1>3. Held(cb, u, f) = Stored(copy)[f] \/ Misread(Stored(copy), f)
  BY DEF Agrees
<1>4. CASE f \in F
  <2>1. f \notin DOMAIN cb /\ f # "level"
    BY <1>2, <1>4
  <2>2. Stored(copy2)[f] = copy2[f]
    BY <2>1, StoredFacts
  <2>3. QED
    BY <1>4, <2>1, <2>2 DEF Held
<1>5. CASE f \notin F
  <2>1. "level" \notin F
    BY <1>2
  <2>2. \A g \in Fields \ F : Stored(copy2)[g] = Stored(copy)[g]
    BY <1>2, <2>1, StoredFacts
  <2>3. u2[f] = u[f] /\ Stored(copy2)[f] = Stored(copy)[f]
    BY <1>5, <2>2
  <2>4. Misread(Stored(copy), f) => Misread(Stored(copy2), f)
    BY <1>2, <2>2 DEF Misread
  <2>5. QED
    BY <1>3, <2>3, <2>4 DEF Held
<1>6. QED
  BY <1>4, <1>5

\* The statistics are written, and what is not among them is set or as before.
LEMMA AgreesStats ==
    ASSUME NEW copy \in User, NEW copy2 \in User, NEW ov, NEW cb, NEW u, NEW u2,
           DOMAIN cb \subseteq Keyed, ov \subseteq Keyed, Agrees(copy, ov, cb, u),
           \A f \in Stats : u2[f] = Stored(copy2)[f],
           \A f \in Fields \ Stats : (copy2[f] = copy[f] /\ u2[f] = u[f]) \/ u2[f] = copy2[f]
    PROVE  Agrees(copy2, DOMAIN cb, cb, u2)
<1>1. SUFFICES ASSUME NEW f \in Fields \ DOMAIN cb PROVE Held(cb, u2, f) = Stored(copy2)[f]
  BY DEF Agrees
<1>2. Held(cb, u2, f) = u2[f] /\ Held(cb, u, f) = u[f]
  BY DEF Held
<1>3. CASE f \in Stats
  BY <1>2, <1>3
<1>4. CASE f \notin Stats
  <2>1. f \notin ov /\ f # "level" /\ f # "stage"
    BY <1>4, FieldNames
  <2>2. u[f] = Stored(copy)[f]
    BY <1>2, <2>1 DEF Agrees, Misread
  <2>3. Stored(copy)[f] = copy[f] /\ Stored(copy2)[f] = copy2[f]
    BY <2>1, StoredFacts
  <2>4. QED
    BY <1>2, <1>4, <2>2, <2>3
<1>5. QED
  BY <1>3, <1>4

\* Fields set by their keys.
LEMMA AgreesKeyed ==
    ASSUME NEW copy, NEW copy2, NEW ov, NEW cb, NEW u, NEW values,
           Agrees(copy, ov, cb, u), DOMAIN values \subseteq Keyed,
           \A f \in Fields \ DOMAIN values : Stored(copy2)[f] = Stored(copy)[f],
           \A f \in DOMAIN values : values[f] = Stored(copy2)[f]
    PROVE  Agrees(copy2, ov \ DOMAIN values, Over(values, cb), u)
<1>1. SUFFICES ASSUME NEW f \in Fields, f \notin ov \ DOMAIN values
               PROVE  Held(Over(values, cb), u, f) = Stored(copy2)[f] \/ Misread(Stored(copy2), f)
  BY DEF Agrees
<1>2. /\ DOMAIN Over(values, cb) = DOMAIN values \cup DOMAIN cb
      /\ \A x \in DOMAIN values \cup DOMAIN cb :
            Over(values, cb)[x] = IF x \in DOMAIN values THEN values[x] ELSE cb[x]
  BY DEF Over
<1>3. CASE f \in DOMAIN values
  BY <1>2, <1>3 DEF Held
<1>4. CASE f \notin DOMAIN values
  <2>1. Held(cb, u, f) = Stored(copy)[f] \/ Misread(Stored(copy), f)
    BY <1>1, <1>4 DEF Agrees
  <2>2. Held(Over(values, cb), u, f) = Held(cb, u, f)
    BY <1>2, <1>4 DEF Held
  <2>3. "stage" \in Fields \ DOMAIN values /\ "attempts" \in Fields \ DOMAIN values
    BY DEF Keyed, Fields, Numbers
  <2>4. Misread(Stored(copy), f) => Misread(Stored(copy2), f)
    BY <2>3 DEF Misread
  <2>5. QED
    BY <1>4, <2>1, <2>2, <2>4
<1>5. QED
  BY <1>3, <1>4

\* What holds while a session handles a packet.
LEMMA Now ==
    ASSUME ProgressInv, Handle
    PROVE  /\ online /\ mem \in User /\ active \in Points /\ collected \in Int
           /\ incremental \in Seq(Write)
           /\ DOMAIN callbacks \subseteq Keyed /\ (\A f \in DOMAIN callbacks : callbacks[f] \in Int)
           /\ overtaken \subseteq Keyed
           /\ Ahead \in Database /\ Ahead.user \in User
           /\ Agrees(mem, overtaken, callbacks, Ahead.user)
           /\ MissionsAgree(active, Ahead.points)
           /\ Sound(db, incremental)
           /\ mem["battery"] <= mem["maxBattery"]
           /\ Ahead.user["battery"] = mem["battery"] /\ Ahead.user["maxBattery"] = mem["maxBattery"]
           /\ db' = db
<1>1. online /\ db' = db
  BY DEF Handle
<1>2. /\ mem \in User /\ active \in Points /\ collected \in Int
      /\ incremental \in Seq(Write)
      /\ DOMAIN callbacks \subseteq Keyed /\ (\A f \in DOMAIN callbacks : callbacks[f] \in Int)
      /\ overtaken \subseteq Keyed
      /\ Agrees(mem, overtaken, callbacks, Ahead.user)
      /\ MissionsAgree(active, Ahead.points)
      /\ Sound(db, incremental)
  BY <1>1 DEF ProgressInv, Types, RowAgrees, BatterySound
<1>3. Ahead \in Database
  BY AheadDatabase DEF ProgressInv
<1>4. Ahead.user \in User
  BY <1>3 DEF Database
<1>5. \A f \in {"battery", "maxBattery"} : Ahead.user[f] = mem[f]
  <2>1. SUFFICES ASSUME NEW f \in {"battery", "maxBattery"} PROVE Ahead.user[f] = mem[f]
    OBVIOUS
  <2>2. f \in Fields /\ f \notin Keyed /\ f # "level" /\ f # "stage"
    BY FieldNames
  <2>3. f \notin overtaken /\ f \notin DOMAIN callbacks
    BY <1>2, <2>2
  <2>4. Held(callbacks, Ahead.user, f) = Stored(mem)[f]
    BY <1>2, <2>2, <2>3 DEF Agrees, Misread
  <2>5. QED
    BY <1>2, <2>2, <2>3, <2>4, StoredFacts DEF Held
<1>6. Within(Ahead.user)
  BY ONLY <1>2, SoundEnds DEF Ahead
<1>7. QED
  BY <1>1, <1>2, <1>3, <1>4, <1>5, <1>6 DEF Within

\* A packet leaves the rewards alone.
LEMMA PacketInv ==
    ASSUME ProgressInv, Handle, mem' \in User, active' \in Points, collected' \in Int,
           incremental' \in Seq(Write), DOMAIN callbacks' \subseteq Keyed,
           \A f \in DOMAIN callbacks' : callbacks'[f] \in Int,
           overtaken' \subseteq Keyed, Ahead'.gifts = Ahead.gifts,
           Agrees(mem', overtaken', callbacks', Ahead'.user),
           MissionsAgree(active', Ahead'.points),
           Sound(db, incremental')
    PROVE  ProgressInv'
<1>1. /\ online /\ pass = "none" /\ online' = online /\ rewards' = rewards /\ dating' = dating
      /\ db' = db /\ pass' = pass /\ today' = today /\ torn' = torn
  BY DEF Handle
<1>2. Types'
  BY <1>1 DEF ProgressInv, Types
<1>3. Quiet'
  BY <1>1 DEF ProgressInv, Quiet
<1>4. RowAgrees'
  BY <1>1 DEF RowAgrees
<1>5. GiftsAccounted'
  BY <1>1 DEF ProgressInv, GiftsAccounted
<1>6. BatterySound'
  BY <1>1 DEF BatterySound
<1>7. QED
  BY <1>2, <1>3, <1>4, <1>5, <1>6 DEF ProgressInv

\* One write queued.
LEMMA OneQueued ==
    ASSUME incremental \in Seq(Write), NEW w \in Write, db' = db, incremental' = incremental \o <<w>>,
           Sound(db, incremental), Within(Applied(Ahead, w).user)
    PROVE  /\ incremental' \in Seq(Write) /\ Ahead' = Applied(Ahead, w)
           /\ Sound(db, incremental')
<1>1. /\ incremental \o <<w>> \in Seq(Write)
      /\ Made(db, incremental \o <<w>>) = Applied(Made(db, incremental), w)
      /\ Sound(db, incremental \o <<w>>)
  BY QueuedLast DEF Ahead
<1>2. Ahead' = Made(db, incremental \o <<w>>)
  BY DEF Ahead
<1>3. QED
  BY <1>1, <1>2 DEF Ahead

LEMMA QueueOne ==
    ASSUME NEW w, Queue(<<w>>)
    PROVE  /\ incremental' = incremental \o <<w>>
           /\ overtaken' = IF w.kind = "stats" THEN DOMAIN callbacks ELSE overtaken
<1>1. DOMAIN <<w>> = {1} /\ <<w>>[1] = w
  OBVIOUS
<1>2. (\E i \in DOMAIN <<w>> : <<w>>[i].kind = "stats") <=> w.kind = "stats"
  BY <1>1
<1>3. incremental' = incremental \o <<w>>
  BY DEF Queue
<1>4. overtaken' = IF \E i \in DOMAIN <<w>> : <<w>>[i].kind = "stats" THEN DOMAIN callbacks
                   ELSE overtaken
  BY DEF Queue
<1>5. QED
  BY <1>2, <1>3, <1>4

-----------------------------------------------------------------------------
(* The packets. *)

LEMMA FindBatteryInv ==
    ASSUME ProgressInv, FindBattery
    PROVE  ProgressInv'
<1>1. Handle /\ collected' = 1
      /\ UNCHANGED <<mem, active, incremental, callbacks, overtaken>>
  BY DEF FindBattery, queueVars
<1>2. db' = db
  BY <1>1 DEF Handle
<1>3. Ahead' = Ahead
  BY <1>1, <1>2 DEF Ahead
<1>4. QED
  BY <1>1, <1>3, Now, PacketInv

LEMMA SendBatteryInv ==
    ASSUME ProgressInv, SendBattery
    PROVE  ProgressInv'
<1>1. Handle /\ UNCHANGED <<active, collected, callbacks>>
  BY DEF SendBattery
<1>2. PICK v : v = Charged(mem, 1)
  OBVIOUS
<1>3. /\ mem \in User /\ active \in Points /\ collected \in Int /\ incremental \in Seq(Write)
      /\ DOMAIN callbacks \subseteq Keyed /\ (\A f \in DOMAIN callbacks : callbacks[f] \in Int)
      /\ overtaken \subseteq Keyed /\ Ahead \in Database /\ Ahead.user \in User
      /\ Agrees(mem, overtaken, callbacks, Ahead.user) /\ MissionsAgree(active, Ahead.points)
      /\ Sound(db, incremental) /\ mem["battery"] <= mem["maxBattery"]
      /\ Ahead.user["maxBattery"] = mem["maxBattery"] /\ db' = db
  BY <1>1, Now
<1>4. mem["battery"] \in Int /\ mem["maxBattery"] \in Int
  BY <1>3, FieldNames, UserFields
<1>5. v \in Int /\ mem["battery"] <= v /\ v <= mem["maxBattery"]
  BY <1>2, <1>3, <1>4 DEF Charged
<1>6. mem' = CopyWith(mem, "battery", v)
  BY <1>2 DEF CopyWith, SendBattery
<1>7. /\ mem' \in User
      /\ \A g \in Fields : mem'[g] = IF g = "battery" THEN v ELSE mem[g]
  <2>1. mem \in User /\ "battery" \in Fields /\ v \in Int
    BY <1>3, <1>5, FieldNames
  <2>2. QED
    BY ONLY <1>6, <2>1, CopySet
<1>8. mem'["battery"] = v
  BY <1>7, FieldNames
<1>9. CASE v > mem["battery"]
  <2> DEFINE w == [kind |-> "battery", to |-> v]
  <2>1. Queue(<<w>>)
    BY <1>8, <1>9 DEF SendBattery
  <2>2. w \in Write /\ w.kind # "stats"
    BY <1>5 DEF Write
  <2>3. Applied(Ahead, w) = SetField(Ahead, "battery", v)
    BY DEF Applied, BatteryWritten
  <2> HIDE DEF w
  <2>4. incremental' = incremental \o <<w>> /\ overtaken' = overtaken
    BY <2>1, <2>2, QueueOne
  <2>5. /\ SetField(Ahead, "battery", v) \in Database
        /\ SetField(Ahead, "battery", v).points = Ahead.points
        /\ SetField(Ahead, "battery", v).gifts = Ahead.gifts
        /\ \A g \in Fields : SetField(Ahead, "battery", v).user[g]
              = IF g = "battery" THEN v ELSE Ahead.user[g]
    <3>1. Ahead \in Database /\ "battery" \in Fields /\ v \in Int
      BY <1>3, <1>5, FieldNames
    <3>2. QED
      BY ONLY <3>1, FieldSet
  <2>6. Within(Applied(Ahead, w).user)
    BY <1>3, <1>5, <2>3, <2>5, FieldNames DEF Within
  <2>7. incremental' \in Seq(Write) /\ Ahead' = Applied(Ahead, w) /\ Sound(db, incremental')
    BY <1>3, <2>2, <2>4, <2>6, OneQueued
  <2>8. \A g \in Fields : Ahead'.user[g] = IF g = "battery" THEN v ELSE Ahead.user[g]
    BY <2>3, <2>5, <2>7
  <2>9. Agrees(mem', overtaken, callbacks, Ahead'.user)
    <3>0. PICK F : F = {"battery"}
      OBVIOUS
    <3>1. F \cap Keyed = {} /\ "stage" \notin F /\ "attempts" \notin F
      BY FieldNames, <3>0
    <3>2. \A f \in Fields \ F : mem'[f] = mem[f] /\ Ahead'.user[f] = Ahead.user[f]
      BY <3>0, <1>7, <2>8
    <3>3. \A f \in F : Ahead'.user[f] = mem'[f]
      BY <3>0, <1>8, <2>8, FieldNames
    <3>4. SetAlike(mem, mem', Ahead.user, Ahead'.user, F)
      BY ONLY <3>1, <3>2, <3>3 DEF SetAlike
    <3>5. QED
      BY ONLY <1>3, <1>7, <3>4, AgreesSet
  <2>10. QED
    BY <1>1, <1>3, <1>7, <2>3, <2>4, <2>5, <2>7, <2>9, PacketInv
<1>10. CASE ~(v > mem["battery"])
  <2>1. UNCHANGED <<incremental, overtaken>>
    BY <1>8, <1>10 DEF SendBattery
  <2>2. Ahead' = Ahead
    BY <1>3, <2>1 DEF Ahead
  <2>3. v = mem["battery"]
    BY <1>4, <1>5, <1>10
  <2>4. \A g \in Fields : mem'[g] = mem[g]
    BY <1>7, <2>3
  <2>5. mem' = mem
    BY <1>3, <1>6, <2>3 DEF User, CopyWith
  <2>6. QED
    BY <1>1, <1>3, <2>1, <2>2, <2>5, PacketInv
<1>11. QED
  BY <1>9, <1>10

LEMMA ExpandBatteryInv ==
    ASSUME ProgressInv, ExpandBattery
    PROVE  ProgressInv'
<1>1. Handle /\ UNCHANGED <<active, collected, callbacks>>
  BY DEF ExpandBattery
<1>2. /\ mem \in User /\ active \in Points /\ collected \in Int /\ incremental \in Seq(Write)
      /\ DOMAIN callbacks \subseteq Keyed /\ (\A f \in DOMAIN callbacks : callbacks[f] \in Int)
      /\ overtaken \subseteq Keyed /\ Ahead \in Database /\ Ahead.user \in User
      /\ Agrees(mem, overtaken, callbacks, Ahead.user) /\ MissionsAgree(active, Ahead.points)
      /\ Sound(db, incremental) /\ mem["battery"] <= mem["maxBattery"]
      /\ Ahead.user["battery"] = mem["battery"]
      /\ Ahead.user["maxBattery"] = mem["maxBattery"] /\ db' = db
  BY <1>1, Now
<1>3. PICK v : v = mem["maxBattery"] + 1
  OBVIOUS
<1>4. mem["battery"] \in Int /\ mem["maxBattery"] \in Int
  BY <1>2, FieldNames, UserFields
<1>5. v \in Int /\ mem["battery"] <= v
  BY <1>2, <1>3, <1>4
<1>6. mem' = CopyWith(mem, "maxBattery", v)
  BY <1>3 DEF CopyWith, ExpandBattery
<1>7. /\ mem' \in User
      /\ \A g \in Fields : mem'[g] = IF g = "maxBattery" THEN v ELSE mem[g]
  <2>1. mem \in User /\ "maxBattery" \in Fields /\ v \in Int
    BY <1>2, <1>5, FieldNames
  <2>2. QED
    BY ONLY <1>6, <2>1, CopySet
<1> DEFINE w == [kind |-> "expand"]
<1>8. Queue(<<w>>) /\ mem["maxBattery"] <= TopBattery
  BY DEF ExpandBattery
<1>9. w \in Write /\ w.kind # "stats"
  BY DEF Write
<1>10. Applied(Ahead, w) = BatteryExpanded(Ahead)
  BY DEF Applied
<1> HIDE DEF w
<1>11. incremental' = incremental \o <<w>> /\ overtaken' = overtaken
  BY <1>8, <1>9, QueueOne
<1>12. ~(Ahead.user["maxBattery"] > TopBattery)
  BY <1>2, <1>4, <1>8, ProgressAssumption
<1>13. /\ BatteryExpanded(Ahead).points = Ahead.points
       /\ BatteryExpanded(Ahead).gifts = Ahead.gifts
       /\ \A g \in Fields : BatteryExpanded(Ahead).user[g]
              = IF g = "maxBattery" THEN v ELSE Ahead.user[g]
  BY <1>2, <1>3, <1>12, ExpandedSet
<1>14. Within(Applied(Ahead, w).user)
  BY <1>2, <1>5, <1>10, <1>13, FieldNames DEF Within
<1>15. incremental' \in Seq(Write) /\ Ahead' = Applied(Ahead, w) /\ Sound(db, incremental')
  BY <1>2, <1>9, <1>11, <1>14, OneQueued
<1>16. Agrees(mem', overtaken, callbacks, Ahead'.user)
  <2>0. PICK F : F = {"maxBattery"}
    OBVIOUS
  <2>1. F \cap Keyed = {} /\ "stage" \notin F /\ "attempts" \notin F
    BY FieldNames, <2>0
  <2>2. \A f \in Fields \ F : mem'[f] = mem[f] /\ Ahead'.user[f] = Ahead.user[f]
    BY <2>0, <1>7, <1>10, <1>13, <1>15
  <2>3. \A f \in F : Ahead'.user[f] = mem'[f]
    BY <2>0, <1>7, <1>10, <1>13, <1>15, FieldNames
  <2>4. SetAlike(mem, mem', Ahead.user, Ahead'.user, F)
    BY ONLY <2>1, <2>2, <2>3 DEF SetAlike
  <2>5. QED
    BY ONLY <1>2, <1>7, <2>4, AgreesSet
<1>17. QED
  BY <1>1, <1>2, <1>7, <1>10, <1>11, <1>13, <1>15, <1>16, PacketInv

LEMMA ResetInv ==
    ASSUME ProgressInv, NEW field \in {"kills", "wins"}, Reset(field)
    PROVE  ProgressInv'
<1>1. Handle /\ UNCHANGED <<active, collected, callbacks>>
  BY DEF Reset
<1>2. /\ mem \in User /\ active \in Points /\ collected \in Int /\ incremental \in Seq(Write)
      /\ DOMAIN callbacks \subseteq Keyed /\ (\A f \in DOMAIN callbacks : callbacks[f] \in Int)
      /\ overtaken \subseteq Keyed /\ Ahead \in Database /\ Ahead.user \in User
      /\ Agrees(mem, overtaken, callbacks, Ahead.user) /\ MissionsAgree(active, Ahead.points)
      /\ Sound(db, incremental) /\ mem["battery"] <= mem["maxBattery"]
      /\ Ahead.user["battery"] = mem["battery"]
      /\ Ahead.user["maxBattery"] = mem["maxBattery"] /\ db' = db
  BY <1>1, Now
<1>3. field \in Fields /\ field \in Numbers /\ field \notin Keyed
      /\ field # "battery" /\ field # "maxBattery" /\ 0 \in Int
      /\ field # "stage" /\ field # "attempts"
  BY FieldNames DEF Keyed
<1>4. mem' = CopyWith(mem, field, 0)
  BY DEF CopyWith, Reset
<1>5. /\ mem' \in User
      /\ \A g \in Fields : mem'[g] = IF g = field THEN 0 ELSE mem[g]
  BY ONLY <1>2, <1>3, <1>4, CopySet
<1> DEFINE w == [kind |-> "reset", field |-> field]
<1>6. Queue(<<w>>)
  BY DEF Reset
<1>7. w \in Write /\ w.kind # "stats"
  BY DEF Write
<1>8. Applied(Ahead, w) = SetField(Ahead, field, 0)
  BY DEF Applied, CounterReset
<1> HIDE DEF w
<1>9. incremental' = incremental \o <<w>> /\ overtaken' = overtaken
  BY <1>6, <1>7, QueueOne
<1>10. /\ SetField(Ahead, field, 0).points = Ahead.points
       /\ SetField(Ahead, field, 0).gifts = Ahead.gifts
       /\ \A g \in Fields : SetField(Ahead, field, 0).user[g]
              = IF g = field THEN 0 ELSE Ahead.user[g]
  BY <1>2, <1>3, FieldSet
<1>11. Within(Applied(Ahead, w).user)
  BY <1>2, <1>3, <1>8, <1>10, FieldNames DEF Within
<1>12. incremental' \in Seq(Write) /\ Ahead' = Applied(Ahead, w) /\ Sound(db, incremental')
  BY <1>2, <1>7, <1>9, <1>11, OneQueued
<1>13. Agrees(mem', overtaken, callbacks, Ahead'.user)
  <2>0. PICK F : F = {field}
    OBVIOUS
  <2>1. F \cap Keyed = {} /\ "stage" \notin F /\ "attempts" \notin F
    BY <2>0, <1>3
  <2>2. \A f \in Fields \ F : mem'[f] = mem[f] /\ Ahead'.user[f] = Ahead.user[f]
    BY <2>0, <1>5, <1>8, <1>10, <1>12
  <2>3. \A f \in F : Ahead'.user[f] = mem'[f]
    BY <2>0, <1>3, <1>5, <1>8, <1>10, <1>12
  <2>4. SetAlike(mem, mem', Ahead.user, Ahead'.user, F)
    BY ONLY <2>1, <2>2, <2>3 DEF SetAlike
  <2>5. QED
    BY ONLY <1>2, <1>5, <2>4, AgreesSet
<1>14. QED
  BY <1>1, <1>2, <1>5, <1>8, <1>9, <1>10, <1>12, <1>13, PacketInv

\* Statistics queued, with a copy that differs in nothing else.
LEMMA StatsQueued ==
    ASSUME ProgressInv, Handle, NEW copy \in User, \A f \in Fields \ Stats : copy[f] = mem[f],
           NEW w, w = [kind |-> "stats", copy |-> Stored(copy)], incremental' = incremental \o <<w>>
    PROVE  /\ incremental' \in Seq(Write) /\ Sound(db, incremental')
           /\ Ahead'.points = Ahead.points /\ Ahead'.gifts = Ahead.gifts
           /\ Agrees(copy, DOMAIN callbacks, callbacks, Ahead'.user)
<1>1. /\ mem \in User /\ incremental \in Seq(Write)
      /\ DOMAIN callbacks \subseteq Keyed
      /\ overtaken \subseteq Keyed /\ Ahead \in Database /\ Ahead.user \in User
      /\ Agrees(mem, overtaken, callbacks, Ahead.user)
      /\ Sound(db, incremental) /\ mem["battery"] <= mem["maxBattery"]
      /\ Ahead.user["battery"] = mem["battery"]
      /\ Ahead.user["maxBattery"] = mem["maxBattery"] /\ db' = db
  BY Now
<1>2. PICK s : s = Stored(copy)
  OBVIOUS
<1>3. s \in User
  BY <1>2, StoredFacts
<1>4. w \in Write
  BY <1>2, <1>3 DEF Write
<1>5. Applied(Ahead, w) = StatsWritten(Ahead, s)
  BY <1>2 DEF Applied
<1>6. /\ StatsWritten(Ahead, s).points = Ahead.points /\ StatsWritten(Ahead, s).gifts = Ahead.gifts
      /\ \A g \in Fields : StatsWritten(Ahead, s).user[g] = IF g \in Stats THEN s[g] ELSE Ahead.user[g]
  BY <1>1, <1>3, StatsSet
<1>7. Within(Applied(Ahead, w).user)
  BY <1>1, <1>5, <1>6, FieldNames DEF Within
<1>8. incremental' \in Seq(Write) /\ Ahead' = Applied(Ahead, w) /\ Sound(db, incremental')
  BY <1>1, <1>4, <1>7, OneQueued
<1>9. Agrees(copy, DOMAIN callbacks, callbacks, Ahead'.user)
  <2>1. \A f \in Stats : Ahead'.user[f] = Stored(copy)[f]
    BY <1>2, <1>5, <1>6, <1>8, FieldNames
  <2>2. \A f \in Fields \ Stats :
           (copy[f] = mem[f] /\ Ahead'.user[f] = Ahead.user[f]) \/ Ahead'.user[f] = copy[f]
    BY <1>5, <1>6, <1>8
  <2>3. copy \in User
    OBVIOUS
  <2>4. QED
    BY ONLY <1>1, <2>1, <2>2, <2>3, AgreesStats
<1>10. QED
  BY <1>5, <1>6, <1>8, <1>9

LEMMA SingleWaveInv ==
    ASSUME ProgressInv, SingleWave
    PROVE  ProgressInv'
<1>1. Handle /\ UNCHANGED <<active, collected, callbacks>>
  BY DEF SingleWave
<1>2. /\ mem \in User /\ active \in Points /\ collected \in Int
      /\ DOMAIN callbacks \subseteq Keyed /\ (\A f \in DOMAIN callbacks : callbacks[f] \in Int)
      /\ MissionsAgree(active, Ahead.points)
  BY <1>1, Now
<1>3. PICK score \in 0..1, stage \in 0..TopStage :
        mem' = [mem EXCEPT !.score = Higher(@, score), !.stage = Higher(@, stage)]
  BY DEF SingleWave
<1>4. /\ mem' \in User
      /\ \A f \in Fields \ Stats : mem'[f] = mem[f]
  <2>1. mem["score"] \in Int /\ mem["stage"] \in Int
    BY <1>2, FieldNames, UserFields
  <2>2. PICK m, n : m = Higher(mem["score"], score) /\ n = Higher(mem["stage"], stage)
    OBVIOUS
  <2>3. m \in Int /\ n \in Int
    BY <2>1, <2>2, ProgressAssumption DEF Higher
  <2>4. PICK v : v = CopyWith(mem, "score", m)
    OBVIOUS
  <2>5. v \in User /\ \A g \in Fields : v[g] = IF g = "score" THEN m ELSE mem[g]
    BY <1>2, <2>3, <2>4, FieldNames, CopySet
  <2>6. mem' = CopyWith(v, "stage", n)
    BY <1>3, <2>2, <2>4 DEF CopyWith
  <2>7. mem' \in User /\ \A g \in Fields : mem'[g] = IF g = "stage" THEN n ELSE v[g]
    BY <2>3, <2>5, <2>6, FieldNames, CopySet
  <2>8. QED
    BY <2>5, <2>7, FieldNames
<1>5. \A f \in Fields \ Stats : mem'[f] = mem[f]
  BY <1>4
<1>6. PICK w : w = [kind |-> "stats", copy |-> Stored(mem')]
  OBVIOUS
<1>7. Queue(<<w>>) /\ w.kind = "stats"
  BY <1>6 DEF SingleWave
<1>8. incremental' = incremental \o <<w>> /\ overtaken' = DOMAIN callbacks
  BY <1>7, QueueOne
<1>9. /\ incremental' \in Seq(Write) /\ Sound(db, incremental')
      /\ Ahead'.points = Ahead.points /\ Ahead'.gifts = Ahead.gifts
      /\ Agrees(mem', DOMAIN callbacks, callbacks, Ahead'.user)
  BY <1>1, <1>4, <1>5, <1>6, <1>8, StatsQueued
<1>10. QED
  BY <1>1, <1>2, <1>4, <1>8, <1>9, PacketInv

\* Values set by their keys.
LEMMA KeyedSet ==
    ASSUME NEW values, NEW cb, DOMAIN values \subseteq Keyed, DOMAIN cb \subseteq Keyed,
           \A f \in DOMAIN values : values[f] \in Int, \A f \in DOMAIN cb : cb[f] \in Int
    PROVE  /\ DOMAIN Over(values, cb) \subseteq Keyed
           /\ \A f \in DOMAIN Over(values, cb) : Over(values, cb)[f] \in Int
<1>1. /\ DOMAIN Over(values, cb) = DOMAIN values \cup DOMAIN cb
      /\ \A x \in DOMAIN values \cup DOMAIN cb :
            Over(values, cb)[x] = IF x \in DOMAIN values THEN values[x] ELSE cb[x]
  BY DEF Over
<1>2. QED
  BY <1>1

LEMMA CompleteTutorialInv ==
    ASSUME ProgressInv, CompleteTutorial
    PROVE  ProgressInv'
<1>1. Handle /\ UNCHANGED <<active, collected>>
  BY DEF CompleteTutorial
<1>2. /\ mem \in User /\ active \in Points /\ collected \in Int /\ incremental \in Seq(Write)
      /\ DOMAIN callbacks \subseteq Keyed /\ (\A f \in DOMAIN callbacks : callbacks[f] \in Int)
      /\ MissionsAgree(active, Ahead.points)
  BY <1>1, Now
<1>3. PICK done : done = CopyWith(mem, "tutorial", TRUE)
  OBVIOUS
<1>4. /\ done \in User
      /\ \A g \in Fields : done[g] = IF g = "tutorial" THEN TRUE ELSE mem[g]
  <2>1. PICK t : t = TRUE
    OBVIOUS
  <2>2. t \in BOOLEAN /\ done = CopyWith(mem, "tutorial", t)
    BY <1>3, <2>1
  <2>3. /\ done \in User
        /\ \A g \in Fields : done[g] = IF g = "tutorial" THEN t ELSE mem[g]
    BY <1>2, <2>2, FieldNames, CopyFlag
  <2>4. QED
    BY <2>1, <2>3
<1>5. \A f \in Fields \ Stats : done[f] = mem[f]
  BY <1>4, FieldNames
<1>6. PICK w : w = [kind |-> "stats", copy |-> Stored(done)]
  OBVIOUS
<1>7. incremental' = Append(incremental, w)
  BY <1>3, <1>6 DEF CopyWith, CompleteTutorial
<1>8. incremental' = incremental \o <<w>>
  BY <1>2, <1>7
<1>9. /\ incremental' \in Seq(Write) /\ Sound(db, incremental')
      /\ Ahead'.points = Ahead.points /\ Ahead'.gifts = Ahead.gifts
      /\ Agrees(done, DOMAIN callbacks, callbacks, Ahead'.user)
  BY <1>1, <1>4, <1>5, <1>6, <1>8, StatsQueued
<1>10. PICK v : v = mem["mp"] + 1
  OBVIOUS
<1>11. v \in Int
  BY <1>2, <1>10, FieldNames, UserFields
<1>12. done["mp"] = mem["mp"]
  BY <1>4, FieldNames
<1>13. mem' = CopyWith(done, "mp", v)
  BY <1>3, <1>10, <1>12 DEF CopyWith, CompleteTutorial
<1>14. /\ mem' \in User
       /\ \A g \in Fields : mem'[g] = IF g = "mp" THEN v ELSE done[g]
  BY <1>4, <1>11, <1>13, FieldNames, CopySet
<1> DEFINE values == [mp |-> v]
<1>15. DOMAIN values = {"mp"} /\ values["mp"] = v
  OBVIOUS
<1>16. mem'.mp = v
  BY <1>14, FieldNames
<1>17. callbacks' = Over(values, callbacks) /\ overtaken' = DOMAIN callbacks \ {"mp"}
  BY <1>16 DEF CompleteTutorial
<1> HIDE DEF values
<1>18. Agrees(mem', DOMAIN callbacks \ DOMAIN values, Over(values, callbacks), Ahead'.user)
  <2>1. \A f \in Fields \ DOMAIN values : Stored(mem')[f] = Stored(done)[f]
    BY <1>4, <1>14, <1>15, StoredFacts, FieldNames
  <2>2. \A f \in DOMAIN values : values[f] = Stored(mem')[f]
    BY <1>14, <1>15, StoredFacts, FieldNames
  <2>3. DOMAIN values \subseteq Keyed
    BY <1>15, FieldNames
  <2>4. QED
    BY ONLY <1>9, <2>1, <2>2, <2>3, AgreesKeyed
<1>19. /\ DOMAIN callbacks' \subseteq Keyed
       /\ \A f \in DOMAIN callbacks' : callbacks'[f] \in Int
  <2>1. DOMAIN values \subseteq Keyed /\ \A f \in DOMAIN values : values[f] \in Int
    BY <1>11, <1>15, FieldNames
  <2>2. QED
    BY ONLY <1>2, <1>17, <2>1, KeyedSet
<1>20. QED
  BY <1>1, <1>2, <1>9, <1>14, <1>15, <1>17, <1>18, <1>19, PacketInv

LEMMA SetMicroPointsInv ==
    ASSUME ProgressInv, SetMicroPoints
    PROVE  ProgressInv'
<1>1. Handle /\ UNCHANGED <<active, collected, incremental>>
  BY DEF SetMicroPoints
<1>2. /\ mem \in User /\ active \in Points /\ collected \in Int /\ incremental \in Seq(Write)
      /\ DOMAIN callbacks \subseteq Keyed /\ (\A f \in DOMAIN callbacks : callbacks[f] \in Int)
      /\ overtaken \subseteq Keyed
      /\ Agrees(mem, overtaken, callbacks, Ahead.user)
      /\ MissionsAgree(active, Ahead.points) /\ Sound(db, incremental) /\ db' = db
  BY <1>1, Now
<1>3. PICK v \in Nat : mem' = [mem EXCEPT !.mp = v] /\ QueueKeyed([mp |-> v])
  BY DEF SetMicroPoints
<1>4. v \in Int /\ mem' = CopyWith(mem, "mp", v)
  BY <1>3 DEF CopyWith
<1>5. /\ mem' \in User
      /\ \A g \in Fields : mem'[g] = IF g = "mp" THEN v ELSE mem[g]
  BY <1>2, <1>4, FieldNames, CopySet
<1> DEFINE values == [mp |-> v]
<1>6. DOMAIN values = {"mp"} /\ values["mp"] = v
  OBVIOUS
<1>7. callbacks' = Over(values, callbacks) /\ overtaken' = overtaken \ DOMAIN values
  BY <1>3 DEF QueueKeyed
<1> HIDE DEF values
<1>8. Ahead' = Ahead
  BY <1>1, <1>2 DEF Ahead
<1>9. Agrees(mem', overtaken \ DOMAIN values, Over(values, callbacks), Ahead.user)
  <2>1. \A f \in Fields \ DOMAIN values : Stored(mem')[f] = Stored(mem)[f]
    BY <1>2, <1>5, <1>6, StoredFacts, FieldNames
  <2>2. \A f \in DOMAIN values : values[f] = Stored(mem')[f]
    BY <1>5, <1>6, StoredFacts, FieldNames
  <2>3. DOMAIN values \subseteq Keyed
    BY <1>6, FieldNames
  <2>4. QED
    BY ONLY <1>2, <2>1, <2>2, <2>3, AgreesKeyed
<1>10. /\ DOMAIN callbacks' \subseteq Keyed
       /\ \A f \in DOMAIN callbacks' : callbacks'[f] \in Int
  <2>1. DOMAIN values \subseteq Keyed /\ \A f \in DOMAIN values : values[f] \in Int
    BY <1>4, <1>6, FieldNames
  <2>2. QED
    BY ONLY <1>2, <1>7, <2>1, KeyedSet
<1>11. QED
  BY <1>1, <1>2, <1>5, <1>7, <1>8, <1>9, <1>10, PacketInv

LEMMA SetLevelInv ==
    ASSUME ProgressInv, SetLevel
    PROVE  ProgressInv'
<1>1. Handle /\ UNCHANGED <<active, collected, incremental>>
  BY DEF SetLevel
<1>2. /\ mem \in User /\ active \in Points /\ collected \in Int /\ incremental \in Seq(Write)
      /\ DOMAIN callbacks \subseteq Keyed /\ (\A f \in DOMAIN callbacks : callbacks[f] \in Int)
      /\ overtaken \subseteq Keyed
      /\ Agrees(mem, overtaken, callbacks, Ahead.user)
      /\ MissionsAgree(active, Ahead.points) /\ Sound(db, incremental) /\ db' = db
  BY <1>1, Now
<1>3. PICK level \in 0 .. TopLevel - 1 :
         /\ mem' = [mem EXCEPT !.level = level + 1, !.exp = Needed(level + 1)]
         /\ QueueKeyed([level |-> level, exp |-> Needed(level + 1)])
  BY DEF SetLevel
<1>4. level \in Int
  BY ProgressAssumption
<1>5. PICK k, x : k = level + 1 /\ x = Needed(level + 1)
  OBVIOUS
<1>6. k \in Int /\ x \in Int
  BY <1>4, <1>5 DEF Needed
<1>7. PICK half : half = CopyWith(mem, "level", k)
  OBVIOUS
<1>8. /\ half \in User
      /\ \A g \in Fields : half[g] = IF g = "level" THEN k ELSE mem[g]
  BY <1>2, <1>6, <1>7, FieldNames, CopySet
<1>9. mem' = CopyWith(half, "exp", x)
  BY <1>2, <1>3, <1>5, <1>7 DEF CopyWith
<1>10. /\ mem' \in User
       /\ \A g \in Fields : mem'[g] = IF g = "exp" THEN x ELSE half[g]
  BY <1>6, <1>8, <1>9, FieldNames, CopySet
<1> DEFINE values == [level |-> level, exp |-> x]
<1>11. DOMAIN values = {"level", "exp"} /\ values["level"] = level /\ values["exp"] = x
  OBVIOUS
<1>12. callbacks' = Over(values, callbacks) /\ overtaken' = overtaken \ DOMAIN values
  BY <1>3, <1>5 DEF QueueKeyed
<1> HIDE DEF values
<1>13. Ahead' = Ahead
  BY <1>1, <1>2 DEF Ahead
<1>14. Agrees(mem', overtaken \ DOMAIN values, Over(values, callbacks), Ahead.user)
  <2>1. \A f \in Fields \ DOMAIN values : Stored(mem')[f] = Stored(mem)[f]
    BY <1>2, <1>8, <1>10, <1>11, StoredFacts, FieldNames
  <2>2. Stored(mem')["level"] = mem'["level"] - 1 /\ Stored(mem')["exp"] = mem'["exp"]
    BY <1>10, StoredFacts, FieldNames
  <2>3. mem'["level"] = k /\ mem'["exp"] = x
    BY <1>8, <1>10, FieldNames
  <2>4. k - 1 = level
    BY <1>4, <1>5
  <2>5. \A f \in DOMAIN values : values[f] = Stored(mem')[f]
    BY <1>11, <2>2, <2>3, <2>4
  <2>6. DOMAIN values \subseteq Keyed
    BY <1>11, FieldNames
  <2>7. QED
    BY ONLY <1>2, <2>1, <2>5, <2>6, AgreesKeyed
<1>15. /\ DOMAIN callbacks' \subseteq Keyed
       /\ \A f \in DOMAIN callbacks' : callbacks'[f] \in Int
  <2>1. DOMAIN values \subseteq Keyed /\ \A f \in DOMAIN values : values[f] \in Int
    BY <1>4, <1>6, <1>11, FieldNames
  <2>2. QED
    BY ONLY <1>2, <1>12, <2>1, KeyedSet
<1>16. QED
  BY <1>1, <1>2, <1>10, <1>12, <1>13, <1>14, <1>15, PacketInv

LEMMA RepairInv ==
    ASSUME ProgressInv, Repair
    PROVE  ProgressInv'
<1>1. Handle /\ UNCHANGED <<active, collected>>
  BY DEF Repair
<1>2. /\ mem \in User /\ active \in Points /\ collected \in Int /\ incremental \in Seq(Write)
      /\ DOMAIN callbacks \subseteq Keyed /\ (\A f \in DOMAIN callbacks : callbacks[f] \in Int)
      /\ overtaken \subseteq Keyed /\ Ahead \in Database /\ Ahead.user \in User
      /\ Agrees(mem, overtaken, callbacks, Ahead.user)
      /\ MissionsAgree(active, Ahead.points) /\ Sound(db, incremental)
      /\ mem["battery"] <= mem["maxBattery"]
      /\ Ahead.user["battery"] = mem["battery"]
      /\ Ahead.user["maxBattery"] = mem["maxBattery"] /\ db' = db
  BY <1>1, Now
<1>3. PICK b, v : b = FALSE /\ v = mem["mp"] - 1
  OBVIOUS
<1>4. b \in BOOLEAN /\ v \in Int
  <2>1. b \in BOOLEAN
    BY ONLY <1>3
  <2>2. mem["mp"] \in Int
    BY <1>2, FieldNames, UserFields
  <2>3. v \in Int
    BY ONLY <1>3, <2>2
  <2>4. QED
    BY <2>1, <2>3
<1>5. PICK whole : whole = CopyWith(mem, "worn", b)
  OBVIOUS
<1>6. /\ whole \in User
      /\ \A g \in Fields : whole[g] = IF g = "worn" THEN b ELSE mem[g]
  BY <1>2, <1>4, <1>5, FieldNames, CopyFlag
<1>7. mem' = CopyWith(whole, "mp", v)
  BY <1>2, <1>3, <1>5 DEF CopyWith, Repair
<1>8. /\ mem' \in User
      /\ \A g \in Fields : mem'[g] = IF g = "mp" THEN v ELSE whole[g]
  BY <1>4, <1>6, <1>7, FieldNames, CopySet
<1> DEFINE w == [kind |-> "worn", to |-> b]
<1>9. incremental' = Append(incremental, w)
  BY <1>3 DEF Repair
<1>10. w \in Write
  BY <1>4 DEF Write
<1>11. Applied(Ahead, w) = SetField(Ahead, "worn", b)
  BY DEF Applied, WearWritten
<1> HIDE DEF w
<1>12. incremental' = incremental \o <<w>>
  BY <1>2, <1>9, <1>10
<1>13. /\ SetField(Ahead, "worn", b).points = Ahead.points
       /\ SetField(Ahead, "worn", b).gifts = Ahead.gifts
       /\ \A g \in Fields : SetField(Ahead, "worn", b).user[g]
              = IF g = "worn" THEN b ELSE Ahead.user[g]
  BY <1>2, <1>4, FieldNames, FlagSet
<1>14. Within(Applied(Ahead, w).user)
  BY <1>2, <1>11, <1>13, FieldNames DEF Within
<1>15. incremental' \in Seq(Write) /\ Ahead' = Applied(Ahead, w) /\ Sound(db, incremental')
  BY <1>2, <1>10, <1>12, <1>14, OneQueued
<1>16. Agrees(whole, overtaken, callbacks, Ahead'.user)
  <2>0. PICK F : F = {"worn"}
    OBVIOUS
  <2>1. F \cap Keyed = {} /\ "stage" \notin F /\ "attempts" \notin F
    BY <2>0, FieldNames
  <2>2. \A f \in Fields \ F : whole[f] = mem[f] /\ Ahead'.user[f] = Ahead.user[f]
    BY <2>0, <1>6, <1>11, <1>13, <1>15
  <2>3. \A f \in F : Ahead'.user[f] = whole[f]
    BY <2>0, <1>6, <1>11, <1>13, <1>15, FieldNames
  <2>4. SetAlike(mem, whole, Ahead.user, Ahead'.user, F)
    BY ONLY <2>1, <2>2, <2>3 DEF SetAlike
  <2>5. QED
    BY ONLY <1>2, <1>6, <2>4, AgreesSet
<1> DEFINE values == [mp |-> v]
<1>17. DOMAIN values = {"mp"} /\ values["mp"] = v
  OBVIOUS
<1>18. mem'.mp = v
  BY <1>8, FieldNames
<1>19. callbacks' = Over(values, callbacks) /\ overtaken' = overtaken \ DOMAIN values
  BY <1>18 DEF Repair, QueueKeyed
<1> HIDE DEF values
<1>20. Agrees(mem', overtaken \ DOMAIN values, Over(values, callbacks), Ahead'.user)
  <2>1. \A f \in Fields \ DOMAIN values : Stored(mem')[f] = Stored(whole)[f]
    BY <1>6, <1>8, <1>17, StoredFacts, FieldNames
  <2>2. \A f \in DOMAIN values : values[f] = Stored(mem')[f]
    BY <1>8, <1>17, StoredFacts, FieldNames
  <2>3. DOMAIN values \subseteq Keyed
    BY <1>17, FieldNames
  <2>4. QED
    BY ONLY <1>16, <2>1, <2>2, <2>3, AgreesKeyed
<1>21. /\ DOMAIN callbacks' \subseteq Keyed
       /\ \A f \in DOMAIN callbacks' : callbacks'[f] \in Int
  <2>1. DOMAIN values \subseteq Keyed /\ \A f \in DOMAIN values : values[f] \in Int
    BY <1>4, <1>17, FieldNames
  <2>2. QED
    BY ONLY <1>2, <1>19, <2>1, KeyedSet
<1>22. QED
  BY <1>1, <1>2, <1>8, <1>11, <1>13, <1>15, <1>19, <1>20, <1>21, PacketInv

LEMMA ClaimRewardInv ==
    ASSUME ProgressInv, ClaimReward
    PROVE  ProgressInv'
<1>1. Handle /\ UNCHANGED <<mem, active, collected, callbacks>>
  BY DEF ClaimReward
<1>2. /\ mem \in User /\ active \in Points /\ collected \in Int /\ incremental \in Seq(Write)
      /\ DOMAIN callbacks \subseteq Keyed /\ (\A f \in DOMAIN callbacks : callbacks[f] \in Int)
      /\ overtaken \subseteq Keyed /\ Ahead \in Database
      /\ Agrees(mem, overtaken, callbacks, Ahead.user)
      /\ MissionsAgree(active, Ahead.points) /\ Sound(db, incremental)
      /\ mem["battery"] <= mem["maxBattery"]
      /\ Ahead.user["battery"] = mem["battery"]
      /\ Ahead.user["maxBattery"] = mem["maxBattery"] /\ db' = db
  BY <1>1, Now
<1>3. PICK m \in DOMAIN active :
         active[m] = MissionTotal - 1 /\ Queue(<<[kind |-> "over", mission |-> m]>>)
  BY DEF ClaimReward
<1>4. DOMAIN active \subseteq Mission
  BY <1>2, PointsFacts
<1> DEFINE w == [kind |-> "over", mission |-> m]
<1>5. w \in Write /\ w.kind # "stats"
  BY <1>4 DEF Write
<1>6. Applied(Ahead, w) = MissionOver(Ahead, m)
  BY DEF Applied
<1>7. Queue(<<w>>)
  BY <1>3
<1> HIDE DEF w
<1>8. incremental' = incremental \o <<w>> /\ overtaken' = overtaken
  BY <1>5, <1>7, QueueOne
<1>9. /\ MissionOver(Ahead, m).user = Ahead.user /\ MissionOver(Ahead, m).gifts = Ahead.gifts
      /\ \A n \in Mission : MissionOver(Ahead, m).points[n]
            = IF n = m THEN MissionTotal ELSE Ahead.points[n]
  BY <1>2, <1>4, OverSet
<1>10. Within(Applied(Ahead, w).user)
  BY <1>2, <1>6, <1>9 DEF Within
<1>11. incremental' \in Seq(Write) /\ Ahead' = Applied(Ahead, w) /\ Sound(db, incremental')
  BY <1>2, <1>5, <1>8, <1>10, OneQueued
<1>12. MissionsAgree(active, Ahead'.points)
  BY <1>2, <1>3, <1>4, <1>6, <1>9, <1>11 DEF MissionsAgree, MissionAgrees
<1>13. QED
  BY <1>1, <1>2, <1>6, <1>8, <1>9, <1>11, <1>12, PacketInv

\* The copy after a match.
LEMMA AfterMatchFacts ==
    ASSUME mem \in User, collected \in Int, NEW o \in Outcome
    PROVE  /\ AfterMatch(o) \in User
           /\ \A f \in Fields \ Stats :
                 \/ f = "battery" /\ AfterMatch(o)[f] = Charged(mem, collected)
                 \/ f = "worn" /\ AfterMatch(o)[f] = IF o.wear THEN TRUE ELSE mem[f]
                 \/ f \in {"maxBattery", "attempts"} /\ AfterMatch(o)[f] = mem[f]
<1>1. o.gain \in Int /\ o.kills \in Int /\ o.won \in Int /\ o.clan \in Int
  BY ProgressAssumption
<1>2. \A f \in Numbers : mem[f] \in Int
  BY UserFields
<1>3. PICK e, k, w, c : /\ e = mem["exp"] + o.gain /\ k = mem["kills"] + o.kills
                        /\ w = mem["wins"] + o.won /\ c = mem["contribution"] + o.clan
  OBVIOUS
<1>4. e \in Int /\ k \in Int /\ w \in Int /\ c \in Int
  <2>1. mem["exp"] \in Int /\ mem["kills"] \in Int /\ mem["wins"] \in Int
        /\ mem["contribution"] \in Int
    BY <1>2 DEF Numbers
  <2>2. QED
    BY <1>1, <1>3, <2>1
<1>5. PICK l : l = LevelAfter(mem["level"], e)
  OBVIOUS
<1>6. mem["level"] \in Int /\ mem["mp"] \in Int
      /\ mem["battery"] \in Int /\ mem["maxBattery"] \in Int
  BY <1>2 DEF Numbers
<1>7. l \in Int
  BY <1>5, <1>6 DEF LevelAfter
<1>8. PICK m, b : m = mem["mp"] + o.gain + (l - mem["level"]) /\ b = Charged(mem, collected)
  OBVIOUS
<1>9. m \in Int /\ b \in Int
  BY <1>1, <1>6, <1>7, <1>8 DEF Charged
<1>10. "exp" \in Fields /\ "level" \in Fields /\ "mp" \in Fields /\ "kills" \in Fields
       /\ "wins" \in Fields /\ "contribution" \in Fields /\ "battery" \in Fields
  BY DEF Fields, Numbers
<1>11. PICK x1 : x1 = CopyWith(mem, "exp", e)
  OBVIOUS
<1>12. x1 \in User /\ \A g \in Fields : x1[g] = IF g = "exp" THEN e ELSE mem[g]
  BY <1>4, <1>10, <1>11, CopySet
<1>13. PICK x2 : x2 = CopyWith(x1, "level", l)
  OBVIOUS
<1>14. x2 \in User /\ \A g \in Fields : x2[g] = IF g = "level" THEN l ELSE x1[g]
  BY <1>7, <1>10, <1>12, <1>13, CopySet
<1>15. PICK x3 : x3 = CopyWith(x2, "mp", m)
  OBVIOUS
<1>16. x3 \in User /\ \A g \in Fields : x3[g] = IF g = "mp" THEN m ELSE x2[g]
  BY <1>9, <1>10, <1>14, <1>15, CopySet
<1>17. PICK x4 : x4 = CopyWith(x3, "kills", k)
  OBVIOUS
<1>18. x4 \in User /\ \A g \in Fields : x4[g] = IF g = "kills" THEN k ELSE x3[g]
  BY <1>4, <1>10, <1>16, <1>17, CopySet
<1>19. PICK x5 : x5 = CopyWith(x4, "wins", w)
  OBVIOUS
<1>20. x5 \in User /\ \A g \in Fields : x5[g] = IF g = "wins" THEN w ELSE x4[g]
  BY <1>4, <1>10, <1>18, <1>19, CopySet
<1>21. PICK x6 : x6 = CopyWith(x5, "contribution", c)
  OBVIOUS
<1>22. x6 \in User /\ \A g \in Fields : x6[g] = IF g = "contribution" THEN c ELSE x5[g]
  BY <1>4, <1>10, <1>20, <1>21, CopySet
<1>23. PICK x7 : x7 = CopyWith(x6, "battery", b)
  OBVIOUS
<1>24. x7 \in User /\ \A g \in Fields : x7[g] = IF g = "battery" THEN b ELSE x6[g]
  BY <1>9, <1>10, <1>22, <1>23, CopySet
<1>25. \A f \in Fields \ Stats : x7[f] = IF f = "battery" THEN b ELSE mem[f]
  <2>1. \A f \in Fields \ Stats : f # "exp" /\ f # "level" /\ f # "mp" /\ f # "kills" /\ f # "wins"
                                  /\ f # "contribution"
    BY DEF Stats
  <2>2. QED
    BY <1>12, <1>14, <1>16, <1>18, <1>20, <1>22, <1>24, <2>1
<1>26. [mem EXCEPT !.exp = @ + o.gain, !.level = l,
                   !.mp = @ + o.gain + (l - mem.level),
                   !.kills = @ + o.kills, !.wins = @ + o.won,
                   !.contribution = @ + o.clan,
                   !.battery = Charged(mem, collected)] = x7
  BY <1>3, <1>8, <1>11, <1>13, <1>15, <1>17, <1>19, <1>21, <1>23, mem \in User DEF CopyWith
<1>27. AfterMatch(o) = IF o.wear THEN Worn(x7) ELSE x7
  BY <1>3, <1>5, <1>26 DEF AfterMatch
<1>28. PICK t : t = TRUE
  OBVIOUS
<1>29. t \in BOOLEAN /\ Worn(x7) = CopyWith(x7, "worn", t)
  BY <1>28 DEF Worn, CopyWith
<1>30. /\ Worn(x7) \in User
       /\ \A g \in Fields : Worn(x7)[g] = IF g = "worn" THEN t ELSE x7[g]
  BY <1>24, <1>29, FieldNames, CopyFlag
<1>31. \A f \in Fields \ Stats : f \in {"battery", "worn", "maxBattery", "attempts"}
  BY DEF Fields, Numbers, Stats
<1>32. QED
  BY <1>8, <1>24, <1>25, <1>27, <1>28, <1>30, <1>31

\* One write more or none.
QueuedTo(q, r, w, e) ==
    \/ r = q \o <<w>> /\ w \in Write /\ e = Applied(Made(db, q), w) /\ Within(e.user)
    \/ r = q /\ e = Made(db, q)

LEMMA QueuedPerhaps ==
    ASSUME NEW q \in Seq(Write), Sound(db, q), NEW w, NEW e, NEW r, QueuedTo(q, r, w, e)
    PROVE  r \in Seq(Write) /\ Made(db, r) = e /\ Sound(db, r)
<1>1. CASE r = q \o <<w>> /\ w \in Write /\ e = Applied(Made(db, q), w) /\ Within(e.user)
  BY <1>1, QueuedLast
<1>2. CASE r = q /\ e = Made(db, q)
  BY <1>2
<1>3. QED
  BY <1>1, <1>2 DEF QueuedTo

LEMMA ConcatFacts ==
    ASSUME NEW S, NEW p \in Seq(S), NEW q \in Seq(S)
    PROVE  /\ p \o q \in Seq(S) /\ Len(p \o q) = Len(p) + Len(q) /\ Len(p) \in Nat /\ Len(q) \in Nat
           /\ \A i \in 1 .. Len(p) : (p \o q)[i] = p[i]
           /\ \A i \in 1 .. Len(q) : (p \o q)[Len(p) + i] = q[i]
  OBVIOUS

Associates(p, q, r) == p \o (q \o r) = (p \o q) \o r

LEMMA ConcatAssociates ==
    ASSUME NEW S, NEW p \in Seq(S), NEW q \in Seq(S), NEW r \in Seq(S)
    PROVE  Associates(p, q, r)
  BY SMTT(30) DEF Associates

Regroups(q, A, x, y, P, W) ==
    q \o (((A \o (x \o y)) \o P) \o W) = ((((q \o A) \o x) \o y) \o P) \o W

LEMMA Regrouped ==
    ASSUME NEW S, NEW q \in Seq(S), NEW A \in Seq(S), NEW x \in Seq(S), NEW y \in Seq(S),
           NEW P \in Seq(S), NEW W \in Seq(S)
    PROVE  Regroups(q, A, x, y, P, W)
<1>1. PICK xy, a, ap : xy = x \o y /\ a = A \o xy /\ ap = a \o P
  OBVIOUS
<1>2. xy \in Seq(S)
  BY ONLY <1>1, x \in Seq(S), y \in Seq(S), ConcatFacts
<1>3. a \in Seq(S)
  BY ONLY <1>1, <1>2, A \in Seq(S), ConcatFacts
<1>4. ap \in Seq(S)
  BY ONLY <1>1, <1>3, P \in Seq(S), ConcatFacts
<1>5. Associates(q, ap, W)
  BY ONLY <1>4, q \in Seq(S), W \in Seq(S), ConcatAssociates
<1>6. Associates(q, a, P)
  BY ONLY <1>3, q \in Seq(S), P \in Seq(S), ConcatAssociates
<1>7. Associates(q, A, xy)
  BY ONLY <1>2, q \in Seq(S), A \in Seq(S), ConcatAssociates
<1>8. PICK qa : qa = q \o A
  OBVIOUS
<1>9. qa \in Seq(S)
  BY ONLY <1>8, q \in Seq(S), A \in Seq(S), ConcatFacts
<1>10. Associates(qa, x, y)
  BY ONLY <1>9, x \in Seq(S), y \in Seq(S), ConcatAssociates
<1>11. QED
  BY ONLY <1>1, <1>5, <1>6, <1>7, <1>8, <1>10 DEF Regroups, Associates

\* The writes of a match, one after the other.
MatchRecords(o, copy, points, wa, ws, wb, wp, ww) ==
    /\ wa = [kind |-> "clan", more |-> o.clan] /\ wa \in Write
    /\ ws = [kind |-> "stats", copy |-> Stored(copy)] /\ ws \in Write
    /\ wb = [kind |-> "battery", to |-> copy.battery] /\ wb \in Write
    /\ wp = [kind |-> "points", all |-> points] /\ wp \in Write
    /\ ww = [kind |-> "worn", to |-> TRUE] /\ ww \in Write

MatchQueued(o, points, wa, ws, wb, wp, ww, q, r) ==
    r = ((((q \o (IF o.clan > 0 THEN <<wa>> ELSE <<>>)) \o <<ws>>) \o <<wb>>)
            \o (IF points # active THEN <<wp>> ELSE <<>>))
            \o (IF o.wear THEN <<ww>> ELSE <<>>)

LEMMA MatchWritesFacts ==
    ASSUME incremental \in Seq(Write), NEW o, NEW copy, NEW points,
           NEW wa, NEW ws, NEW wb, NEW wp, NEW ww,
           MatchRecords(o, copy, points, wa, ws, wb, wp, ww),
           Queue(MatchWrites(o, copy, points))
    PROVE  /\ overtaken' = DOMAIN callbacks
           /\ MatchQueued(o, points, wa, ws, wb, wp, ww, incremental, incremental')
<1> USE DEF MatchRecords
<1>1. PICK A, B, P, W : /\ A = IF o.clan > 0 THEN <<wa>> ELSE <<>>
                        /\ B = <<ws, wb>>
                        /\ P = IF points # active THEN <<wp>> ELSE <<>>
                        /\ W = IF o.wear THEN <<ww>> ELSE <<>>
  OBVIOUS
<1>2. A \in Seq(Write) /\ B \in Seq(Write) /\ P \in Seq(Write) /\ W \in Seq(Write)
  <2>1. A \in Seq(Write)
    BY <1>1
  <2>2. B \in Seq(Write)
    BY <1>1
  <2>3. P \in Seq(Write)
    BY <1>1
  <2>4. W \in Seq(Write)
    BY <1>1
  <2>5. QED
    BY <2>1, <2>2, <2>3, <2>4
<1>3. MatchWrites(o, copy, points) = ((A \o B) \o P) \o W
  BY <1>1 DEF MatchWrites
<1>4. PICK all : all = ((A \o B) \o P) \o W
  OBVIOUS
<1>5. incremental' = incremental \o all
  BY <1>3, <1>4 DEF Queue
<1>6. overtaken' = IF \E i \in DOMAIN all : all[i].kind = "stats" THEN DOMAIN callbacks ELSE overtaken
  BY <1>3, <1>4 DEF Queue
<1>7. \E i \in DOMAIN all : all[i].kind = "stats"
  <2>1. Len(A) \in Nat /\ Len(B) = 2 /\ B[1] = ws /\ Len(P) \in Nat /\ Len(W) \in Nat
    BY <1>1, <1>2
  <2>2. PICK c : c = A \o B
    OBVIOUS
  <2>3. c \in Seq(Write) /\ Len(c) = Len(A) + 2 /\ c[Len(A) + 1] = B[1]
    <3>1. /\ c \in Seq(Write) /\ Len(c) = Len(A) + Len(B)
          /\ \A i \in 1 .. Len(B) : c[Len(A) + i] = B[i]
      BY ONLY <1>2, <2>2, ConcatFacts
    <3>2. 1 \in 1 .. Len(B)
      BY ONLY <2>1
    <3>3. QED
      BY ONLY <2>1, <3>1, <3>2
  <2>4. PICK c2 : c2 = c \o P
    OBVIOUS
  <2>5. c2 \in Seq(Write) /\ Len(c2) = Len(c) + Len(P) /\ c2[Len(A) + 1] = c[Len(A) + 1]
    <3>1. /\ c2 \in Seq(Write) /\ Len(c2) = Len(c) + Len(P)
          /\ \A i \in 1 .. Len(c) : c2[i] = c[i]
      <4>1. c \in Seq(Write) /\ P \in Seq(Write)
        BY ONLY <1>2, <2>3
      <4>2. QED
        BY ONLY <2>4, <4>1, ConcatFacts
    <3>2. Len(A) + 1 \in 1 .. Len(c)
      BY ONLY <2>1, <2>3
    <3>3. QED
      BY ONLY <3>1, <3>2
  <2>6. all = c2 \o W
    BY <1>4, <2>2, <2>4
  <2>7. Len(A) + 1 \in DOMAIN all /\ all[Len(A) + 1] = c2[Len(A) + 1]
    BY <1>2, <2>1, <2>3, <2>5, <2>6
  <2>8. all[Len(A) + 1] = ws
    BY <2>1, <2>3, <2>5, <2>7
  <2>9. QED
    BY <2>7, <2>8
<1>8. incremental' = ((((incremental \o A) \o <<ws>>) \o <<wb>>) \o P) \o W
  <2>1. PICK q, x, y : q = incremental /\ x = <<ws>> /\ y = <<wb>>
    OBVIOUS
  <2>2. q \in Seq(Write) /\ x \in Seq(Write) /\ y \in Seq(Write) /\ B = x \o y
    BY <1>1, <2>1
  <2>3. q \o (((A \o (x \o y)) \o P) \o W) = ((((q \o A) \o x) \o y) \o P) \o W
    <3>1. A \in Seq(Write) /\ x \in Seq(Write) /\ y \in Seq(Write)
      BY ONLY <1>2, <2>2
    <3>2. P \in Seq(Write) /\ W \in Seq(Write) /\ q \in Seq(Write)
      BY ONLY <1>2, <2>2
    <3>3. Regroups(q, A, x, y, P, W)
      BY ONLY <3>1, <3>2, Regrouped
    <3>4. QED
      BY ONLY <3>3 DEF Regroups
  <2>4. incremental' = q \o (((A \o (x \o y)) \o P) \o W)
    BY ONLY <1>4, <1>5, <2>1, <2>2
  <2>5. QED
    BY ONLY <2>1, <2>3, <2>4
<1>9. MatchQueued(o, points, wa, ws, wb, wp, ww, incremental, incremental')
  BY <1>1, <1>8 DEF MatchQueued
<1>10. QED
  BY <1>6, <1>7, <1>9

\* The battery kept aside is added, and no more than the battery holds.
LEMMA ChargedWithin ==
    ASSUME NEW copy \in User, NEW more, more \in Int
    PROVE  /\ Charged(copy, more) \in Int
           /\ Charged(copy, more) <= copy["maxBattery"]
<1>1. copy["battery"] \in Int /\ copy["maxBattery"] \in Int
  BY FieldNames, UserFields
<1>2. QED
  BY <1>1 DEF Charged

\* A mission gains a point or none.
LEMMA WithPointFacts ==
    ASSUME NEW act \in Points, NEW points,
           points \in {act} \cup {WithPoint(act, m) : m \in DOMAIN act}
    PROVE  points \in Points /\ DOMAIN points = DOMAIN act
<1>1. DOMAIN act \subseteq Mission /\ act \in [DOMAIN act -> Int]
  BY PointsFacts
<1>2. CASE points = act
  BY <1>2
<1>3. ASSUME NEW m \in DOMAIN act, points = WithPoint(act, m)
      PROVE  points \in Points /\ DOMAIN points = DOMAIN act
  <2>1. act[m] \in Int
    BY <1>1
  <2>2. act[m] + 1 \in Int
    BY <2>1
  <2>3. points \in [DOMAIN act -> Int]
    BY <1>1, <1>3, <2>2 DEF WithPoint
  <2>4. DOMAIN points = DOMAIN act
    BY <2>3
  <2>5. QED
    BY <1>1, <2>3, <2>4, PointsFacts
<1>4. QED
  BY <1>2, <1>3

LEMMA MatchEndInv ==
    ASSUME ProgressInv, MatchEnd
    PROVE  ProgressInv'
<1>1. Handle /\ UNCHANGED callbacks
  BY DEF MatchEnd
<1>2. /\ mem \in User /\ active \in Points /\ collected \in Int /\ incremental \in Seq(Write)
      /\ DOMAIN callbacks \subseteq Keyed /\ (\A f \in DOMAIN callbacks : callbacks[f] \in Int)
      /\ overtaken \subseteq Keyed /\ Ahead \in Database /\ Ahead.user \in User
      /\ Agrees(mem, overtaken, callbacks, Ahead.user)
      /\ MissionsAgree(active, Ahead.points) /\ Sound(db, incremental)
      /\ mem["battery"] <= mem["maxBattery"]
      /\ Ahead.user["battery"] = mem["battery"]
      /\ Ahead.user["maxBattery"] = mem["maxBattery"] /\ db' = db
  BY <1>1, Now
<1>3. PICK o \in Outcome, points \in {active} \cup {WithPoint(active, m) : m \in DOMAIN active} :
         /\ mem' = AfterMatch(o) /\ active' = points /\ collected' = 0
         /\ Queue(MatchWrites(o, mem', points))
  BY DEF MatchEnd
<1>4. points \in Points /\ DOMAIN points = DOMAIN active /\ DOMAIN points \subseteq Mission
  BY <1>2, WithPointFacts, PointsFacts
<1>5. /\ mem' \in User
      /\ \A f \in Fields \ Stats :
            \/ f = "battery" /\ mem'[f] = Charged(mem, collected)
            \/ f = "worn" /\ mem'[f] = IF o.wear THEN TRUE ELSE mem[f]
            \/ f \in {"maxBattery", "attempts"} /\ mem'[f] = mem[f]
  BY <1>2, <1>3, AfterMatchFacts
<1>6. PICK copy, s, b, t : /\ copy = mem' /\ s = Stored(copy) /\ b = copy["battery"] /\ t = TRUE
  OBVIOUS
<1>7. /\ copy \in User /\ s \in User /\ b \in Int /\ b <= mem["maxBattery"] /\ t \in BOOLEAN
      /\ \A f \in Fields \ Stats :
            \/ f = "battery" /\ copy[f] = b
            \/ f = "worn" /\ copy[f] = IF o.wear THEN t ELSE mem[f]
            \/ f \in {"maxBattery", "attempts"} /\ copy[f] = mem[f]
  <2>1. copy \in User /\ s \in User
    BY <1>5, <1>6, StoredFacts
  <2>2. "battery" \in Fields \ Stats /\ "battery" # "worn" /\ "battery" # "maxBattery"
    BY FieldNames
  <2>3. b = Charged(mem, collected)
    BY <1>5, <1>6, <2>2
  <2>4. b \in Int /\ b <= mem["maxBattery"]
    BY <1>2, <2>3, ChargedWithin
  <2>5. \A f \in Fields \ Stats :
            \/ f = "battery" /\ copy[f] = b
            \/ f = "worn" /\ copy[f] = IF o.wear THEN t ELSE mem[f]
            \/ f \in {"maxBattery", "attempts"} /\ copy[f] = mem[f]
    BY <1>5, <1>6
  <2>6. QED
    BY <1>6, <2>1, <2>4, <2>5
<1>8. o.clan \in Int
  BY ProgressAssumption
<1>9. PICK wa, ws, wb, wp, ww :
         /\ wa = [kind |-> "clan", more |-> o.clan] /\ ws = [kind |-> "stats", copy |-> s]
         /\ wb = [kind |-> "battery", to |-> b] /\ wp = [kind |-> "points", all |-> points]
         /\ ww = [kind |-> "worn", to |-> t]
  OBVIOUS
<1>10. wa \in Write /\ ws \in Write /\ wb \in Write /\ wp \in Write /\ ww \in Write
  BY <1>4, <1>7, <1>8, <1>9 DEF Write
<1>11. /\ overtaken' = DOMAIN callbacks
       /\ MatchQueued(o, points, wa, ws, wb, wp, ww, incremental, incremental')
  <2>1. incremental \in Seq(Write) /\ Queue(MatchWrites(o, copy, points))
    BY <1>2, <1>3, <1>6
  <2>2. MatchRecords(o, copy, points, wa, ws, wb, wp, ww)
    BY <1>6, <1>9, <1>10 DEF MatchRecords
  <2>3. QED
    BY ONLY <2>1, <2>2, MatchWritesFacts
<1>12. /\ \A d : Applied(d, wa) = ContributionAdded(d, o.clan)
       /\ \A d : Applied(d, ws) = StatsWritten(d, s)
       /\ \A d : Applied(d, wb) = SetField(d, "battery", b)
       /\ \A d : Applied(d, wp) = PointsSaved(d, points)
       /\ \A d : Applied(d, ww) = SetField(d, "worn", t)
  BY <1>9 DEF Applied, BatteryWritten, WearWritten
<1>13. Within(Ahead.user) /\ Made(db, incremental) = Ahead
  BY <1>2 DEF Within, Ahead
\* The contribution to the clan.
<1>14. PICK q1, e1 :
         /\ q1 = incremental \o (IF o.clan > 0 THEN <<wa>> ELSE <<>>)
         /\ e1 = IF o.clan > 0 THEN ContributionAdded(Ahead, o.clan) ELSE Ahead
  OBVIOUS
<1>15. e1 \in Database /\ e1.user = Ahead.user /\ e1.points = Ahead.points /\ e1.gifts = Ahead.gifts
  BY <1>2, <1>8, <1>14, ClanFacts
<1>16. q1 \in Seq(Write) /\ Made(db, q1) = e1 /\ Sound(db, q1)
  <2>1. CASE o.clan > 0
    <3>1. q1 = incremental \o <<wa>> /\ e1 = Applied(Ahead, wa)
      BY <1>12, <1>14, <2>1
    <3>2. QueuedTo(incremental, q1, wa, e1)
      BY <1>10, <1>13, <1>15, <3>1 DEF QueuedTo
    <3>3. QED
      BY <1>2, <3>2, QueuedPerhaps
  <2>2. CASE ~(o.clan > 0)
    <3>1. q1 = incremental /\ e1 = Ahead
      BY <1>2, <1>14, <2>2
    <3>2. QED
      BY <1>2, <1>13, <3>1
  <2>3. QED
    BY <2>1, <2>2
\* The statistics.
<1>17. PICK q2, e2 : q2 = q1 \o <<ws>> /\ e2 = StatsWritten(e1, s)
  OBVIOUS
<1>18. /\ e2 \in Database /\ e2.points = Ahead.points /\ e2.gifts = Ahead.gifts
       /\ \A g \in Fields : e2.user[g] = IF g \in Stats THEN s[g] ELSE Ahead.user[g]
  BY <1>7, <1>15, <1>17, StatsSet
<1>19. Within(e2.user)
  BY <1>2, <1>18, FieldNames DEF Within
<1>20. q2 \in Seq(Write) /\ Made(db, q2) = e2 /\ Sound(db, q2)
  <2>1. QueuedTo(q1, q2, ws, e2)
    BY <1>10, <1>12, <1>16, <1>17, <1>19 DEF QueuedTo
  <2>2. QED
    BY <1>16, <2>1, QueuedPerhaps
\* The battery.
<1>21. PICK q3, e3 : q3 = q2 \o <<wb>> /\ e3 = SetField(e2, "battery", b)
  OBVIOUS
<1>22. /\ e3 \in Database /\ e3.points = Ahead.points /\ e3.gifts = Ahead.gifts
       /\ \A g \in Fields : e3.user[g] = IF g = "battery" THEN b ELSE e2.user[g]
  <2>1. e2 \in Database /\ "battery" \in Fields /\ b \in Int
    BY <1>7, <1>18, FieldNames
  <2>2. /\ e3 \in Database /\ e3.points = e2.points /\ e3.gifts = e2.gifts
        /\ \A g \in Fields : e3.user[g] = IF g = "battery" THEN b ELSE e2.user[g]
    BY ONLY <1>21, <2>1, FieldSet
  <2>3. QED
    BY ONLY <1>18, <2>2
<1>23. Within(e3.user)
  BY <1>2, <1>7, <1>18, <1>22, FieldNames DEF Within
<1>24. q3 \in Seq(Write) /\ Made(db, q3) = e3 /\ Sound(db, q3)
  <2>1. QueuedTo(q2, q3, wb, e3)
    BY <1>10, <1>12, <1>20, <1>21, <1>23 DEF QueuedTo
  <2>2. QED
    BY <1>20, <2>1, QueuedPerhaps
\* The missions.
<1>25. PICK q4, e4 :
         /\ q4 = q3 \o (IF points # active THEN <<wp>> ELSE <<>>)
         /\ e4 = IF points # active THEN PointsSaved(e3, points) ELSE e3
  OBVIOUS
<1>26. /\ e4 \in Database /\ e4.user = e3.user /\ e4.gifts = Ahead.gifts
       /\ MissionsAgree(points, e4.points)
  <2>1. CASE points # active
    <3>1. e4 = PointsSaved(e3, points)
      BY <1>25, <2>1
    <3>2. /\ e4 \in Database /\ e4.user = e3.user /\ e4.gifts = e3.gifts
          /\ \A m \in Mission : e4.points[m] = IF m \in DOMAIN points THEN points[m] ELSE e3.points[m]
      BY <1>4, <1>22, <3>1, PointsSet
    <3>3. \A m \in DOMAIN points : e4.points[m] = points[m]
      BY <1>4, <3>2
    <3>4. QED
      BY <1>22, <3>2, <3>3 DEF MissionsAgree, MissionAgrees
  <2>2. CASE points = active
    BY <1>2, <1>22, <1>25, <2>2
  <2>3. QED
    BY <2>1, <2>2
<1>27. q4 \in Seq(Write) /\ Made(db, q4) = e4 /\ Sound(db, q4)
  <2>1. CASE points # active
    <3>1. q4 = q3 \o <<wp>> /\ e4 = Applied(e3, wp)
      BY <1>12, <1>25, <2>1
    <3>2. QueuedTo(q3, q4, wp, e4)
      BY <1>10, <1>23, <1>24, <1>26, <3>1 DEF QueuedTo
    <3>3. QED
      BY <1>24, <3>2, QueuedPerhaps
  <2>2. CASE points = active
    <3>1. q4 = q3 /\ e4 = e3
      BY <1>24, <1>25, <2>2
    <3>2. QED
      BY <1>24, <3>1
  <2>3. QED
    BY <2>1, <2>2
\* The wear.
<1>28. PICK q5, e5 :
         /\ q5 = q4 \o (IF o.wear THEN <<ww>> ELSE <<>>)
         /\ e5 = IF o.wear THEN SetField(e4, "worn", t) ELSE e4
  OBVIOUS
<1>29. /\ e5.points = e4.points /\ e5.gifts = Ahead.gifts
       /\ \A g \in Fields : e5.user[g] = IF g = "worn" /\ o.wear THEN t ELSE e3.user[g]
  <2>1. CASE o.wear
    <3>1. e5 = SetField(e4, "worn", t)
      BY <1>28, <2>1
    <3>2. /\ e5.points = e4.points /\ e5.gifts = e4.gifts
          /\ \A g \in Fields : e5.user[g] = IF g = "worn" THEN t ELSE e4.user[g]
      BY <1>7, <1>26, <3>1, FieldNames, FlagSet
    <3>3. QED
      BY <1>26, <2>1, <3>2
  <2>2. CASE ~o.wear
    BY <1>26, <1>28, <2>2
  <2>3. QED
    BY <2>1, <2>2
<1>30. Within(e5.user)
  BY <1>23, <1>29, FieldNames DEF Within
<1>31. q5 \in Seq(Write) /\ Made(db, q5) = e5 /\ Sound(db, q5)
  <2>1. CASE o.wear
    <3>1. q5 = q4 \o <<ww>> /\ e5 = Applied(e4, ww)
      BY <1>12, <1>28, <2>1
    <3>2. QueuedTo(q4, q5, ww, e5)
      BY <1>10, <1>27, <1>30, <3>1 DEF QueuedTo
    <3>3. QED
      BY <1>27, <3>2, QueuedPerhaps
  <2>2. CASE ~o.wear
    <3>1. q5 = q4 /\ e5 = e4
      BY <1>27, <1>28, <2>2
    <3>2. QED
      BY <1>27, <3>1
  <2>3. QED
    BY <2>1, <2>2
<1>32. incremental' = q5
  BY ONLY <1>11, <1>14, <1>17, <1>21, <1>25, <1>28 DEF MatchQueued
<1>33. Ahead' = e5
  BY <1>2, <1>31, <1>32 DEF Ahead
<1>34. Agrees(copy, DOMAIN callbacks, callbacks, e5.user)
  <2>1. \A f \in Stats : e5.user[f] = Stored(copy)[f]
    <3>1. \A f \in Stats : f \in Fields /\ f # "battery" /\ f # "worn"
      BY FieldNames
    <3>2. \A f \in Stats : e5.user[f] = s[f]
      BY <1>18, <1>22, <1>29, <3>1
    <3>3. QED
      BY <1>6, <3>2
  <2>2. \A f \in Fields \ Stats :
           (copy[f] = mem[f] /\ e5.user[f] = Ahead.user[f]) \/ e5.user[f] = copy[f]
    <3>1. SUFFICES ASSUME NEW f \in Fields \ Stats
                   PROVE  (copy[f] = mem[f] /\ e5.user[f] = Ahead.user[f]) \/ e5.user[f] = copy[f]
      OBVIOUS
    <3>2. e5.user[f] = IF f = "worn" /\ o.wear THEN t ELSE e3.user[f]
      BY <1>29
    <3>3. e3.user[f] = IF f = "battery" THEN b ELSE Ahead.user[f]
      BY <1>18, <1>22
    <3>4. QED
      BY <1>7, <3>2, <3>3
  <2>3. QED
    BY ONLY <1>2, <1>7, <2>1, <2>2, AgreesStats
<1>35. QED
  <2>1. /\ mem' \in User /\ active' \in Points /\ collected' \in Int
        /\ incremental' \in Seq(Write) /\ DOMAIN callbacks' \subseteq Keyed
        /\ \A f \in DOMAIN callbacks' : callbacks'[f] \in Int
    BY <1>1, <1>2, <1>3, <1>4, <1>5, <1>31, <1>32
  <2>2. overtaken' \subseteq Keyed /\ Ahead'.gifts = Ahead.gifts
    BY <1>2, <1>11, <1>29, <1>33
  <2>3. Agrees(mem', overtaken', callbacks', Ahead'.user)
    BY <1>1, <1>6, <1>11, <1>33, <1>34
  <2>4. MissionsAgree(active', Ahead'.points)
    BY <1>3, <1>26, <1>29, <1>33
  <2>5. Sound(db, incremental')
    BY <1>31, <1>32
  <2>6. QED
    BY <1>1, <2>1, <2>2, <2>3, <2>4, <2>5, PacketInv

-----------------------------------------------------------------------------
(* Login, rewards, passes, the end of the process and the days. *)

\* Where nothing is written and nothing queued, and the session stays as it is.
LEMMA AsideInv ==
    ASSUME ProgressInv, UNCHANGED <<online, mem, active, collected, db, incremental, callbacks,
                                    overtaken, torn>>,
           rewards' \subseteq Calendar, pass' \in {"none", "worker", "logout"}, today' \in Day,
           dating' = dating,
           ~online => rewards' = {},
           pass' = "logout" => online /\ rewards' = {} /\ dating = <<>>,
           InTime(db.lastDay, dating, rewards', today')
    PROVE  ProgressInv'
<1>1. Ahead' = Ahead
  BY DEF Ahead
<1>2. Types'
  BY DEF ProgressInv, Types
<1>3. Quiet'
  BY DEF ProgressInv, Quiet
<1>4. RowAgrees'
  BY <1>1 DEF ProgressInv, RowAgrees
<1>5. GiftsAccounted'
  BY <1>1 DEF ProgressInv, GiftsAccounted
<1>6. BatterySound'
  BY DEF ProgressInv, BatterySound
<1>7. QED
  BY <1>2, <1>3, <1>4, <1>5, <1>6 DEF ProgressInv

LEMMA SkipRewardInv ==
    ASSUME ProgressInv, NEW c \in Calendar, SkipReward(c)
    PROVE  ProgressInv'
<1>1. /\ c \in rewards /\ dating = <<>> /\ rewards' = rewards \ {c}
      /\ UNCHANGED <<online, mem, active, collected, dating, db, incremental, callbacks, pass, today,
                     overtaken, torn>>
  BY DEF SkipReward, queueVars
<1>2. /\ rewards \subseteq Calendar /\ pass \in {"none", "worker", "logout"} /\ today \in Day
      /\ InTime(db.lastDay, dating, rewards, today)
      /\ (~online => rewards = {})
      /\ (pass = "logout" => online /\ rewards = {} /\ dating = <<>>)
  BY DEF ProgressInv, Types, Quiet, GiftsAccounted
<1>3. InTime(db.lastDay, dating, rewards', today')
  BY <1>1, <1>2 DEF InTime
<1>4. QED
  BY <1>1, <1>2, <1>3, AsideInv

LEMMA LogoutInv ==
    ASSUME ProgressInv, Logout
    PROVE  ProgressInv'
<1>1. /\ online /\ rewards = {} /\ dating = <<>> /\ pass' = "logout"
      /\ UNCHANGED <<online, mem, active, collected, rewards, dating, db, incremental, callbacks,
                     today, overtaken, torn>>
  BY DEF Logout, copyVars, queueVars
<1>2. today \in Day /\ InTime(db.lastDay, dating, rewards, today)
  BY DEF ProgressInv, Types, GiftsAccounted
<1>3. QED
  BY <1>1, <1>2, AsideInv

LEMMA WakeInv ==
    ASSUME ProgressInv, Wake
    PROVE  ProgressInv'
<1>1. /\ pass' = "worker"
      /\ UNCHANGED <<online, mem, active, collected, rewards, dating, db, incremental, callbacks,
                     today, overtaken, torn>>
  BY DEF Wake, copyVars, queueVars
<1>2. /\ today \in Day /\ rewards \subseteq Calendar /\ InTime(db.lastDay, dating, rewards, today)
      /\ (~online => rewards = {})
  BY DEF ProgressInv, Types, Quiet, GiftsAccounted
<1>3. QED
  BY <1>1, <1>2, AsideInv

LEMMA NextDayInv ==
    ASSUME ProgressInv, NextDay
    PROVE  ProgressInv'
<1>1. /\ today < MaxDay /\ today' = today + 1
      /\ UNCHANGED <<online, mem, active, collected, rewards, dating, db, incremental, callbacks,
                     pass, overtaken, torn>>
  BY DEF NextDay, copyVars, queueVars
<1>2. /\ today \in Day /\ rewards \subseteq Calendar /\ pass \in {"none", "worker", "logout"}
      /\ InTime(db.lastDay, dating, rewards, today)
      /\ (~online => rewards = {})
      /\ (pass = "logout" => online /\ rewards = {} /\ dating = <<>>)
      /\ db \in Database /\ (dating # <<>> => dating \in Calendar \X Day)
  BY DEF ProgressInv, Types, Quiet, GiftsAccounted
<1>3. db.lastDay \in [Calendar -> Int]
  BY <1>2, DatabaseFields
<1>4. today' \in Day /\ today \in Int /\ today' = today + 1
  BY <1>1, <1>2, ProgressAssumption DEF Day
<1>5. InTime(db.lastDay, dating, rewards, today')
  <2>1. \A c \in Calendar : db.lastDay[c] <= today' /\ (c \in rewards => db.lastDay[c] < today')
    <3>1. SUFFICES ASSUME NEW c \in Calendar
                   PROVE  db.lastDay[c] <= today' /\ (c \in rewards => db.lastDay[c] < today')
      OBVIOUS
    <3>2. db.lastDay[c] \in Int
      BY <1>3
    <3>3. db.lastDay[c] <= today /\ (c \in rewards => db.lastDay[c] < today)
      BY <1>2 DEF InTime
    <3>4. QED
      BY <1>4, <3>2, <3>3
  <2>2. ASSUME dating # <<>>
        PROVE  dating[1] \notin rewards /\ dating[2] <= today' /\ db.lastDay[dating[1]] < dating[2]
    <3>1. dating[2] \in Int
      BY <1>2, <2>2 DEF Day
    <3>2. dating[1] \notin rewards /\ dating[2] <= today /\ db.lastDay[dating[1]] < dating[2]
      BY <1>2, <2>2 DEF InTime
    <3>3. QED
      BY <1>4, <3>1, <3>2
  <2>3. QED
    BY <2>1, <2>2 DEF InTime
<1>6. QED
  BY <1>1, <1>2, <1>4, <1>5, AsideInv

LEMMA QueueRewardInv ==
    ASSUME ProgressInv, NEW c \in Calendar, QueueReward(c)
    PROVE  ProgressInv'
<1>1. /\ c \in rewards /\ dating = <<>> /\ pass = "none" /\ rewards' = rewards \ {c}
      /\ dating' = <<c, today>>
      /\ UNCHANGED <<online, mem, active, collected, db, callbacks, pass, today, torn>>
  BY DEF QueueReward
<1>2. /\ today \in Day /\ incremental \in Seq(Write) /\ Sound(db, incremental) /\ db \in Database
      /\ online /\ rewards \subseteq Calendar
  BY <1>1 DEF ProgressInv, Types, Quiet, BatterySound
<1>3. PICK w : w = [kind |-> "gift", calendar |-> c, day |-> today]
  OBVIOUS
<1>4. w \in Write /\ w.kind # "stats"
  BY <1>2, <1>3 DEF Write
<1>5. Queue(<<w>>)
  BY <1>3 DEF QueueReward
<1>6. incremental' = incremental \o <<w>> /\ overtaken' = overtaken
  BY <1>4, <1>5, QueueOne
<1>7. Ahead \in Database
  BY AheadDatabase DEF ProgressInv
<1>8. Applied(Ahead, w) = GiftAdded(Ahead, c, today)
  BY <1>3 DEF Applied, GiftAdded
<1>9. /\ GiftAdded(Ahead, c, today).user = Ahead.user /\ GiftAdded(Ahead, c, today).points = Ahead.points
      /\ \A b \in Calendar, y \in Day : GiftAdded(Ahead, c, today).gifts[b][y]
            = IF b = c /\ y = today THEN Ahead.gifts[b][y] + 1 ELSE Ahead.gifts[b][y]
  BY <1>2, <1>7, GiftSet
<1>10. Within(Ahead.user)
  BY <1>2, SoundEnds DEF Ahead
<1>11. incremental' \in Seq(Write) /\ Ahead' = Applied(Ahead, w) /\ Sound(db, incremental')
  <2>1. Within(Applied(Ahead, w).user) /\ db' = db
    BY <1>1, <1>8, <1>9, <1>10
  <2>2. QED
    BY ONLY <1>2, <1>4, <1>6, <2>1, OneQueued
<1>12. Types'
  <2>1. dating' \in Calendar \X Day
    BY <1>1, <1>2
  <2>2. QED
    BY <1>1, <1>2, <1>6, <1>11, <2>1 DEF ProgressInv, Types
<1>13. Quiet'
  BY <1>1, <1>2 DEF ProgressInv, Quiet
<1>14. RowAgrees'
  BY <1>1, <1>6, <1>8, <1>9, <1>11 DEF ProgressInv, RowAgrees
<1>15. GiftsAccounted'
  <2>1. /\ Accounted(Ahead.gifts, db.lastDay, dating, torn)
        /\ InTime(db.lastDay, dating, rewards, today)
    BY DEF ProgressInv, GiftsAccounted
  <2>2. db.lastDay \in [Calendar -> Int] /\ today \in Int /\ Ahead.gifts \in [Calendar -> [Day -> Int]]
    BY <1>2, <1>7, DatabaseFields DEF Day
  <2>3. InTime(db.lastDay, <<c, today>>, rewards \ {c}, today)
    BY <1>1, <2>1, <2>2 DEF InTime
  <2>4. ASSUME NEW b \in Calendar, NEW y \in Day
        PROVE  /\ Ahead'.gifts[b][y] > 0 => <<b, y>> \in torn \/ db.lastDay[b] >= y \/ <<c, today>> = <<b, y>>
               /\ Ahead'.gifts[b][y] <= 1 \/ <<b, y>> \in torn
    <3>1. Ahead.gifts[b][y] \in Int /\ db.lastDay[b] \in Int /\ y \in Int
      <4>1. Ahead.gifts[b][y] \in Int /\ db.lastDay[b] \in Int
        BY <2>2
      <4>2. y \in Int
        BY DEF Day
      <4>3. QED
        BY <4>1, <4>2
    <3>2. /\ Ahead.gifts[b][y] > 0 => <<b, y>> \in torn \/ db.lastDay[b] >= y
          /\ Ahead.gifts[b][y] <= 1 \/ <<b, y>> \in torn
      BY <1>1, <2>1 DEF Accounted
    <3>3. Ahead'.gifts[b][y] = IF b = c /\ y = today THEN Ahead.gifts[b][y] + 1 ELSE Ahead.gifts[b][y]
      BY <1>8, <1>9, <1>11
    <3>4. CASE b = c /\ y = today
      <4>1. db.lastDay[b] < y
        BY <1>1, <2>1, <3>4 DEF InTime
      <4>2. QED
        BY <3>1, <3>2, <3>3, <3>4, <4>1
    <3>5. CASE ~(b = c /\ y = today)
      BY <3>2, <3>3, <3>5
    <3>6. QED
      BY <3>4, <3>5
  <2>5. Accounted(Ahead'.gifts, db.lastDay, <<c, today>>, torn)
    BY <2>4 DEF Accounted
  <2>6. QED
    BY <1>1, <2>3, <2>5 DEF GiftsAccounted
<1>16. BatterySound'
  BY <1>1, <1>11 DEF BatterySound
<1>17. QED
  BY <1>12, <1>13, <1>14, <1>15, <1>16 DEF ProgressInv

LEMMA DateRewardInv ==
    ASSUME ProgressInv, DateReward
    PROVE  ProgressInv'
<1>1. /\ dating # <<>> /\ dating' = <<>>
      /\ db' = [db EXCEPT !.lastDay[dating[1]] = dating[2]]
      /\ UNCHANGED <<online, mem, active, collected, rewards, incremental, callbacks, pass, today,
                     overtaken, torn>>
  BY DEF DateReward, queueVars
<1>2. /\ dating \in Calendar \X Day /\ db \in Database /\ incremental \in Seq(Write)
      /\ Sound(db, incremental) /\ online
      /\ Accounted(Ahead.gifts, db.lastDay, dating, torn)
      /\ InTime(db.lastDay, dating, rewards, today)
      /\ Ahead \in Database
  BY <1>1, AheadDatabase DEF ProgressInv, Types, Quiet, BatterySound, GiftsAccounted
<1>3. PICK c \in Calendar, t \in Day : dating = <<c, t>>
  BY <1>2
<1>4. db.lastDay \in [Calendar -> Int] /\ t \in Int
  BY <1>2, DatabaseFields DEF Day
<1>5. PICK l : l = [db.lastDay EXCEPT ![c] = t]
  OBVIOUS
<1>6. l \in [Calendar -> Int] /\ \A b \in Calendar : l[b] = IF b = c THEN t ELSE db.lastDay[b]
  BY <1>4, <1>5
<1>7. db' = Redated(db, l)
  BY <1>1, <1>2, <1>3, <1>5 DEF Redated, Database
<1>8. db' \in Database /\ db'.lastDay = l
  BY <1>2, <1>6, <1>7, RedatedFields
<1>9. Ahead' = Redated(Ahead, l)
  BY <1>1, <1>2, <1>6, <1>7, MadeRedated DEF Ahead
<1>10. Ahead'.user = Ahead.user /\ Ahead'.points = Ahead.points /\ Ahead'.gifts = Ahead.gifts
  BY <1>2, <1>6, <1>9, RedatedFields
<1>11. Types'
  BY <1>1, <1>8 DEF ProgressInv, Types
<1>12. Quiet'
  BY <1>1, <1>2 DEF ProgressInv, Quiet
<1>13. RowAgrees'
  BY <1>1, <1>10 DEF ProgressInv, RowAgrees
<1>14. GiftsAccounted'
  <2>1. c \notin rewards /\ t <= today /\ db.lastDay[c] < t
    BY <1>1, <1>2, <1>3 DEF InTime
  <2>2. InTime(l, <<>>, rewards, today)
    BY <1>2, <1>6, <2>1 DEF InTime
  <2>3. ASSUME NEW b \in Calendar, NEW y \in Day
        PROVE  /\ Ahead.gifts[b][y] > 0 => <<b, y>> \in torn \/ l[b] >= y
               /\ Ahead.gifts[b][y] <= 1 \/ <<b, y>> \in torn
    <3>1. /\ Ahead.gifts[b][y] > 0 => <<b, y>> \in torn \/ db.lastDay[b] >= y \/ (c = b /\ t = y)
          /\ Ahead.gifts[b][y] <= 1 \/ <<b, y>> \in torn
      BY <1>2, <1>3 DEF Accounted
    <3>2. db.lastDay[b] \in Int /\ y \in Int
      BY <1>4 DEF Day
    <3>3. l[b] = IF b = c THEN t ELSE db.lastDay[b]
      BY <1>6
    <3>4. QED
      BY <1>4, <2>1, <3>1, <3>2, <3>3
  <2>4. Accounted(Ahead.gifts, l, <<>>, torn)
    BY <2>3 DEF Accounted
  <2>5. QED
    BY <1>1, <1>8, <1>10, <2>2, <2>4 DEF GiftsAccounted
<1>15. BatterySound'
  BY <1>1, <1>2, <1>6, <1>7, SoundRedated DEF BatterySound
<1>16. QED
  BY <1>11, <1>12, <1>13, <1>14, <1>15 DEF ProgressInv

\* An account that logs in works on what the database holds.
LEMMA LoginInv ==
    ASSUME ProgressInv, Login
    PROVE  ProgressInv'
<1>1. /\ ~online /\ pass = "none" /\ online' = TRUE
      /\ mem' = Loaded(db.user) /\ collected' = 0 /\ rewards' = Due
      /\ UNCHANGED <<dating, db, incremental, callbacks, pass, today, overtaken, torn>>
  BY DEF Login, queueVars
<1>2. active' = PlayerMissions \/ active' = <<>>
  BY DEF Login, SetEventMissions
<1>3. /\ incremental = <<>> /\ DOMAIN callbacks = {} /\ dating = <<>>
      /\ db \in Database /\ today \in Day
      /\ Accounted(Ahead.gifts, db.lastDay, dating, torn)
      /\ InTime(db.lastDay, dating, rewards, today)
  BY <1>1 DEF ProgressInv, Types, Quiet, GiftsAccounted
<1>4. Ahead = db
  BY <1>3, MadeEmpty DEF Ahead
<1>5. Ahead' = Ahead
  BY <1>1 DEF Ahead
<1>6. /\ db.user \in User /\ db.points \in [Mission -> Int] /\ db.lastDay \in [Calendar -> Int]
      /\ today \in Int
  BY <1>3, DatabaseFields DEF Day
<1>7. mem' \in User /\ \A f \in Fields : mem'[f] = IF f = "level" THEN db.user["level"] + 1
                                               ELSE IF f = "stage" THEN db.user["attempts"] ELSE db.user[f]
  BY <1>1, <1>6, LoadedFacts
<1>8. active' \in Points /\ MissionsAgree(active', db.points)
  <2>1. CASE active' = PlayerMissions
    <3>1. PICK N : N = {n \in Mission : db.points[n] < MissionTotal}
      OBVIOUS
    <3>2. active' = [m \in N |-> db.points[m]] /\ N \subseteq Mission
      BY <2>1, <3>1 DEF PlayerMissions
    <3>3. DOMAIN active' = N /\ active' \in [N -> Int] /\ \A m \in N : active'[m] = db.points[m]
      BY <1>6, <3>2
    <3>4. active' \in Points
      BY <3>2, <3>3, PointsFacts
    <3>5. QED
      BY <3>3, <3>4 DEF MissionsAgree, MissionAgrees
  <2>2. CASE active' = <<>>
    <3>1. PICK e : e = <<>>
      OBVIOUS
    <3>2. DOMAIN e = {} /\ e \in [DOMAIN e -> Int]
      BY <3>1
    <3>3. e \in Points
      BY <3>2, PointsFacts
    <3>4. QED
      BY <2>2, <3>1, <3>2, <3>3 DEF MissionsAgree
  <2>3. QED
    BY <1>2, <2>1, <2>2
<1>9. Types'
  <2>1. rewards' \subseteq Calendar
    BY <1>1 DEF Due
  <2>2. QED
    BY <1>1, <1>3, <1>7, <1>8, <2>1 DEF ProgressInv, Types
<1>10. Quiet'
  BY <1>1 DEF ProgressInv, Quiet
<1>11. RowAgrees'
  <2>1. \A f \in Fields : Held(callbacks, db.user, f) = Stored(mem')[f] \/ Misread(Stored(mem'), f)
    <3>1. SUFFICES ASSUME NEW f \in Fields
                   PROVE  Held(callbacks, db.user, f) = Stored(mem')[f] \/ Misread(Stored(mem'), f)
      OBVIOUS
    <3>2. Held(callbacks, db.user, f) = db.user[f]
      BY <1>3 DEF Held
    <3>3. Stored(mem')[f] = IF f = "level" THEN mem'["level"] - 1 ELSE mem'[f]
      BY <1>7, StoredFacts
    <3>4. db.user["level"] \in Int
      BY <1>6 DEF User, Numbers
    <3>5. CASE f = "stage"
      <4>1. mem'["stage"] = db.user["attempts"] /\ mem'["attempts"] = db.user["attempts"]
        BY <1>7, FieldNames
      <4>2. Stored(mem')["stage"] = mem'["stage"] /\ Stored(mem')["attempts"] = mem'["attempts"]
        BY <1>7, StoredFacts, FieldNames
      <4>3. QED
        BY <3>5, <4>1, <4>2 DEF Misread
    <3>6. CASE f # "stage"
      BY <1>7, <3>2, <3>3, <3>4, <3>6
    <3>7. QED
      BY <3>5, <3>6
  <2>2. Agrees(mem', overtaken, callbacks, db.user)
    BY <2>1 DEF Agrees
  <2>3. QED
    BY <1>1, <1>4, <1>5, <1>8, <2>2 DEF RowAgrees
<1>12. GiftsAccounted'
  <2>1. InTime(db.lastDay, <<>>, Due, today)
    <3>1. SUFFICES ASSUME NEW c \in Calendar
                   PROVE  db.lastDay[c] <= today /\ (c \in Due => db.lastDay[c] < today)
      BY DEF InTime
    <3>2. db.lastDay[c] \in Int /\ db.lastDay[c] <= today
      BY <1>3, <1>6 DEF InTime
    <3>3. c \in Due => db.lastDay[c] # today
      BY DEF Due
    <3>4. QED
      BY <1>6, <3>2, <3>3
  <2>2. QED
    BY <1>1, <1>3, <1>5, <2>1 DEF GiftsAccounted
<1>13. BatterySound'
  BY <1>1 DEF ProgressInv, BatterySound
<1>14. QED
  BY <1>9, <1>10, <1>11, <1>12, <1>13 DEF ProgressInv

\* A write of a pass is one the row was to get.
LEMMA WriteNextInv ==
    ASSUME ProgressInv, WriteNext
    PROVE  ProgressInv'
<1>1. UNCHANGED <<online, mem, active, collected, rewards, dating, pass, today, overtaken, torn>>
  BY DEF WriteNext, copyVars
<1>2. /\ db \in Database /\ incremental \in Seq(Write) /\ Sound(db, incremental)
      /\ DOMAIN callbacks \subseteq Keyed /\ (\A f \in DOMAIN callbacks : callbacks[f] \in Int)
      /\ Accounted(Ahead.gifts, db.lastDay, dating, torn)
      /\ InTime(db.lastDay, dating, rewards, today)
  BY DEF ProgressInv, Types, BatterySound, GiftsAccounted
<1>3. CASE incremental # <<>>
  <2>1. /\ db' = Applied(db, Head(incremental)) /\ incremental' = Tail(incremental)
        /\ callbacks' = callbacks
    BY <1>3 DEF WriteNext
  <2>2. incremental' \in Seq(Write) /\ Head(incremental) \in Write
    BY <1>2, <1>3, <2>1
  <2>3. db' \in Database /\ db'.lastDay = db.lastDay
    BY <1>2, <2>1, <2>2, AppliedDatabase
  <2>4. Ahead' = Ahead
    BY <1>2, <1>3, <2>1, MadeFirst DEF Ahead
  <2>5. Types'
    BY <1>1, <2>1, <2>2, <2>3 DEF ProgressInv, Types
  <2>6. Quiet'
    BY <1>1, <1>3 DEF ProgressInv, Quiet
  <2>7. RowAgrees'
    BY <1>1, <2>1, <2>4 DEF ProgressInv, RowAgrees
  <2>8. GiftsAccounted'
    BY <1>1, <1>2, <2>3, <2>4 DEF GiftsAccounted
  <2>9. BatterySound'
    BY <1>2, <1>3, <2>1, SoundTail DEF BatterySound
  <2>10. QED
    BY <2>5, <2>6, <2>7, <2>8, <2>9 DEF ProgressInv
<1>4. CASE incremental = <<>>
  <2>1. PICK f \in DOMAIN callbacks :
           /\ db' = SetField(db, f, callbacks[f])
           /\ callbacks' = Restrict(callbacks, DOMAIN callbacks \ {f})
           /\ incremental' = incremental
    BY <1>4 DEF WriteNext
  <2>2. f \in Keyed /\ f \in Fields /\ f # "battery" /\ f # "maxBattery" /\ callbacks[f] \in Int
    BY <1>2, FieldNames
  <2>3. /\ DOMAIN callbacks' = DOMAIN callbacks \ {f}
        /\ \A g \in DOMAIN callbacks' : callbacks'[g] = callbacks[g]
    BY <2>1 DEF Restrict
  <2>4. PICK v : v = callbacks[f]
    OBVIOUS
  <2>5. /\ db' \in Database /\ db'.points = db.points /\ db'.gifts = db.gifts /\ db'.lastDay = db.lastDay
        /\ \A g \in Fields : db'.user[g] = IF g = f THEN v ELSE db.user[g]
    <3>1. f \in Fields /\ v \in Int /\ db' = SetField(db, f, v)
      BY <2>1, <2>2, <2>4
    <3>2. QED
      BY ONLY <1>2, <3>1, FieldSet
  <2>6. Ahead = db /\ Ahead' = db'
    BY <1>4, <2>1, MadeEmpty DEF Ahead
  <2>7. online
    BY DEF ProgressInv, Quiet
  <2>8. Types'
    BY <1>1, <1>2, <2>1, <2>3, <2>5 DEF ProgressInv, Types
  <2>9. Quiet'
    BY <1>1, <2>7 DEF ProgressInv, Quiet
  <2>10. RowAgrees'
    <3>1. Agrees(mem, overtaken, callbacks, db.user) /\ MissionsAgree(active, db.points)
      BY <2>6, <2>7 DEF ProgressInv, RowAgrees
    <3>2. \A g \in Fields : Held(callbacks', db'.user, g) = Held(callbacks, db.user, g)
      BY <2>3, <2>4, <2>5 DEF Held
    <3>3. Agrees(mem, overtaken, callbacks', db'.user)
      BY <3>1, <3>2 DEF Agrees
    <3>4. QED
      BY <1>1, <2>5, <2>6, <3>1, <3>3 DEF RowAgrees
  <2>11. GiftsAccounted'
    BY <1>1, <1>2, <2>5, <2>6 DEF GiftsAccounted
  <2>12. BatterySound'
    <3>1. Within(db.user)
      BY <1>2, SoundEnds
    <3>2. Within(db'.user)
      BY <2>2, <2>5, <3>1, FieldNames DEF Within
    <3>3. QED
      BY <1>4, <2>1, <3>2, SoundEmpty DEF BatterySound
  <2>13. QED
    BY <2>8, <2>9, <2>10, <2>11, <2>12 DEF ProgressInv
<1>5. QED
  BY <1>3, <1>4

LEMMA EndPassInv ==
    ASSUME ProgressInv, EndPass
    PROVE  ProgressInv'
<1>1. /\ incremental = <<>> /\ callbacks = <<>> /\ pass' = "none"
      /\ UNCHANGED <<rewards, dating, db, incremental, callbacks, today, torn>>
  BY DEF EndPass, queueVars
<1>2. Ahead' = Ahead
  BY <1>1 DEF Ahead
<1>3. GiftsAccounted' /\ BatterySound'
  BY <1>1, <1>2 DEF ProgressInv, GiftsAccounted, BatterySound
<1>4. CASE pass = "logout"
  <2>1. online' = FALSE /\ collected' = 0 /\ overtaken' = {}
    BY <1>4 DEF EndPass, Gone
  <2>2. Types'
    <3>0. online' \in BOOLEAN /\ ~online'
      BY <2>1
    <3>1. /\ collected' \in Int /\ overtaken' \subseteq Keyed
          /\ pass' \in {"none", "worker", "logout"}
      BY <1>1, <2>1
    <3>2. UNCHANGED <<rewards, dating, db, incremental, callbacks, today>>
      BY <1>1
    <3>3. Types
      BY DEF ProgressInv
    <3>4. QED
      BY ONLY <3>0, <3>1, <3>2, <3>3 DEF Types
  <2>3. DOMAIN callbacks' = {}
    BY <1>1
  <2>4. Quiet'
    BY <1>1, <1>4, <2>1, <2>3 DEF ProgressInv, Quiet
  <2>5. RowAgrees'
    BY <2>1 DEF RowAgrees
  <2>6. QED
    BY <1>3, <2>2, <2>4, <2>5 DEF ProgressInv
<1>5. CASE pass # "logout"
  <2>1. UNCHANGED <<online, mem, active, collected, overtaken>>
    BY <1>5 DEF EndPass
  <2>2. Types'
    BY <1>1, <2>1 DEF ProgressInv, Types
  <2>3. Quiet'
    BY <1>1, <2>1 DEF ProgressInv, Quiet
  <2>4. RowAgrees'
    BY <1>1, <1>2, <2>1 DEF ProgressInv, RowAgrees
  <2>5. QED
    BY <1>3, <2>2, <2>3, <2>4 DEF ProgressInv
<1>6. QED
  BY <1>4, <1>5

LEMMA CrashInv ==
    ASSUME ProgressInv, Crash
    PROVE  ProgressInv'
<1>1. /\ online' = FALSE /\ collected' = 0 /\ overtaken' = {}
      /\ pass' = "none" /\ incremental' = <<>> /\ callbacks' = <<>> /\ rewards' = {} /\ dating' = <<>>
      /\ torn' = torn \cup ({dating} \ {<<>>}) /\ db' = db /\ today' = today
  BY DEF Crash, Gone
<1>2. /\ db \in Database /\ Ahead \in Database /\ GiftsWithin(db, Ahead)
      /\ incremental \in Seq(Write) /\ Sound(db, incremental)
      /\ Accounted(Ahead.gifts, db.lastDay, dating, torn)
      /\ InTime(db.lastDay, dating, rewards, today)
  BY AheadDatabase DEF ProgressInv, Types, BatterySound, GiftsAccounted
<1>3. Ahead' = db
  BY <1>1, MadeEmpty DEF Ahead
<1>4. Types'
  <2>1. incremental' \in Seq(Write) /\ DOMAIN callbacks' = {}
    BY <1>1
  <2>5. online' \in BOOLEAN /\ ~online'
    BY <1>1
  <2>2. /\ collected' \in Int /\ overtaken' \subseteq Keyed
        /\ pass' \in {"none", "worker", "logout"} /\ rewards' \subseteq Calendar /\ ~(dating' # <<>>)
    BY <1>1
  <2>3. db' \in Database /\ today' \in Day
    BY <1>1, <1>2 DEF ProgressInv, Types
  <2>4. QED
    BY ONLY <2>1, <2>2, <2>3, <2>5 DEF Types
<1>5. Quiet'
  <2>1. DOMAIN callbacks' = {}
    BY <1>1
  <2>2. QED
    BY <1>1, <2>1 DEF Quiet
<1>6. RowAgrees'
  BY <1>1 DEF RowAgrees
<1>7. GiftsAccounted'
  <2>1. ASSUME NEW c \in Calendar, NEW x \in Day
        PROVE  /\ db.gifts[c][x] > 0 => <<c, x>> \in torn' \/ db.lastDay[c] >= x
               /\ db.gifts[c][x] <= 1 \/ <<c, x>> \in torn'
    <3>1. db.gifts[c][x] \in Int /\ Ahead.gifts[c][x] \in Int
      BY <1>2, DatabaseFields
    <3>2. db.gifts[c][x] <= Ahead.gifts[c][x]
      BY <1>2 DEF GiftsWithin
    <3>3. /\ Ahead.gifts[c][x] > 0 => <<c, x>> \in torn \/ db.lastDay[c] >= x \/ dating = <<c, x>>
          /\ Ahead.gifts[c][x] <= 1 \/ <<c, x>> \in torn
      BY <1>2 DEF Accounted
    <3>4. dating = <<c, x>> => <<c, x>> \in torn'
      BY <1>1
    <3>5. <<c, x>> \in torn => <<c, x>> \in torn'
      BY <1>1
    <3>6. QED
      BY <3>1, <3>2, <3>3, <3>4, <3>5
  <2>2. Accounted(db.gifts, db.lastDay, <<>>, torn')
    BY <2>1 DEF Accounted
  <2>3. InTime(db.lastDay, <<>>, {}, today)
    BY <1>2 DEF InTime
  <2>4. QED
    BY <1>1, <1>3, <2>2, <2>3 DEF GiftsAccounted
<1>8. BatterySound'
  <2>1. Within(db.user)
    BY <1>2, SoundEnds
  <2>2. QED
    BY <1>1, <2>1, SoundEmpty DEF BatterySound
<1>9. QED
  BY <1>4, <1>5, <1>6, <1>7, <1>8 DEF ProgressInv

LEMMA IdleInv ==
    ASSUME ProgressInv, UNCHANGED vars
    PROVE  ProgressInv'
<1>1. UNCHANGED <<online, mem, active, collected, rewards, dating, db, incremental, callbacks, pass,
                  today, overtaken, torn>>
  BY DEF vars, copyVars, queueVars
<1>2. /\ today \in Day /\ rewards \subseteq Calendar /\ pass \in {"none", "worker", "logout"}
      /\ InTime(db.lastDay, dating, rewards, today)
      /\ (~online => rewards = {})
      /\ (pass = "logout" => online /\ rewards = {} /\ dating = <<>>)
  BY DEF ProgressInv, Types, Quiet, GiftsAccounted
<1>3. QED
  BY <1>1, <1>2, AsideInv

-----------------------------------------------------------------------------
(* The account before it was ever used. *)

LEMMA NewUserFacts == NewUser \in User /\ NewUser["battery"] = 0 /\ NewUser["maxBattery"] = 1
<1>1. DOMAIN NewUser = Fields
  BY DEF NewUser, Fields, Numbers
<1>2. \A f \in Numbers : NewUser[f] \in Int
  BY ProgressAssumption DEF NewUser, Numbers
<1>3. NewUser["tutorial"] \in BOOLEAN /\ NewUser["worn"] \in BOOLEAN
  BY DEF NewUser
<1>4. \A f \in Fields : NewUser[f] \in Value
  BY <1>2, <1>3 DEF Fields, Value
<1>5. NewUser = [f \in Fields |-> NewUser[f]]
  BY <1>1 DEF NewUser
<1>6. NewUser["battery"] = 0 /\ NewUser["maxBattery"] = 1
  BY DEF NewUser
<1>7. PICK u : u = NewUser
  OBVIOUS
<1>8. u \in [Fields -> Value]
  BY ONLY <1>4, <1>5, <1>7
<1>9. QED
  BY <1>2, <1>6, <1>7, <1>8 DEF User

LEMMA InitInv ==
    ASSUME Init
    PROVE  ProgressInv
<1>1. PICK u, p, l, g : /\ u = NewUser /\ p = [m \in Mission |-> 0] /\ l = [c \in Calendar |-> 0]
                        /\ g = [c \in Calendar |-> [d \in 1..MaxDay |-> 0]]
  OBVIOUS
<1>2. u \in User /\ Within(u)
  BY <1>1, NewUserFacts DEF Within
<1>3. p \in [Mission -> Int] /\ l \in [Calendar -> Int] /\ \A c \in Calendar : l[c] = 0
  BY <1>1
<1>4. g \in [Calendar -> [Day -> Int]] /\ \A c \in Calendar, x \in Day : g[c][x] = 0
  BY <1>1 DEF Day
<1>5. db = [user |-> u, points |-> p, lastDay |-> l, gifts |-> g, clan |-> 0]
  BY <1>1 DEF Init
<1>6. db \in Database /\ db.user = u /\ db.lastDay = l /\ db.gifts = g
  BY <1>2, <1>3, <1>4, <1>5 DEF Database
<1>7. /\ online = FALSE /\ collected = 0 /\ rewards = {} /\ dating = <<>> /\ incremental = <<>>
      /\ callbacks = <<>> /\ pass = "none" /\ today = 1 /\ overtaken = {} /\ torn = {}
  BY DEF Init
<1>8. Ahead = db
  BY <1>7, MadeEmpty DEF Ahead
<1>9. incremental \in Seq(Write) /\ DOMAIN callbacks = {} /\ today \in Day
  BY <1>7, ProgressAssumption DEF Day
<1>10. Types
  <2>0. online \in BOOLEAN /\ ~online
    BY <1>7
  <2>1. /\ collected \in Int /\ overtaken \subseteq Keyed
        /\ pass \in {"none", "worker", "logout"} /\ rewards \subseteq Calendar /\ ~(dating # <<>>)
    BY <1>7
  <2>2. QED
    BY ONLY <1>6, <1>9, <2>0, <2>1 DEF Types
<1>11. Quiet
  BY <1>7, <1>9 DEF Quiet
<1>12. RowAgrees
  BY <1>7 DEF RowAgrees
<1>13. GiftsAccounted
  <2>1. Accounted(g, l, <<>>, {})
    BY <1>4 DEF Accounted
  <2>2. InTime(l, <<>>, {}, 1)
    BY <1>3 DEF InTime
  <2>3. QED
    BY <1>6, <1>7, <1>8, <2>1, <2>2 DEF GiftsAccounted
<1>14. BatterySound
  BY <1>2, <1>6, <1>7, SoundEmpty DEF BatterySound
<1>15. QED
  BY <1>10, <1>11, <1>12, <1>13, <1>14 DEF ProgressInv

-----------------------------------------------------------------------------
(* Theorems. *)

LEMMA NextInv ==
    ASSUME ProgressInv, [Next]_vars
    PROVE  ProgressInv'
<1>1. CASE MatchEnd
  BY <1>1, MatchEndInv
<1>2. CASE FindBattery \/ SendBattery \/ ExpandBattery
  BY <1>2, FindBatteryInv, SendBatteryInv, ExpandBatteryInv
<1>3. CASE ResetKillDeath
  BY <1>3, ResetInv DEF ResetKillDeath
<1>4. CASE ResetRecord
  BY <1>4, ResetInv DEF ResetRecord
<1>5. CASE SingleWave \/ CompleteTutorial \/ SetMicroPoints \/ Repair \/ SetLevel \/ ClaimReward
  BY <1>5, SingleWaveInv, CompleteTutorialInv, SetMicroPointsInv, RepairInv, SetLevelInv, ClaimRewardInv
<1>6. CASE Login
  BY <1>6, LoginInv
<1>7. CASE \E c \in Calendar : QueueReward(c) \/ SkipReward(c)
  BY <1>7, QueueRewardInv, SkipRewardInv
<1>8. CASE DateReward \/ Logout \/ Wake \/ WriteNext \/ EndPass \/ Crash \/ NextDay
  BY <1>8, DateRewardInv, LogoutInv, WakeInv, WriteNextInv, EndPassInv, CrashInv, NextDayInv
<1>9. CASE UNCHANGED vars
  BY <1>9, IdleInv
<1>10. QED
  BY <1>1, <1>2, <1>3, <1>4, <1>5, <1>6, <1>7, <1>8, <1>9 DEF Next

\* Whatever the packets, the passes, the dates and the ends of the process: the
\* row, the queue and the copy agree, gifts are accounted for, and the battery
\* is within its maximum after every single write of the queue.
THEOREM ProgressInvariant == Spec => []ProgressInv
<1>1. Init => ProgressInv
  BY InitInv
<1>2. ProgressInv /\ [Next]_vars => ProgressInv'
  BY NextInv
<1>3. QED
  BY <1>1, <1>2, PTL DEF Spec

\* What the session shows is what the next login loads once the queue is
\* written, for any matches, missions and calendars: only fields overtaken by
\* statistics queued later differ, missions whose reward was claimed, and the
\* highest stage, which is that of the row or the attempts a login takes for it
\* (Player::m_accountInfo and m_eventMissions against the queue of
\* PersistentDatabase and the row).
THEOREM RowAlwaysFollows == Spec => []RowFollows
<1>1. ProgressInv => RowFollows
  BY InvImpliesRowFollows
<1>2. QED
  BY <1>1, ProgressInvariant, PTL

\* A calendar gives at most one item a day, for any calendars, days and logins;
\* a second one only where the process ended between the item that
\* sendWeeklyReward or sendMonthlyReward queued and its date in the database.
THEOREM OneGiftADayAlways == Spec => []OneGiftADay
<1>1. ProgressInv => OneGiftADay
  BY InvImpliesOneGiftADay
<1>2. QED
  BY <1>1, ProgressInvariant, PTL

=============================================================================
