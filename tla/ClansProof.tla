----------------------------- MODULE ClansProof -----------------------------
(***************************************************************************)
(* For every set of sessions and every limit: a party and its sessions     *)
(* agree on who waits where, who leads a party goes on leading it, and who *)
(* is in one party is in one room.                                         *)
(*                                                                         *)
(* The worlds here are those of RoomsProof with parties in them; what the  *)
(* rooms do leaves the parties alone.                                      *)
(***************************************************************************)
EXTENDS RoomsProof

-----------------------------------------------------------------------------
(* Clans: parties and clan rooms. *)

LEMMA LeastNatural ==
    ASSUME NEW T \in SUBSET Nat, T # {}
    PROVE  \E x \in T : \A y \in T : x <= y
<1>1. \A m, n \in Nat : m < n => <<m, n>> \in OpToRel(<, Nat)
  BY DEF OpToRel
<1>2. PICK R : IsWellFoundedOn(R, Nat) /\ \A m, n \in Nat : m < n => <<m, n>> \in R
  BY <1>1, NatLessThanWellFounded
<1>3. T \subseteq Nat /\ T # {} /\ IsWellFoundedOn(R, Nat)
  BY <1>2
<1>4. PICK x \in T : \A y \in T : ~ (<<y, x>> \in R)
  BY ONLY <1>3, WFMin
<1>5. ASSUME NEW y \in T PROVE x <= y
  <2>1. x \in Nat /\ y \in Nat /\ ~ (<<y, x>> \in R)
    BY <1>4
  <2>2. ~ (y < x)
    BY <1>2, <2>1
  <2>3. QED
    BY <2>1, <2>2
<1>6. QED
  BY <1>4, <1>5

-----------------------------------------------------------------------------
(* One party. *)

Waiter == [uid : Session, live : BOOLEAN]

\* A line of waiting players, everyone alive and in it once.
Line(q) ==
    /\ q \in Seq(Waiter)
    /\ \A i, j \in DOMAIN q : q[i].live /\ (q[i].uid = q[j].uid => i = j)

\* What PartyAgreement says of a party alone.
SoundParty(p) ==
    /\ p \in Party
    /\ p.waiting # <<>> /\ p.num = Len(p.waiting)
    /\ Line(p.waiting)

LEMMA PartyFields ==
    ASSUME NEW p
    PROVE  p \in Party <=>
             /\ p = [waiting |-> p.waiting, num |-> p.num, max |-> p.max,
                     registered |-> p.registered, started |-> p.started]
             /\ p.waiting \in Seq(Waiter) /\ p.num \in 0 .. 15 /\ p.max \in 1 .. 15
             /\ p.registered \in BOOLEAN /\ p.started \in BOOLEAN
BY DEF Party, Waiter

LEMMA LiveMember ==
    ASSUME NEW q, NEW s
    PROVE  s \in LiveIn(q) <=> \E i \in DOMAIN q : q[i].live /\ q[i].uid = s
BY DEF LiveIn

LEMMA LineFacts ==
    ASSUME NEW q, Line(q)
    PROVE  /\ q \in Seq(Waiter) /\ Len(q) \in Nat /\ DOMAIN q = 1 .. Len(q)
           /\ \A i \in 1 .. Len(q) : q[i] \in Waiter /\ q[i].uid \in Session /\ q[i].live
           /\ \A i, j \in 1 .. Len(q) : q[i].uid = q[j].uid => i = j
           /\ \A s : s \in LiveIn(q) <=> \E i \in 1 .. Len(q) : q[i].uid = s
           /\ LiveIn(q) \subseteq Session
<1>1. q \in Seq(Waiter) /\ Len(q) \in Nat /\ DOMAIN q = 1 .. Len(q)
  BY DEF Line
<1>2. \A i \in 1 .. Len(q) : q[i] \in Waiter
  BY <1>1
<1>3. \A i \in 1 .. Len(q) : q[i].uid \in Session
  BY <1>2 DEF Waiter
<1>4. /\ \A i \in 1 .. Len(q) : q[i].live
      /\ \A i, j \in 1 .. Len(q) : q[i].uid = q[j].uid => i = j
  BY <1>1 DEF Line
<1>5. \A s : s \in LiveIn(q) <=> \E i \in 1 .. Len(q) : q[i].uid = s
  BY <1>1, <1>4, LiveMember
<1>6. QED
  BY <1>1, <1>2, <1>3, <1>4, <1>5

LEMMA SwappedLine ==
    ASSUME NEW q, Line(q), NEW i \in 1 .. Len(q)
    PROVE  /\ Line(SwapHost(q, i)) /\ Len(SwapHost(q, i)) = Len(q)
           /\ LiveIn(SwapHost(q, i)) = LiveIn(q)
           /\ SwapHost(q, i)[1] = q[i] /\ SwapHost(q, i)[i] = q[1]
<1> DEFINE r == SwapHost(q, i)
<1>1. /\ q \in Seq(Waiter) /\ Len(q) \in Nat /\ DOMAIN q = 1 .. Len(q)
      /\ \A j \in 1 .. Len(q) : q[j] \in Waiter /\ q[j].uid \in Session /\ q[j].live
      /\ \A j, k \in 1 .. Len(q) : q[j].uid = q[k].uid => j = k
  BY LineFacts
<1>2. 1 \in 1 .. Len(q)
  BY <1>1
<1>3. DOMAIN r = 1 .. Len(q)
      /\ \A j \in 1 .. Len(q) : r[j] = IF j = i THEN q[1] ELSE IF j = 1 THEN q[i] ELSE q[j]
  BY <1>1, <1>2 DEF SwapHost
<1>4. r \in [1 .. Len(q) -> Waiter]
  <2>1. r = [j \in DOMAIN r |-> r[j]]
    BY DEF SwapHost
  <2>2. QED
    BY <1>1, <1>2, <1>3, <2>1
<1>5. r \in Seq(Waiter) /\ Len(r) = Len(q)
  BY <1>1, <1>4
<1>6. Line(r)
  BY <1>1, <1>2, <1>3, <1>5 DEF Line
<1>7. LiveIn(r) = LiveIn(q)
  <2>1. \A s : s \in LiveIn(q) <=> \E j \in 1 .. Len(q) : q[j].uid = s
    BY LineFacts
  <2>2. \A s : s \in LiveIn(r) <=> \E j \in 1 .. Len(q) : r[j].uid = s
    BY <1>5, <1>6, LineFacts
  <2>3. \A j \in 1 .. Len(q) : \E k \in 1 .. Len(q) : r[k] = q[j]
    BY <1>2, <1>3
  <2>4. \A j \in 1 .. Len(q) : \E k \in 1 .. Len(q) : q[k] = r[j]
    BY <1>2, <1>3
  <2>5. \A s : s \in LiveIn(q) <=> s \in LiveIn(r)
    <3> HIDE DEF r
    <3> QED BY <2>1, <2>2, <2>3, <2>4
  <2>6. QED
    <3> HIDE DEF r
    <3> QED BY <2>5
<1>8. QED
  BY <1>2, <1>3, <1>5, <1>6, <1>7

LEMMA ErasedLine ==
    ASSUME NEW q, Line(q), NEW i \in 1 .. Len(q)
    PROVE  /\ Line(Erase(q, i)) /\ Len(Erase(q, i)) = Len(q) - 1
           /\ LiveIn(Erase(q, i)) = LiveIn(q) \ {q[i].uid}
           /\ i # 1 => Erase(q, i)[1] = q[1]
<1> DEFINE r == Erase(q, i)
<1>1. /\ q \in Seq(Waiter) /\ Len(q) \in Nat /\ DOMAIN q = 1 .. Len(q)
      /\ \A j \in 1 .. Len(q) : q[j] \in Waiter /\ q[j].uid \in Session /\ q[j].live
      /\ \A j, k \in 1 .. Len(q) : q[j].uid = q[k].uid => j = k
  BY LineFacts
<1>2. Len(q) - 1 \in Nat
  BY <1>1
<1>3. \A j \in 1 .. (Len(q) - 1) : r[j] = IF j < i THEN q[j] ELSE q[j + 1]
  BY DEF Erase
<1>4. r \in [1 .. (Len(q) - 1) -> Waiter]
  BY <1>1 DEF Erase
<1>5. r \in Seq(Waiter) /\ Len(r) = Len(q) - 1 /\ DOMAIN r = 1 .. (Len(q) - 1)
  BY <1>2, <1>4
<1>6. Line(r)
  BY <1>1, <1>3, <1>5 DEF Line
<1>7. LiveIn(r) = LiveIn(q) \ {q[i].uid}
  <2>1. \A s : s \in LiveIn(q) <=> \E j \in 1 .. Len(q) : q[j].uid = s
    BY LineFacts
  <2>2. \A s : s \in LiveIn(r) <=> \E j \in 1 .. (Len(q) - 1) : r[j].uid = s
    BY <1>5, <1>6, LineFacts
  <2>3. \A s \in LiveIn(r) : s \in LiveIn(q) \ {q[i].uid}
    <3> TAKE s \in LiveIn(r)
    <3>1. PICK j \in 1 .. (Len(q) - 1) : r[j].uid = s
      BY <2>2
    <3>2. PICK k \in 1 .. Len(q) : k # i /\ q[k].uid = s
      BY <3>1, <1>1, <1>3
    <3>3. QED
      BY <3>2, <2>1, <1>1
  <2>4. \A s \in LiveIn(q) \ {q[i].uid} : s \in LiveIn(r)
    <3> TAKE s \in LiveIn(q) \ {q[i].uid}
    <3>1. PICK k \in 1 .. Len(q) : q[k].uid = s /\ k # i
      BY <2>1
    <3> DEFINE j == IF k < i THEN k ELSE k - 1
    <3>2. j \in 1 .. (Len(q) - 1) /\ r[j] = q[k]
      BY <3>1, <1>1, <1>3
    <3>3. QED
      BY <3>1, <3>2, <2>2
  <2>5. QED
    BY <2>3, <2>4
<1>8. i # 1 => r[1] = q[1]
  BY <1>1, <1>3
<1>9. QED
  BY <1>5, <1>6, <1>7, <1>8

LEMMA AppendedLine ==
    ASSUME NEW q, Line(q), NEW s \in Session, s \notin LiveIn(q)
    PROVE  LET r == Append(q, [uid |-> s, live |-> TRUE])
           IN  /\ Line(r) /\ Len(r) = Len(q) + 1 /\ LiveIn(r) = LiveIn(q) \cup {s}
               /\ q # <<>> => r[1] = q[1]
<1> DEFINE w == [uid |-> s, live |-> TRUE]
           r == Append(q, w)
<1>1. /\ q \in Seq(Waiter) /\ Len(q) \in Nat /\ DOMAIN q = 1 .. Len(q)
      /\ \A j \in 1 .. Len(q) : q[j] \in Waiter /\ q[j].uid \in Session /\ q[j].live
      /\ \A j, k \in 1 .. Len(q) : q[j].uid = q[k].uid => j = k
      /\ \A t : t \in LiveIn(q) <=> \E j \in 1 .. Len(q) : q[j].uid = t
  BY LineFacts
<1>2. w \in Waiter /\ w.uid = s /\ w.live
  BY DEF Waiter
<1> HIDE DEF w
<1>3. /\ r \in Seq(Waiter) /\ Len(r) = Len(q) + 1 /\ DOMAIN r = 1 .. Len(q) + 1
      /\ \A j \in 1 .. Len(q) : r[j] = q[j]
      /\ r[Len(q) + 1] = w
  BY <1>1, <1>2
<1> HIDE DEF r
<1>4. \A j \in 1 .. Len(q) : q[j].uid # s
  BY <1>1
<1>5. \A i \in 1 .. Len(q) + 1 : i \in 1 .. Len(q) \/ i = Len(q) + 1
  BY <1>1
<1>6. ASSUME NEW i \in DOMAIN r, NEW j \in DOMAIN r
      PROVE  r[i].live /\ (r[i].uid = r[j].uid => i = j)
  BY <1>1, <1>2, <1>3, <1>4, <1>5
<1>7. Line(r)
  BY <1>3, <1>6 DEF Line
<1>8. \A t : t \in LiveIn(r) <=> \E j \in 1 .. Len(q) + 1 : r[j].uid = t
  BY <1>3, <1>7, LineFacts
<1>9. LiveIn(r) = LiveIn(q) \cup {s}
  <2>1. Len(q) + 1 \in 1 .. Len(q) + 1 /\ \A j \in 1 .. Len(q) : j \in 1 .. Len(q) + 1
    BY <1>1
  <2>2. QED
    BY <2>1, <1>1, <1>2, <1>3, <1>5, <1>8
<1>10. q # <<>> => r[1] = q[1]
  BY <1>1, <1>3
<1>11. QED
  BY <1>3, <1>7, <1>9, <1>10 DEF r, w

\* The same party with another line.
LEMMA LineReplaced ==
    ASSUME NEW p, SoundParty(p), NEW q, Line(q), Len(q) = Len(p.waiting)
    PROVE  LET r == [p EXCEPT !.waiting = q]
           IN  SoundParty(r) /\ r.waiting = q /\ r.num = p.num /\ r.max = p.max
<1> DEFINE r == [p EXCEPT !.waiting = q]
<1>1. p \in Party /\ p.waiting \in Seq(Waiter) /\ p.waiting # <<>> /\ p.num = Len(p.waiting)
  BY DEF SoundParty, Line
<1>2. /\ p = [waiting |-> p.waiting, num |-> p.num, max |-> p.max,
              registered |-> p.registered, started |-> p.started]
      /\ p.num \in 0 .. 15 /\ p.max \in 1 .. 15
      /\ p.registered \in BOOLEAN /\ p.started \in BOOLEAN
  BY <1>1, PartyFields
<1>3. r = [waiting |-> q, num |-> p.num, max |-> p.max,
           registered |-> p.registered, started |-> p.started]
  BY <1>2
<1>4. /\ r.waiting = q /\ r.num = p.num /\ r.max = p.max
      /\ r.registered = p.registered /\ r.started = p.started
  BY <1>3
<1>5. q \in Seq(Waiter) /\ Len(q) # 0
  BY <1>1 DEF Line
<1>6. r \in Party
  <2> HIDE DEF r
  <2> QED BY <1>2, <1>3, <1>4, <1>5, PartyFields
<1>7. SoundParty(r)
  <2> HIDE DEF r
  <2> QED BY <1>1, <1>4, <1>5, <1>6 DEF SoundParty
<1>8. QED
  BY <1>4, <1>7

\* changeLeaderToFirstAvailable leaves the same people waiting, and another leads.
LEMMA HandedParty ==
    ASSUME NEW p, SoundParty(p)
    PROVE  /\ SoundParty(Handed(p)) /\ LiveIn(Handed(p).waiting) = LiveIn(p.waiting)
           /\ Len(Handed(p).waiting) = Len(p.waiting)
           /\ Handed(p).max = p.max
           /\ Len(p.waiting) > 1 => Heirs(p) # {} /\ LeaderOf(Handed(p)) # LeaderOf(p)
           /\ Len(p.waiting) = 1 => Handed(p) = p
<1>1. Line(p.waiting) /\ Len(p.waiting) \in Nat /\ Len(p.waiting) # 0
      /\ \A i, j \in 1 .. Len(p.waiting) : p.waiting[i].uid = p.waiting[j].uid => i = j
  BY LineFacts DEF SoundParty
<1>2. Heirs(p) = 2 .. Len(p.waiting)
  <2>1. \A i \in 2 .. Len(p.waiting) : p.waiting[i].live
    BY <1>1, LineFacts
  <2>2. QED
    BY <2>1 DEF Heirs
<1>3. CASE Len(p.waiting) = 1
  BY <1>1, <1>2, <1>3 DEF Handed
<1>4. CASE Len(p.waiting) > 1
  <2> DEFINE i == CHOOSE i \in Heirs(p) : \A j \in Heirs(p) : i <= j
  <2>1. 2 \in Heirs(p) /\ \A j \in Heirs(p) : 2 <= j
    BY <1>1, <1>2, <1>4
  <2>2. i \in Heirs(p)
    BY <2>1
  <2> HIDE DEF i
  <2>3. i \in 1 .. Len(p.waiting) /\ i # 1 /\ 1 \in 1 .. Len(p.waiting)
    BY <2>2, <1>1, <1>2
  <2>4. Handed(p) = [p EXCEPT !.waiting = SwapHost(p.waiting, i)]
    BY <2>1 DEF Handed, i
  <2> DEFINE q == SwapHost(p.waiting, i)
  <2>5. Line(q) /\ Len(q) = Len(p.waiting) /\ LiveIn(q) = LiveIn(p.waiting) /\ q[1] = p.waiting[i]
    BY <1>1, <2>3, SwappedLine
  <2> HIDE DEF q
  <2>6. SoundParty(Handed(p)) /\ Handed(p).waiting = q /\ Handed(p).max = p.max
    BY <2>4, <2>5, LineReplaced DEF q
  <2>7. p.waiting[i].uid # p.waiting[1].uid
    BY <1>1, <2>3
  <2>8. QED
    BY <1>4, <2>1, <2>5, <2>6, <2>7, <1>1 DEF LeaderOf
<1>5. Len(p.waiting) = 1 \/ Len(p.waiting) > 1
  <2>1. \A n \in Nat : n # 0 => n = 1 \/ n > 1
    OBVIOUS
  <2>2. QED
    BY <1>1, <2>1
<1>6. QED
  BY ONLY <1>3, <1>4, <1>5

\* What removePlayer makes of the party.
Without(p, s) ==
    [HandedIfLeader(p, s) EXCEPT !.waiting = Erase(@, SeatOf(@, s)),
                                 !.num = IF @ = 0 THEN 0 ELSE @ - 1]

LEMMA WithoutOne ==
    ASSUME NEW p, SoundParty(p), NEW s \in LiveIn(p.waiting)
    PROVE  /\ CanLeave(p, s)
           /\ Len(p.waiting) = 1 => LiveIn(p.waiting) = {s} /\ LeaderOf(p) = s
           /\ Without(p, s).waiting = <<>> <=> Len(p.waiting) = 1
           /\ Len(p.waiting) # 1 =>
                 /\ SoundParty(Without(p, s))
                 /\ LiveIn(Without(p, s).waiting) = LiveIn(p.waiting) \ {s}
                 /\ Without(p, s).max = p.max
                 /\ LeaderOf(p) # s => LeaderOf(Without(p, s)) = LeaderOf(p)
<1> DEFINE q == p.waiting
           h == HandedIfLeader(p, s)
<1>1. /\ Line(q) /\ Len(q) \in Nat /\ Len(q) # 0 /\ DOMAIN q = 1 .. Len(q)
      /\ \A i \in 1 .. Len(q) : q[i].live
      /\ \A i, j \in 1 .. Len(q) : q[i].uid = q[j].uid => i = j
      /\ \A t : t \in LiveIn(q) <=> \E i \in 1 .. Len(q) : q[i].uid = t
  BY LineFacts DEF SoundParty
<1>2. IsLeader(p, s) <=> LeaderOf(p) = s
  BY <1>1 DEF IsLeader, LeaderOf
<1>16. /\ SoundParty(Handed(p)) /\ LiveIn(Handed(p).waiting) = LiveIn(q)
       /\ Len(Handed(p).waiting) = Len(q)
       /\ Handed(p).max = p.max
       /\ Len(q) # 1 => Heirs(p) # {} /\ LeaderOf(Handed(p)) # LeaderOf(p)
       /\ Len(q) = 1 => Handed(p) = p
  <2>1. Len(q) # 1 => Len(q) > 1
    <3>1. \A n \in Nat : n # 0 => n = 1 \/ n > 1
      OBVIOUS
    <3>2. QED
      BY <1>1, <3>1
  <2>2. QED
    BY <2>1, HandedParty
<1>3. CanLeave(p, s)
  <2>1. Holds(q, s)
    BY <1>1 DEF Holds, SeatsOf
  <2>2. Len(q) # 1 => Heirs(p) # {}
    BY <1>16
  <2>3. QED
    BY <2>1, <2>2 DEF CanLeave
<1>4. Len(q) = 1 => LiveIn(q) = {s} /\ LeaderOf(p) = s
  BY <1>1 DEF LeaderOf
<1>5. /\ SoundParty(h) /\ LiveIn(h.waiting) = LiveIn(q) /\ Len(h.waiting) = Len(q)
      /\ h.max = p.max
      /\ Len(q) # 1 => LeaderOf(h) # s /\ (LeaderOf(p) # s => LeaderOf(h) = LeaderOf(p))
  <2>1. CASE LeaderOf(p) = s
    BY <1>2, <1>16, <2>1 DEF HandedIfLeader
  <2>2. CASE LeaderOf(p) # s
    BY <1>2, <2>2 DEF HandedIfLeader
  <2>3. QED
    BY <2>1, <2>2
<1> HIDE DEF h, q
<1>6. /\ Line(h.waiting) /\ DOMAIN h.waiting = 1 .. Len(q) /\ h.num = Len(q)
      /\ \A i \in 1 .. Len(q) : h.waiting[i].live
      /\ \E i \in 1 .. Len(q) : h.waiting[i].uid = s
      /\ h \in Party
  <2>1. Line(h.waiting) /\ h.num = Len(q) /\ h \in Party
    BY <1>5 DEF SoundParty
  <2>2. QED
    BY <2>1, <1>5, LineFacts DEF q
<1> DEFINE i == SeatOf(h.waiting, s)
           e == Erase(h.waiting, i)
           r == Without(p, s)
<1>7. i \in 1 .. Len(q) /\ h.waiting[i].uid = s
  BY <1>6 DEF SeatOf
<1>8. Len(q) # 1 => i # 1
  BY <1>5, <1>7 DEF LeaderOf
<1>9. /\ Line(e) /\ Len(e) = Len(q) - 1
      /\ LiveIn(e) = LiveIn(q) \ {s}
      /\ Len(q) # 1 => e[1] = h.waiting[1]
  <2> HIDE DEF i
  <2>1. i \in 1 .. Len(h.waiting)
    BY <1>7, <1>5
  <2>2. /\ Line(e) /\ Len(e) = Len(h.waiting) - 1
        /\ LiveIn(e) = LiveIn(h.waiting) \ {h.waiting[i].uid}
        /\ i # 1 => e[1] = h.waiting[1]
    BY <2>1, <1>6, ErasedLine
  <2> HIDE DEF e
  <2>3. QED
    BY <2>2, <1>5, <1>7, <1>8
<1> HIDE DEF e, i
<1>10. /\ h = [waiting |-> h.waiting, num |-> h.num, max |-> h.max,
               registered |-> h.registered, started |-> h.started]
       /\ h.num \in 0 .. 15 /\ h.max \in 1 .. 15
       /\ h.registered \in BOOLEAN /\ h.started \in BOOLEAN
  BY <1>6, PartyFields
<1>11. r = [waiting |-> e, num |-> Len(q) - 1, max |-> h.max,
            registered |-> h.registered, started |-> h.started]
  <2>1. r = [h EXCEPT !.waiting = e, !.num = Len(q) - 1]
    BY <1>1, <1>6 DEF Without, h, e, i, q
  <2>2. QED
    BY <2>1, <1>10
<1> HIDE DEF r
<1>12. /\ r.waiting = e /\ r.num = Len(q) - 1 /\ r.max = h.max
       /\ r.registered = h.registered /\ r.started = h.started
  BY <1>11
<1>13. r.waiting = <<>> <=> Len(q) = 1
  <2>1. e \in Seq(Waiter) /\ (e = <<>> <=> Len(e) = 0)
    <3>1. e \in Seq(Waiter)
      BY <1>9 DEF Line
    <3>2. QED
      BY <3>1
  <2>2. QED
    BY <2>1, <1>1, <1>9, <1>12 DEF q
<1>14. Len(q) # 1 => SoundParty(r)
  <2> SUFFICES ASSUME Len(q) # 1 PROVE SoundParty(r)
    OBVIOUS
  <2>1. e \in Seq(Waiter) /\ Len(q) - 1 \in 0 .. 15
    BY <1>1, <1>6, <1>9, <1>10 DEF Line, q
  <2>2. r \in Party
    BY <2>1, <1>10, <1>11, <1>12, PartyFields
  <2>3. QED
    BY <2>2, <1>9, <1>12, <1>13 DEF SoundParty
<1>15. QED
  BY <1>3, <1>4, <1>5, <1>9, <1>12, <1>13, <1>14 DEF LeaderOf, q, r

-----------------------------------------------------------------------------
(* Worlds with parties. *)

ClanWorldFields == {"rooms", "gen", "num", "ps", "parties", "party"}
Complete(x) == DOMAIN x = ClanWorldFields
SameParties(x, y) == Complete(y) /\ y.parties = x.parties /\ y.party = x.party

LEMMA RoomEffects ==
    ASSUME NEW x, Complete(x)
    PROVE  /\ \A n : SameParties(x, CloseRoom(x, n))
           /\ \A n, r : SameParties(x, Put(x, n, r))
           /\ \A n, o : SameParties(x, Settle(x, n, o))
           /\ \A n, who, v : SameParties(x, SetStateIn(x, n, who, v))
           /\ \A n, s : SameParties(x, ClanRoomJoined(x, n, s))
           /\ \A n, q : SameParties(x, AllJoined(x, n, q))
           /\ \A s : SameParties(x, ClanRoomCreated(x, s))
<1>1. ASSUME NEW y, Complete(y), NEW n PROVE SameParties(y, CloseRoom(y, n))
  <2>1. CASE n \notin DOMAIN y.rooms
    BY <1>1, <2>1 DEF CloseRoom, SameParties
  <2>2. CASE n \in DOMAIN y.rooms
    <3>1. CloseRoom(y, n) = [y EXCEPT !.rooms = Restrict(y.rooms, DOMAIN y.rooms \ {n}),
                                      !.gen = Released(y.gen, n),
                                      !.num = Unhoused(y.num, Members(y.rooms[n]))]
      BY <1>1, <2>2 DEF CloseRoom, Complete, ClanWorldFields
    <3>2. QED
      BY <1>1, <3>1 DEF SameParties, Complete, ClanWorldFields
  <2>3. QED
    BY <2>1, <2>2
<1>2. ASSUME NEW n, NEW r PROVE SameParties(x, Put(x, n, r))
  BY DEF Put, SameParties, Complete, ClanWorldFields
<1>3. ASSUME NEW n, NEW o PROVE SameParties(x, Settle(x, n, o))
  <2> DEFINE y == [Put(x, n, o.room) EXCEPT !.num = Unhoused(@, o.gone)]
  <2>1. SameParties(x, y)
    BY <1>2 DEF SameParties, Complete, ClanWorldFields
  <2>2. SameParties(y, CloseRoom(y, n))
    BY <1>1, <2>1 DEF SameParties
  <2>3. Settle(x, n, o) = IF o.close THEN CloseRoom(y, n) ELSE y
    BY DEF Settle
  <2>4. QED
    BY <2>1, <2>2, <2>3 DEF SameParties
<1>4. ASSUME NEW n, NEW who, NEW v PROVE SameParties(x, SetStateIn(x, n, who, v))
  BY <1>2 DEF SetStateIn, SameParties, Complete, ClanWorldFields
<1>5. ASSUME NEW n, NEW s PROVE SameParties(x, ClanRoomJoined(x, n, s))
  BY <1>2 DEF ClanRoomJoined, SameParties, Complete, ClanWorldFields
<1>6. ASSUME NEW n, NEW q PROVE SameParties(x, AllJoined(x, n, q))
  BY <1>2 DEF AllJoined, SameParties, Complete, ClanWorldFields
<1>7. ASSUME NEW s PROVE SameParties(x, ClanRoomCreated(x, s))
  BY DEF ClanRoomCreated, SameParties, Complete, ClanWorldFields
<1>8. QED
  BY <1>1, <1>2, <1>3, <1>4, <1>5, <1>6, <1>7

LEMMA RoomExits ==
    ASSUME NEW x, Complete(x), NEW s
    PROVE  /\ \A y \in RoomLeave(x, s) : SameParties(x, y)
           /\ \A y \in MatchLeave(x, s) : SameParties(x, y)
<1>1. SameParties(x, x)
  BY DEF SameParties
<1>2. \A n : \A y \in LeaveAsTarget(x, n, s) : SameParties(x, y)
  BY RoomEffects DEF LeaveAsTarget
<1>3. \A y \in RoomLeave(x, s) : SameParties(x, y)
  BY <1>1, <1>2, RoomEffects DEF RoomLeave
<1>4. \A y \in MatchLeave(x, s) : SameParties(x, y)
  BY <1>1, <1>2, RoomEffects DEF MatchLeave
<1>5. QED
  BY <1>3, <1>4

\* What PartyAgreement says, and of what kind the parties are.
Agreeing(ps, pn) ==
    /\ DOMAIN ps \subseteq Key /\ ps \in [DOMAIN ps -> Party]
    /\ pn \in [Session -> 0 .. MaxParties]
    /\ \A k \in DOMAIN ps : SoundParty(ps[k])
    /\ \A s \in Session, k \in Key :
          k = <<ClanOf[s], pn[s]>> <=> k \in DOMAIN ps /\ s \in LiveIn(ps[k].waiting)

Sound(x) == Complete(x) /\ Agreeing(x.parties, x.party)

LEMMA SameGood ==
    ASSUME NEW x, Sound(x), NEW y, SameParties(x, y)
    PROVE  Sound(y)
BY DEF Sound, SameParties

LEMMA Keys ==
    ASSUME NEW s \in Session, NEW n
    PROVE  <<ClanOf[s], n>> \in Key <=> n \in 1 .. MaxParties
BY DEF Key, Clan

LEMMA WhoWaits ==
    ASSUME NEW x, Sound(x), NEW s \in Session
    PROVE  /\ x.party[s] \in 0 .. MaxParties
           /\ HasParty(x, s) <=> x.party[s] # NoParty
           /\ HasParty(x, s) => /\ KeyOf(x, s) \in Key
                                /\ s \in LiveIn(PartyOf(x, s).waiting)
                                /\ SoundParty(PartyOf(x, s))
           /\ \A k \in DOMAIN x.parties : s \in LiveIn(x.parties[k].waiting) => k = KeyOf(x, s)
<1>1. x.party[s] \in 0 .. MaxParties /\ MaxParties \in Nat
  BY ClansAssumption DEF Sound, Agreeing
<1>2. HasParty(x, s) => KeyOf(x, s) \in Key
  BY DEF HasParty, Sound, Agreeing
<1>3. KeyOf(x, s) \in Key <=> x.party[s] # NoParty
  BY <1>1, Keys DEF KeyOf, NoParty
<1>4. KeyOf(x, s) \in Key => HasParty(x, s) /\ s \in LiveIn(PartyOf(x, s).waiting)
  BY DEF HasParty, Sound, Agreeing, KeyOf, PartyOf
<1>5. HasParty(x, s) => SoundParty(PartyOf(x, s))
  BY DEF HasParty, PartyOf, Sound, Agreeing
<1>6. \A k \in DOMAIN x.parties : s \in LiveIn(x.parties[k].waiting) => k = KeyOf(x, s)
  BY DEF Sound, Agreeing, KeyOf
<1>7. QED
  BY <1>1, <1>2, <1>3, <1>4, <1>5, <1>6

\* The party changes in what PartyAgreement does not speak of.
LEMMA PartyChanged ==
    ASSUME NEW x, Sound(x), NEW k \in DOMAIN x.parties,
           NEW q, SoundParty(q), LiveIn(q.waiting) = LiveIn(x.parties[k].waiting)
    PROVE  Sound([x EXCEPT !.parties[k] = q])
<1> DEFINE y == [x EXCEPT !.parties[k] = q]
           ps == x.parties
<1>1. Complete(x) /\ Agreeing(ps, x.party)
  BY DEF Sound
<1>2. /\ Complete(y) /\ y.party = x.party
      /\ y.parties = [ps EXCEPT ![k] = q]
  BY <1>1 DEF Complete, ClanWorldFields
<1> HIDE DEF y, ps
<1>3. /\ DOMAIN y.parties = DOMAIN ps /\ k \in DOMAIN ps
      /\ \A m \in DOMAIN ps : y.parties[m] = IF m = k THEN q ELSE ps[m]
  BY <1>2 DEF ps
<1>4. q \in Party
  BY DEF SoundParty
<1>5. y.parties \in [DOMAIN y.parties -> Party]
  BY <1>1, <1>2, <1>3, <1>4 DEF Agreeing
<1>6. \A m \in DOMAIN ps : /\ SoundParty(y.parties[m])
                           /\ LiveIn(y.parties[m].waiting) = LiveIn(ps[m].waiting)
  BY <1>1, <1>3 DEF Agreeing, ps
<1>7. Agreeing(y.parties, y.party)
  BY <1>1, <1>2, <1>3, <1>5, <1>6 DEF Agreeing
<1>8. QED
  BY <1>2, <1>7 DEF Sound, y

\* From x to y nobody but the session s has left or joined a party, and no
\* leader but s has lost the lead.
Moved(x, y, s) ==
    /\ Sound(y)
    /\ \A t \in Session \ {s} : y.party[t] = x.party[t]
    /\ DOMAIN y.parties \subseteq DOMAIN x.parties
    /\ \A k \in DOMAIN x.parties : LeaderOf(x.parties[k]) # s =>
          k \in DOMAIN y.parties /\ LeaderOf(y.parties[k]) = LeaderOf(x.parties[k])

\* And s has left its party.
Parted(x, y, s) == Moved(x, y, s) /\ y.party[s] = NoParty

LEMMA MovedOn ==
    ASSUME NEW x, NEW y, NEW z, NEW s, Moved(x, y, s), Moved(y, z, s)
    PROVE  Moved(x, z, s)
BY DEF Moved

LEMMA MovedSame ==
    ASSUME NEW x, NEW y, Sound(x), SameParties(x, y), NEW s
    PROVE  Moved(x, y, s)
BY SameGood DEF Moved, SameParties

LEMMA LeftPartyParts ==
    ASSUME NEW x, Sound(x), NEW s \in Session, HasParty(x, s)
    PROVE  /\ CanLeave(PartyOf(x, s), s)
           /\ Parted(x, LeftParty(x, s), s)
           /\ ~LastOfParty(x, s) => KeyOf(x, s) \in DOMAIN LeftParty(x, s).parties
<1> DEFINE k == KeyOf(x, s)
           p == PartyOf(x, s)
           q == Without(p, s)
           y == [x EXCEPT !.party[s] = NoParty]
           z == LeftParty(x, s)
           ps == x.parties
<1>1. Complete(x) /\ Agreeing(ps, x.party) /\ k \in DOMAIN ps /\ p = ps[k]
  BY DEF Sound, HasParty, PartyOf
<1>2. /\ k \in Key /\ s \in LiveIn(p.waiting) /\ SoundParty(p)
      /\ \A m \in DOMAIN ps : s \in LiveIn(ps[m].waiting) => m = k
  BY WhoWaits
<1>3. /\ Complete(y) /\ y.parties = ps
      /\ y.party = [x.party EXCEPT ![s] = NoParty]
  BY <1>1 DEF Complete, ClanWorldFields
<1>4. /\ y.party \in [Session -> 0 .. MaxParties] /\ y.party[s] = NoParty
      /\ \A t \in Session : t # s => y.party[t] = x.party[t]
  <2>1. NoParty \in 0 .. MaxParties
    BY ClansAssumption DEF NoParty
  <2>2. QED
    BY <1>1, <1>3, <2>1 DEF Agreeing
<1>5. z = IF q.waiting = <<>> THEN DropParty(y, k) ELSE [y EXCEPT !.parties[k] = q]
  BY DEF LeftParty, Without
<1>6. /\ CanLeave(p, s)
      /\ Len(p.waiting) = 1 => LiveIn(p.waiting) = {s} /\ LeaderOf(p) = s
      /\ q.waiting = <<>> <=> Len(p.waiting) = 1
      /\ Len(p.waiting) # 1 =>
                 /\ SoundParty(q)
                 /\ LiveIn(q.waiting) = LiveIn(p.waiting) \ {s}
                 /\ LeaderOf(p) # s => LeaderOf(q) = LeaderOf(p)
  BY <1>2, WithoutOne
<1>7. \A m \in Key : m # <<ClanOf[s], NoParty>>
  BY DEF Key, NoParty
<1> HIDE DEF y, z, q, p, k
<1>8. CASE Len(p.waiting) = 1
  <2>1. z = DropParty(y, k)
    BY <1>5, <1>6, <1>8
  <2>2. /\ Complete(z)
        /\ z.parties = Restrict(ps, DOMAIN ps \ {k})
        /\ z.party = [t \in Session |-> IF t \in LiveIn(p.waiting) THEN NoParty ELSE y.party[t]]
    BY <2>1, <1>1, <1>3 DEF DropParty, AllRemoved, Complete, ClanWorldFields
  <2>3. /\ DOMAIN z.parties = DOMAIN ps \ {k}
        /\ \A m \in DOMAIN z.parties : z.parties[m] = ps[m]
        /\ z.parties = [m \in DOMAIN z.parties |-> z.parties[m]]
    BY <2>2 DEF Restrict
  <2>4. z.party = y.party
    BY <1>4, <1>6, <1>8, <2>2
  <2>5. z.parties \in [DOMAIN z.parties -> Party]
    BY <2>3, <1>1 DEF Agreeing
  <2>6. ASSUME NEW t \in Session, NEW m \in Key
        PROVE  m = <<ClanOf[t], z.party[t]>>
                 <=> m \in DOMAIN z.parties /\ t \in LiveIn(z.parties[m].waiting)
    <3>1. m = <<ClanOf[t], x.party[t]>> <=> m \in DOMAIN ps /\ t \in LiveIn(ps[m].waiting)
      BY <1>1 DEF Agreeing
    <3>2. CASE t = s
      BY <3>1, <3>2, <1>2, <1>4, <1>7, <2>3, <2>4
    <3>3. CASE t # s
      BY <3>1, <3>3, <1>1, <1>4, <1>6, <1>8, <2>3, <2>4
    <3>4. QED
      BY <3>2, <3>3
  <2>7. Agreeing(z.parties, z.party)
    BY <1>1, <1>4, <2>3, <2>4, <2>5, <2>6 DEF Agreeing
  <2>8. \A m \in DOMAIN ps : LeaderOf(ps[m]) # s => m \in DOMAIN z.parties
    BY <1>1, <1>6, <1>8, <2>3
  <2>9. LastOfParty(x, s)
    BY <1>8 DEF LastOfParty, p
  <2>10. Parted(x, z, s)
    BY <2>2, <2>3, <2>4, <2>7, <2>8, <1>4 DEF Parted, Moved, Sound, ps
  <2>11. QED
    BY <1>6, <2>9, <2>10 DEF p, z
<1>9. CASE Len(p.waiting) # 1
  <2>1. z = [y EXCEPT !.parties[k] = q]
    BY <1>5, <1>6, <1>9
  <2>2. Complete(z) /\ z.party = y.party /\ z.parties = [ps EXCEPT ![k] = q]
    BY <2>1, <1>3 DEF Complete, ClanWorldFields
  <2>3. /\ DOMAIN z.parties = DOMAIN ps
        /\ \A m \in DOMAIN ps : z.parties[m] = IF m = k THEN q ELSE ps[m]
    BY <2>2
  <2>4. z.parties \in [DOMAIN z.parties -> Party]
    <3>1. q \in Party
      BY <1>6, <1>9 DEF SoundParty
    <3>2. QED
      BY <3>1, <2>2, <2>3, <1>1 DEF Agreeing
  <2>5. ASSUME NEW t \in Session, NEW m \in Key
        PROVE  m = <<ClanOf[t], z.party[t]>>
                 <=> m \in DOMAIN z.parties /\ t \in LiveIn(z.parties[m].waiting)
    <3>1. m = <<ClanOf[t], x.party[t]>> <=> m \in DOMAIN ps /\ t \in LiveIn(ps[m].waiting)
      BY <1>1 DEF Agreeing
    <3>2. CASE t = s
      BY <3>1, <3>2, <1>1, <1>2, <1>4, <1>6, <1>7, <1>9, <2>2, <2>3
    <3>3. CASE t # s
      BY <3>1, <3>3, <1>1, <1>4, <1>6, <1>9, <2>2, <2>3
    <3>4. QED
      BY <3>2, <3>3
  <2>6. \A m \in DOMAIN z.parties : SoundParty(z.parties[m])
    BY <1>1, <1>6, <1>9, <2>3 DEF Agreeing
  <2>7. Agreeing(z.parties, z.party)
    BY <1>1, <1>4, <2>2, <2>3, <2>4, <2>5, <2>6 DEF Agreeing
  <2>8. \A m \in DOMAIN ps : LeaderOf(ps[m]) # s =>
            m \in DOMAIN z.parties /\ LeaderOf(z.parties[m]) = LeaderOf(ps[m])
    BY <1>1, <1>6, <1>9, <2>3
  <2>9. Parted(x, z, s)
    BY <2>2, <2>3, <2>7, <2>8, <1>4 DEF Parted, Moved, Sound, ps
  <2>10. QED
    BY <1>1, <1>6, <2>3, <2>9 DEF p, z, k
<1>10. QED
  BY <1>8, <1>9

\* The flags of a party.
LEMMA FlagsChanged ==
    ASSUME NEW p, SoundParty(p), NEW b \in BOOLEAN
    PROVE  /\ SoundParty([p EXCEPT !.registered = b])
           /\ [p EXCEPT !.registered = b].waiting = p.waiting
           /\ SoundParty([p EXCEPT !.started = b])
           /\ [p EXCEPT !.started = b].waiting = p.waiting
<1> DEFINE q == [p EXCEPT !.registered = b]
           r == [p EXCEPT !.started = b]
<1>1. p \in Party /\ p.waiting # <<>> /\ p.num = Len(p.waiting) /\ Line(p.waiting)
  BY DEF SoundParty
<1>2. q \in Party /\ r \in Party
  BY <1>1 DEF Party
<1>3. /\ q.waiting = p.waiting /\ q.num = p.num
      /\ r.waiting = p.waiting /\ r.num = p.num
  BY <1>1 DEF Party
<1> HIDE DEF q, r
<1>4. SoundParty(q) /\ SoundParty(r)
  BY <1>1, <1>2, <1>3 DEF SoundParty
<1>5. QED
  BY <1>3, <1>4 DEF q, r

\* What changes in a party but who waits where, and who leads if it is not s.
LEMMA MovedWithin ==
    ASSUME NEW x, Sound(x), NEW k \in DOMAIN x.parties, NEW s,
           NEW q, SoundParty(q), LiveIn(q.waiting) = LiveIn(x.parties[k].waiting),
           LeaderOf(x.parties[k]) # s => LeaderOf(q) = LeaderOf(x.parties[k])
    PROVE  LET y == [x EXCEPT !.parties[k] = q]
           IN  Moved(x, y, s) /\ y.party = x.party /\ DOMAIN y.parties = DOMAIN x.parties
<1> DEFINE y == [x EXCEPT !.parties[k] = q]
<1>1. Sound(y)
  BY PartyChanged
<1>2. y.party = x.party /\ y.parties = [x.parties EXCEPT ![k] = q]
  BY DEF Sound, Complete, ClanWorldFields
<1> HIDE DEF y
<1>3. /\ DOMAIN y.parties = DOMAIN x.parties
      /\ \A m \in DOMAIN x.parties : y.parties[m] = IF m = k THEN q ELSE x.parties[m]
  BY <1>2
<1>4. QED
  BY <1>1, <1>2, <1>3 DEF Moved, y

LEMMA PartyLeaves ==
    ASSUME NEW x, Sound(x), NEW s \in Session, NEW y \in PartyLeave(x, s)
    PROVE  Parted(x, y, s)
<1> DEFINE k == KeyOf(x, s)
           l == LeftParty(x, s)
           z == [l EXCEPT !.parties[k].registered = FALSE]
           n == x.num[s]
<1>1. CASE ~HasParty(x, s)
  <2>1. y = x /\ x.party[s] = NoParty
    BY <1>1, WhoWaits DEF PartyLeave
  <2>2. SameParties(x, x)
    BY DEF SameParties, Sound
  <2>3. QED
    BY <2>1, <2>2, MovedSame DEF Parted
<1>2. CASE HasParty(x, s)
  <2>1. /\ CanLeave(PartyOf(x, s), s)
        /\ Parted(x, l, s)
        /\ ~LastOfParty(x, s) => k \in DOMAIN l.parties
    BY <1>2, LeftPartyParts
  <2>2. CASE LastOfParty(x, s)
    <3>1. y = l
      BY <1>2, <2>1, <2>2 DEF PartyLeave
    <3>2. QED
      BY <2>1, <3>1
  <2>3. CASE ~LastOfParty(x, s)
    <3>1. \/ y = z
          \/ \E o : y = Settle(z, n, o)
      BY <1>2, <2>1, <2>3 DEF PartyLeave
    <3> HIDE DEF l, k, n
    <3> DEFINE q == [l.parties[k] EXCEPT !.registered = FALSE]
    <3>2. Sound(l) /\ k \in DOMAIN l.parties /\ SoundParty(l.parties[k])
      BY <2>1, <2>3 DEF Parted, Moved, Sound, Agreeing
    <3>3. SoundParty(q) /\ q.waiting = l.parties[k].waiting
      BY <3>2, FlagsChanged
    <3>4. z = [l EXCEPT !.parties[k] = q]
      OBVIOUS
    <3>5. Moved(l, z, s) /\ z.party = l.party
      <4> HIDE DEF q
      <4>1. LeaderOf(q) = LeaderOf(l.parties[k])
        BY <3>3 DEF LeaderOf
      <4> HIDE DEF z
      <4>2. QED
        BY <3>2, <3>3, <3>4, <4>1, MovedWithin
    <3> HIDE DEF z
    <3>6. Parted(x, z, s) /\ Sound(z) /\ Complete(z)
      BY <2>1, <3>5, MovedOn DEF Parted, Moved, Sound
    <3>7. SameParties(z, y)
      <4>1. CASE y = z
        BY <3>6, <4>1 DEF SameParties
      <4>2. CASE \E o : y = Settle(z, n, o)
        BY <3>6, <4>2, RoomEffects
      <4>3. QED
        BY <3>1, <4>1, <4>2
    <3>8. Moved(z, y, s) /\ y.party = z.party
      BY <3>6, <3>7, MovedSame DEF SameParties
    <3>9. QED
      BY <3>6, <3>8, MovedOn DEF Parted
  <2>4. QED
    BY <2>2, <2>3
<1>3. QED
  BY <1>1, <1>2

LEMMA ClanRoomLeaves ==
    ASSUME NEW x, Sound(x), NEW s \in Session, NEW y \in ClanRoomLeft(x, s)
    PROVE  SameParties(x, y) \/ Parted(x, y, s)
<1>1. Complete(x)
  BY DEF Sound
<1>2. CASE x.num[s] \notin DOMAIN x.rooms \/ ~HasParty(x, s)
  BY <1>1, <1>2, RoomExits DEF ClanRoomLeft
<1>3. CASE x.num[s] \in DOMAIN x.rooms /\ HasParty(x, s)
  <2> DEFINE l == LeftParty(x, s)
  <2>1. CanLeave(PartyOf(x, s), s) /\ Parted(x, l, s)
    BY <1>3, LeftPartyParts
  <2>2. y = l \/ y \in RoomLeave(l, s)
    BY <1>3, <2>1 DEF ClanRoomLeft
  <2> HIDE DEF l
  <2>3. Sound(l) /\ Complete(l)
    BY <2>1 DEF Parted, Moved, Sound
  <2>4. SameParties(l, y)
    BY <2>2, <2>3, RoomExits DEF SameParties
  <2>5. Moved(l, y, s) /\ y.party = l.party
    BY <2>3, <2>4, MovedSame DEF SameParties
  <2>6. QED
    BY <2>1, <2>5, MovedOn DEF Parted
<1>4. QED
  BY <1>2, <1>3

LEMMA ClanMatchLeaves ==
    ASSUME NEW x, Sound(x), NEW s \in Session, NEW y \in ClanMatchLeft(x, s)
    PROVE  Moved(x, y, s)
<1>1. Complete(x)
  BY DEF Sound
<1>2. CASE x.num[s] \notin DOMAIN x.rooms \/ ~HasParty(x, s)
  <2>1. SameParties(x, y)
    BY <1>1, <1>2, RoomExits DEF ClanMatchLeft
  <2>2. QED
    BY <2>1, MovedSame
<1>3. CASE x.num[s] \in DOMAIN x.rooms /\ HasParty(x, s)
  <2> DEFINE k == KeyOf(x, s)
             p == x.parties[k]
             h == [x EXCEPT !.parties[k] = HandedIfLeader(@, s)]
             l == LeftParty(x, s)
  <2>1. CanLeave(PartyOf(x, s), s) /\ Parted(x, l, s)
    BY <1>3, LeftPartyParts
  <2>2. y \in MatchLeave(h, s) \/ y \in MatchLeave(l, s)
    BY <1>3, <2>1 DEF ClanMatchLeft
  <2> HIDE DEF l
  <2>3. k \in DOMAIN x.parties /\ SoundParty(p) /\ s \in LiveIn(p.waiting)
    BY <1>3, WhoWaits DEF HasParty, PartyOf
  <2>4. Moved(x, h, s)
    <3> DEFINE q == HandedIfLeader(p, s)
    <3>1. /\ Line(p.waiting) /\ Len(p.waiting) \in Nat /\ Len(p.waiting) # 0
          /\ p.waiting[1].live
      BY <2>3, LineFacts DEF SoundParty
    <3>2. IsLeader(p, s) <=> LeaderOf(p) = s
      BY <2>3, <3>1 DEF IsLeader, LeaderOf, SoundParty
    <3> HIDE DEF p
    <3>3. SoundParty(Handed(p)) /\ LiveIn(Handed(p).waiting) = LiveIn(p.waiting)
      BY <2>3, HandedParty
    <3>4. /\ SoundParty(q) /\ LiveIn(q.waiting) = LiveIn(p.waiting)
          /\ LeaderOf(p) # s => LeaderOf(q) = LeaderOf(p)
      BY <2>3, <3>2, <3>3 DEF HandedIfLeader
    <3> HIDE DEF q
    <3>5. h = [x EXCEPT !.parties[k] = q]
      BY <1>1, <2>3 DEF q, p, Complete, ClanWorldFields
    <3> HIDE DEF k, h
    <3>6. QED
      BY <2>3, <3>4, <3>5, MovedWithin DEF p
  <2> HIDE DEF h, k, p
  <2>5. PICK w \in {h, l} : y \in MatchLeave(w, s)
    BY <2>2
  <2>6. Moved(x, w, s)
    BY <2>1, <2>4, <2>5 DEF Parted
  <2>7. Sound(w) /\ Complete(w)
    BY <2>6 DEF Moved, Sound
  <2>8. SameParties(w, y)
    BY <2>5, <2>7, RoomExits
  <2>9. QED
    BY <2>6, <2>7, <2>8, MovedSame, MovedOn
<1>4. QED
  BY <1>2, <1>3

\* From x to y every party is still there and led by whom it was.
Kept(x, y) ==
    /\ Sound(y)
    /\ DOMAIN y.parties = DOMAIN x.parties
    /\ \A k \in DOMAIN x.parties : LeaderOf(y.parties[k]) = LeaderOf(x.parties[k])

LEMMA KeptOn ==
    ASSUME NEW x, NEW y, NEW z, Kept(x, y), Kept(y, z)
    PROVE  Kept(x, z)
BY DEF Kept

LEMMA KeptSame ==
    ASSUME NEW x, NEW y, Sound(x), SameParties(x, y)
    PROVE  Kept(x, y)
BY SameGood DEF Kept, SameParties

LEMMA AddedParty ==
    ASSUME NEW x, Sound(x), NEW k \in DOMAIN x.parties, Open(x.parties[k]),
           NEW s \in Session, x.party[s] = NoParty, ClanOf[s] = k[1]
    PROVE  LET y == AddedToParty(x, k, s)
           IN  /\ Kept(x, y)
               /\ y.party = [x.party EXCEPT ![s] = k[2]]
<1> DEFINE y == AddedToParty(x, k, s)
           ps == x.parties
           p == ps[k]
           w == Append(p.waiting, [uid |-> s, live |-> TRUE])
           q == [p EXCEPT !.waiting = w, !.num = @ + 1]
<1>1. Complete(x) /\ Agreeing(ps, x.party) /\ k \in DOMAIN ps /\ k \in Key /\ SoundParty(p)
  BY DEF Sound, Agreeing
<1>2. /\ Complete(y)
      /\ y.parties = [ps EXCEPT ![k] = q]
      /\ y.party = [x.party EXCEPT ![s] = k[2]]
  BY <1>1 DEF AddedToParty, Complete, ClanWorldFields
<1>3. \A m \in DOMAIN ps : s \notin LiveIn(ps[m].waiting)
  <2>1. \A m \in Key : m # <<ClanOf[s], x.party[s]>>
    BY DEF Key, NoParty
  <2>2. QED
    BY <2>1, <1>1 DEF Agreeing
<1>4. /\ p \in Party /\ p.waiting # <<>> /\ p.num = Len(p.waiting) /\ Line(p.waiting)
      /\ p.num < p.max
  BY <1>1 DEF SoundParty, Open
<1>5. Line(w) /\ Len(w) = Len(p.waiting) + 1 /\ LiveIn(w) = LiveIn(p.waiting) \cup {s}
      /\ w[1] = p.waiting[1]
  <2> HIDE DEF p
  <2>1. s \notin LiveIn(p.waiting)
    BY <1>1, <1>3 DEF p
  <2>2. QED
    BY <1>4, <2>1, AppendedLine
<1> HIDE DEF y, w, q, p
<1>6. q = [waiting |-> w, num |-> p.num + 1, max |-> p.max,
           registered |-> p.registered, started |-> p.started]
  <2>1. p = [waiting |-> p.waiting, num |-> p.num, max |-> p.max,
             registered |-> p.registered, started |-> p.started]
    BY <1>4, PartyFields
  <2> DEFINE n == p.num + 1
  <2>2. q = [p EXCEPT !.waiting = w, !.num = n]
    BY DEF q
  <2> HIDE DEF n
  <2>3. q = [waiting |-> w, num |-> n, max |-> p.max,
             registered |-> p.registered, started |-> p.started]
    BY <2>1, <2>2
  <2>4. QED
    BY <2>3 DEF n
<1>7. /\ p.num \in 0 .. 15 /\ p.max \in 1 .. 15
      /\ p.registered \in BOOLEAN /\ p.started \in BOOLEAN
  BY <1>4, PartyFields
<1>8. /\ q.waiting = w /\ q.num = p.num + 1 /\ q.max = p.max
      /\ q.registered = p.registered /\ q.started = p.started
  BY <1>6
<1>9. SoundParty(q)
  <2>1. w \in Seq(Waiter) /\ w # <<>>
    <3>1. w \in Seq(Waiter)
      BY <1>5 DEF Line
    <3>2. Len(w) # 0
      BY <1>5, <1>4, <1>7
    <3>3. QED
      BY <3>1, <3>2
  <2>2. p.num + 1 \in 0 .. 15
    BY <1>4, <1>7
  <2>3. q \in Party
    BY <2>1, <2>2, <1>6, <1>7, <1>8, PartyFields
  <2>4. QED
    BY <2>1, <2>3, <1>4, <1>5, <1>8 DEF SoundParty
<1>10. LiveIn(q.waiting) = LiveIn(p.waiting) \cup {s} /\ LeaderOf(q) = LeaderOf(p)
  BY <1>5, <1>8 DEF LeaderOf
<1>11. /\ DOMAIN y.parties = DOMAIN ps
       /\ \A m \in DOMAIN ps : y.parties[m] = IF m = k THEN q ELSE ps[m]
       /\ y.parties \in [DOMAIN y.parties -> Party]
  <2>1. q \in Party
    BY <1>9 DEF SoundParty
  <2>2. QED
    BY <2>1, <1>1, <1>2 DEF Agreeing
<1>12. k = <<k[1], k[2]>> /\ k[2] \in 1 .. MaxParties
  BY <1>1 DEF Key
<1>13. /\ y.party \in [Session -> 0 .. MaxParties] /\ y.party[s] = k[2]
       /\ \A t \in Session : t # s => y.party[t] = x.party[t]
  <2>1. k[2] \in 0 .. MaxParties
    BY <1>12, ClansAssumption
  <2>2. QED
    BY <2>1, <1>1, <1>2 DEF Agreeing
<1>14. ASSUME NEW t \in Session, NEW m \in Key
       PROVE  m = <<ClanOf[t], y.party[t]>>
                <=> m \in DOMAIN y.parties /\ t \in LiveIn(y.parties[m].waiting)
  <2>1. m = <<ClanOf[t], x.party[t]>> <=> m \in DOMAIN ps /\ t \in LiveIn(ps[m].waiting)
    BY <1>1 DEF Agreeing
  <2>2. CASE t = s
    <3>1. m = <<ClanOf[t], y.party[t]>> <=> m = k
      BY <2>2, <1>12, <1>13
    <3>2. m = k => t \in LiveIn(y.parties[m].waiting)
      BY <2>2, <1>1, <1>10, <1>11
    <3>3. m \in DOMAIN ps /\ m # k => t \notin LiveIn(y.parties[m].waiting)
      BY <2>2, <1>3, <1>11
    <3>4. QED
      BY <3>1, <3>2, <3>3, <1>1, <1>11
  <2>3. CASE t # s
    BY <2>1, <2>3, <1>10, <1>11, <1>13 DEF p
  <2>4. QED
    BY <2>2, <2>3
<1>15. \A m \in DOMAIN y.parties : SoundParty(y.parties[m])
  BY <1>1, <1>9, <1>11 DEF Agreeing
<1>16. Agreeing(y.parties, y.party)
  BY <1>1, <1>11, <1>13, <1>14, <1>15 DEF Agreeing
<1>17. QED
  BY <1>2, <1>10, <1>11, <1>16 DEF Kept, Sound, y, p, ps

LEMMA PartyJoins ==
    ASSUME NEW x, Sound(x), NEW k, NEW s \in Session, x.party[s] = NoParty, ClanOf[s] = k[1]
    PROVE  Kept(x, PartyJoined(x, k, s))
<1>1. CASE k \notin DOMAIN x.parties \/ ~Open(x.parties[k])
  <2>1. PartyJoined(x, k, s) = x
    BY <1>1 DEF PartyJoined
  <2>2. QED
    BY <2>1 DEF Kept
<1>2. CASE k \in DOMAIN x.parties /\ Open(x.parties[k])
  <2> DEFINE y == AddedToParty(x, k, s)
  <2>1. Kept(x, y)
    BY <1>2, AddedParty
  <2>2. PartyJoined(x, k, s) = ClanRoomJoined(y, x.num[LeaderOf(x.parties[k])], s)
    BY <1>2 DEF PartyJoined
  <2> HIDE DEF y
  <2>3. Sound(y) /\ Complete(y)
    BY <2>1 DEF Kept, Sound
  <2>4. SameParties(y, PartyJoined(x, k, s))
    BY <2>2, <2>3, RoomEffects
  <2>5. QED
    BY <2>1, <2>3, <2>4, KeptSame, KeptOn
<1>3. QED
  BY <1>1, <1>2

LEMMA Rejoins ==
    ASSUME NEW x, Sound(x), NEW k, NEW s \in Session, ClanOf[s] = k[1],
           \A m \in DOMAIN x.parties : LeaderOf(x.parties[m]) # s,
           NEW y \in Rejoin(x, k, s)
    PROVE  Kept(x, y)
<1>1. PICK z \in PartyLeave(x, s) : y = PartyJoined(z, k, s)
  BY DEF Rejoin
<1>2. Parted(x, z, s)
  BY <1>1, PartyLeaves
<1>3. Kept(x, z) /\ z.party[s] = NoParty /\ Sound(z)
  BY <1>2 DEF Parted, Moved, Kept
<1>4. Kept(z, y)
  BY <1>1, <1>3, PartyJoins
<1>5. QED
  BY <1>3, <1>4, KeptOn

-----------------------------------------------------------------------------
(* Back to the parties: a recursion along a line.  It has a chain of sets of  *)
(* worlds, and of the places where a chain goes wrong there would be a first. *)

\* What one of the line does: world y after i - 1 of them is passed on.
BackOf(p, k, i, y) ==
    IF p.waiting[i].live /\ ~IsLeader(p, p.waiting[i].uid)
    THEN Rejoin(y, k, p.waiting[i].uid) ELSE {y}

Unstarted(x, k) == [x EXCEPT !.parties[k].started = FALSE]

BackChain(g, x, k) ==
    g = [i \in 0 .. Len(x.parties[k].waiting) |->
            IF i = 0 THEN {Unstarted(x, k)}
            ELSE UNION {BackOf(x.parties[k], k, i, y) : y \in g[i - 1]}]

AllChain(g, x, ks) ==
    g = [i \in 0 .. Len(ks) |->
            IF i = 0 THEN {x} ELSE UNION {BackToParty(y, ks[i]) : y \in g[i - 1]}]

LEMMA BackByChain ==
    ASSUME NEW x, NEW k, Len(x.parties[k].waiting) \in Nat
    PROVE  \E g : BackChain(g, x, k) /\ BackToParty(x, k) = g[Len(x.parties[k].waiting)]
<1> DEFINE N == Len(x.parties[k].waiting)
           Base == {Unstarted(x, k)}
           Step(ys, i) == UNION {BackOf(x.parties[k], k, i, y) : y \in ys}
           Up(g, m) == g = [i \in 0 .. m |-> IF i = 0 THEN Base ELSE Step(g[i - 1], i)]
           Bad == {m \in 0 .. N : ~ \E g : Up(g, m)}
<1>1. N \in Nat
  OBVIOUS
<1>2. \A g : BackChain(g, x, k) <=> Up(g, N)
  BY DEF BackChain, BackToParty, BackOf, Unstarted
<1>3. BackToParty(x, k) = (CHOOSE g : BackChain(g, x, k))[N]
  BY DEF BackChain, BackToParty, BackOf, Unstarted
<1> HIDE DEF N, Base, Step
<1>4. Bad = {}
  <2>1. SUFFICES ASSUME Bad # {} PROVE FALSE
    OBVIOUS
  <2>2. Bad \in SUBSET Nat
    BY <1>1
  <2>3. PICK m \in Bad : \A y \in Bad : m <= y
    BY <2>1, <2>2, LeastNatural
  <2>4. m \in 0 .. N /\ ~ \E g : Up(g, m)
    BY <2>3
  <2>5. CASE m = 0
    <3>1. [i \in 0 .. 0 |-> Base] = [i \in 0 .. 0 |-> IF i = 0 THEN Base
                                      ELSE Step([j \in 0 .. 0 |-> Base][i - 1], i)]
      OBVIOUS
    <3>2. Up([i \in 0 .. 0 |-> Base], 0)
      BY <3>1
    <3>3. QED
      BY <2>4, <2>5, <3>2
  <2>6. CASE m # 0
    <3>1. m - 1 \in 0 .. N /\ m \in Nat /\ ~(m <= m - 1)
      BY <2>4, <2>6, <1>1
    <3>2. m - 1 \notin Bad
      <4> HIDE DEF Bad
      <4> QED BY <2>3, <3>1
    <3>3. PICK g : Up(g, m - 1)
      BY <3>1, <3>2
    <3> DEFINE h == [i \in 0 .. m |-> IF i = 0 THEN Base ELSE Step(g[i - 1], i)]
    <3>4. \A i \in 0 .. m - 1 : g[i] = IF i = 0 THEN Base ELSE Step(g[i - 1], i)
      BY <3>3
    <3>5. \A i \in 0 .. m - 1 : h[i] = IF i = 0 THEN Base ELSE Step(g[i - 1], i)
      BY <3>1
    <3>6. \A i \in 0 .. m - 1 : h[i] = g[i]
      <4> HIDE DEF h, Bad
      <4> QED BY <3>4, <3>5
    <3>7. \A i \in 0 .. m : i # 0 => h[i - 1] = g[i - 1]
      <4> HIDE DEF h, Bad
      <4> QED BY <3>6, <3>1
    <3>8. h = [i \in 0 .. m |-> IF i = 0 THEN Base ELSE Step(h[i - 1], i)]
      <4> HIDE DEF Bad
      <4>1. \A i \in 0 .. m : (IF i = 0 THEN Base ELSE Step(g[i - 1], i))
                               = (IF i = 0 THEN Base ELSE Step(h[i - 1], i))
        <5> HIDE DEF h
        <5> QED BY <3>7
      <4>2. QED
        BY <4>1
    <3>9. Up(h, m)
      <4> HIDE DEF h
      <4> QED BY <3>8
    <3>10. QED
      BY <2>4, <3>9
  <2>7. QED
    BY <2>5, <2>6
<1>5. \E g : Up(g, N)
  <2>1. N \in 0 .. N /\ N \notin Bad
    <3> HIDE DEF Bad
    <3> QED BY <1>1, <1>4
  <2> HIDE DEF Up
  <2>2. QED
    BY <2>1
<1>6. \E g : BackChain(g, x, k)
  <2> HIDE DEF Up
  <2> QED BY <1>2, <1>5
<1>7. QED
  BY <1>3, <1>6 DEF N

LEMMA AllByChain ==
    ASSUME NEW x, NEW ks, Len(ks) \in Nat
    PROVE  \E g : AllChain(g, x, ks) /\ AllBack(x, ks) = g[Len(ks)]
<1> DEFINE N == Len(ks)
           Base == {x}
           Step(ys, i) == UNION {BackToParty(y, ks[i]) : y \in ys}
           Up(g, m) == g = [i \in 0 .. m |-> IF i = 0 THEN Base ELSE Step(g[i - 1], i)]
           Bad == {m \in 0 .. N : ~ \E g : Up(g, m)}
<1>1. N \in Nat
  OBVIOUS
<1>2. \A g : AllChain(g, x, ks) <=> Up(g, N)
  BY DEF AllChain, AllBack
<1>3. AllBack(x, ks) = (CHOOSE g : AllChain(g, x, ks))[N]
  BY DEF AllChain, AllBack
<1> HIDE DEF N, Base, Step
<1>4. Bad = {}
  <2>1. SUFFICES ASSUME Bad # {} PROVE FALSE
    OBVIOUS
  <2>2. Bad \in SUBSET Nat
    BY <1>1
  <2>3. PICK m \in Bad : \A y \in Bad : m <= y
    BY <2>1, <2>2, LeastNatural
  <2>4. m \in 0 .. N /\ ~ \E g : Up(g, m)
    BY <2>3
  <2>5. CASE m = 0
    <3>1. [i \in 0 .. 0 |-> Base] = [i \in 0 .. 0 |-> IF i = 0 THEN Base
                                      ELSE Step([j \in 0 .. 0 |-> Base][i - 1], i)]
      OBVIOUS
    <3>2. Up([i \in 0 .. 0 |-> Base], 0)
      BY <3>1
    <3>3. QED
      BY <2>4, <2>5, <3>2
  <2>6. CASE m # 0
    <3>1. m - 1 \in 0 .. N /\ m \in Nat /\ ~(m <= m - 1)
      BY <2>4, <2>6, <1>1
    <3>2. m - 1 \notin Bad
      <4> HIDE DEF Bad
      <4> QED BY <2>3, <3>1
    <3>3. PICK g : Up(g, m - 1)
      BY <3>1, <3>2
    <3> DEFINE h == [i \in 0 .. m |-> IF i = 0 THEN Base ELSE Step(g[i - 1], i)]
    <3>4. \A i \in 0 .. m - 1 : g[i] = IF i = 0 THEN Base ELSE Step(g[i - 1], i)
      BY <3>3
    <3>5. \A i \in 0 .. m - 1 : h[i] = IF i = 0 THEN Base ELSE Step(g[i - 1], i)
      BY <3>1
    <3>6. \A i \in 0 .. m - 1 : h[i] = g[i]
      <4> HIDE DEF h, Bad
      <4> QED BY <3>4, <3>5
    <3>7. \A i \in 0 .. m : i # 0 => h[i - 1] = g[i - 1]
      <4> HIDE DEF h, Bad
      <4> QED BY <3>6, <3>1
    <3>8. h = [i \in 0 .. m |-> IF i = 0 THEN Base ELSE Step(h[i - 1], i)]
      <4> HIDE DEF Bad
      <4>1. \A i \in 0 .. m : (IF i = 0 THEN Base ELSE Step(g[i - 1], i))
                               = (IF i = 0 THEN Base ELSE Step(h[i - 1], i))
        <5> HIDE DEF h
        <5> QED BY <3>7
      <4>2. QED
        BY <4>1
    <3>9. Up(h, m)
      <4> HIDE DEF h
      <4> QED BY <3>8
    <3>10. QED
      BY <2>4, <3>9
  <2>7. QED
    BY <2>5, <2>6
<1>5. \E g : Up(g, N)
  <2>1. N \in 0 .. N /\ N \notin Bad
    <3> HIDE DEF Bad
    <3> QED BY <1>1, <1>4
  <2> HIDE DEF Up
  <2>2. QED
    BY <2>1
<1>6. \E g : AllChain(g, x, ks)
  <2> HIDE DEF Up
  <2> QED BY <1>2, <1>5
<1>7. QED
  BY <1>3, <1>6 DEF N

LEMMA KeptWithin ==
    ASSUME NEW x, Sound(x), NEW k \in DOMAIN x.parties,
           NEW q, SoundParty(q), q.waiting = x.parties[k].waiting
    PROVE  LET y == [x EXCEPT !.parties[k] = q]
           IN  Kept(x, y) /\ y.party = x.party
<1> DEFINE y == [x EXCEPT !.parties[k] = q]
<1>1. Sound(y)
  BY PartyChanged
<1>2. y.party = x.party /\ y.parties = [x.parties EXCEPT ![k] = q]
  BY DEF Sound, Complete, ClanWorldFields
<1> HIDE DEF y
<1>3. /\ DOMAIN y.parties = DOMAIN x.parties
      /\ \A m \in DOMAIN x.parties : y.parties[m] = IF m = k THEN q ELSE x.parties[m]
  BY <1>2
<1>4. QED
  BY <1>1, <1>2, <1>3 DEF Kept, LeaderOf, y

LEMMA Leaders ==
    ASSUME NEW x, Sound(x), NEW k \in DOMAIN x.parties
    PROVE  /\ LeaderOf(x.parties[k]) \in LiveIn(x.parties[k].waiting)
           /\ LeaderOf(x.parties[k]) \in Session
           /\ x.parties[k].waiting[1].live
           /\ \A s : IsLeader(x.parties[k], s) <=> LeaderOf(x.parties[k]) = s
<1> DEFINE p == x.parties[k]
<1>1. SoundParty(p)
  BY DEF Sound, Agreeing
<1> HIDE DEF p
<1>2. /\ p.waiting # <<>> /\ Len(p.waiting) \in Nat /\ Len(p.waiting) # 0
      /\ \A i \in 1 .. Len(p.waiting) : p.waiting[i].live /\ p.waiting[i].uid \in Session
      /\ \A t : t \in LiveIn(p.waiting) <=> \E j \in 1 .. Len(p.waiting) : p.waiting[j].uid = t
  BY <1>1, LineFacts DEF SoundParty
<1>3. 1 \in 1 .. Len(p.waiting)
  BY <1>2
<1>4. QED
  BY <1>2, <1>3 DEF LeaderOf, IsLeader, p

LEMMA BackKept ==
    ASSUME NEW x, Sound(x), NEW k \in DOMAIN x.parties
    PROVE  \A y \in BackToParty(x, k) : Kept(x, y)
<1> DEFINE p == x.parties[k]
           N == Len(p.waiting)
<1>1. SoundParty(p) /\ N \in Nat
  BY LineFacts DEF Sound, Agreeing, SoundParty
<1>2. PICK g : BackChain(g, x, k) /\ BackToParty(x, k) = g[N]
  BY <1>1, BackByChain
<1>3. /\ g[0] = {Unstarted(x, k)}
      /\ \A i \in 1 .. N : g[i] = UNION {BackOf(p, k, i, y) : y \in g[i - 1]}
  <2>1. \A i \in 0 .. N : g[i] = IF i = 0 THEN {Unstarted(x, k)}
                                  ELSE UNION {BackOf(p, k, i, y) : y \in g[i - 1]}
    BY <1>2, Zenon DEF BackChain
  <2> HIDE DEF N, p
  <2>2. 0 \in 0 .. N /\ \A i \in 1 .. N : i \in 0 .. N /\ i # 0
    BY <1>1
  <2>3. QED
    BY <2>1, <2>2, Zenon
<1>4. Kept(x, Unstarted(x, k))
  <2> DEFINE q == [p EXCEPT !.started = FALSE]
  <2>1. SoundParty(q) /\ q.waiting = p.waiting
    BY <1>1, FlagsChanged
  <2>2. Unstarted(x, k) = [x EXCEPT !.parties[k] = q]
    BY DEF Unstarted
  <2> HIDE DEF q
  <2>3. QED
    BY <2>1, <2>2, KeptWithin
<1>5. ASSUME NEW i \in 1 .. N, NEW y, Kept(x, y), NEW z \in BackOf(p, k, i, y)
      PROVE  Kept(x, z)
  <2> DEFINE s == p.waiting[i].uid
  <2>1. CASE ~(p.waiting[i].live /\ ~IsLeader(p, s))
    BY <1>5, <2>1 DEF BackOf
  <2>2. CASE p.waiting[i].live /\ ~IsLeader(p, s)
    <3>1. z \in Rejoin(y, k, s)
      BY <2>2 DEF BackOf
    <3>2. s \in Session /\ s \in LiveIn(p.waiting)
      BY <1>1, LineFacts DEF SoundParty
    <3> HIDE DEF s
    <3>3. k = KeyOf(x, s)
      BY <3>2, WhoWaits
    <3>4. ClanOf[s] = k[1]
      BY <3>3 DEF KeyOf
    <3>5. \A m \in DOMAIN x.parties : LeaderOf(x.parties[m]) # s
      <4> SUFFICES ASSUME NEW m \in DOMAIN x.parties, LeaderOf(x.parties[m]) = s PROVE FALSE
        OBVIOUS
      <4>1. s \in LiveIn(x.parties[m].waiting)
        BY Leaders
      <4>2. m = k
        BY <4>1, <3>2, <3>3, WhoWaits
      <4>3. QED
        BY <4>2, <2>2, Leaders
    <3>6. \A m \in DOMAIN y.parties : LeaderOf(y.parties[m]) # s
      BY <1>5, <3>5 DEF Kept
    <3>7. Sound(y)
      BY <1>5 DEF Kept
    <3>8. Kept(y, z)
      BY <3>1, <3>2, <3>4, <3>6, <3>7, Rejoins
    <3>9. QED
      BY <1>5, <3>8, KeptOn
  <2>3. QED
    BY <2>1, <2>2
<1> DEFINE Bad == {i \in 0 .. N : \E y \in g[i] : ~Kept(x, y)}
<1>6. Bad = {}
  <2> SUFFICES ASSUME Bad # {} PROVE FALSE
    OBVIOUS
  <2>1. Bad \in SUBSET Nat
    BY <1>1
  <2>2. PICK i \in Bad : \A j \in Bad : i <= j
    BY <2>1, LeastNatural
  <2>3. PICK z \in g[i] : ~Kept(x, z)
    BY <2>2
  <2>4. i # 0
    BY <2>3, <1>3, <1>4
  <2> HIDE DEF N
  <2>5. i \in 1 .. N /\ i - 1 \in 0 .. N /\ ~(i <= i - 1)
    BY <2>2, <2>4, <1>1
  <2>6. PICK y \in g[i - 1] : z \in BackOf(p, k, i, y)
    BY <2>3, <2>5, <1>3
  <2>7. i - 1 \notin Bad
    <3> HIDE DEF Bad
    <3> QED BY <2>2, <2>5
  <2>8. Kept(x, y)
    BY <2>5, <2>6, <2>7
  <2>9. QED
    BY <2>3, <2>5, <2>6, <2>8, <1>5
<1>7. N \in 0 .. N /\ N \notin Bad
  <2> HIDE DEF Bad, N
  <2> QED BY <1>1, <1>6
<1> HIDE DEF N
<1>8. QED
  BY <1>2, <1>7

LEMMA AllKept ==
    ASSUME NEW x, Sound(x), NEW ks, Len(ks) \in Nat,
           \A i \in 1 .. Len(ks) : ks[i] \in DOMAIN x.parties
    PROVE  \A y \in AllBack(x, ks) : Kept(x, y)
<1> DEFINE N == Len(ks)
<1>1. PICK g : AllChain(g, x, ks) /\ AllBack(x, ks) = g[N]
  BY AllByChain
<1>2. /\ g[0] = {x}
      /\ \A i \in 1 .. N : g[i] = UNION {BackToParty(y, ks[i]) : y \in g[i - 1]}
  <2>1. \A i \in 0 .. N : g[i] = IF i = 0 THEN {x}
                                  ELSE UNION {BackToParty(y, ks[i]) : y \in g[i - 1]}
    BY <1>1, Zenon DEF AllChain
  <2>2. 0 \in 0 .. N /\ \A i \in 1 .. N : i \in 0 .. N /\ i # 0
    OBVIOUS
  <2> HIDE DEF N
  <2>3. QED
    BY <2>1, <2>2, Zenon
<1>3. Kept(x, x)
  BY DEF Kept
<1>4. ASSUME NEW i \in 1 .. N, NEW y, Kept(x, y), NEW z \in BackToParty(y, ks[i])
      PROVE  Kept(x, z)
  <2>1. Sound(y) /\ ks[i] \in DOMAIN y.parties
    BY <1>4 DEF Kept
  <2>2. Kept(y, z)
    BY <1>4, <2>1, BackKept
  <2>3. QED
    BY <1>4, <2>2, KeptOn
<1> DEFINE Bad == {i \in 0 .. N : \E y \in g[i] : ~Kept(x, y)}
<1>5. N \in Nat
  OBVIOUS
<1>6. Bad = {}
  <2> SUFFICES ASSUME Bad # {} PROVE FALSE
    OBVIOUS
  <2>1. Bad \in SUBSET Nat
    BY <1>5
  <2>2. PICK i \in Bad : \A j \in Bad : i <= j
    BY <2>1, LeastNatural
  <2>3. PICK z \in g[i] : ~Kept(x, z)
    BY <2>2
  <2>4. i # 0
    BY <2>3, <1>2, <1>3
  <2> HIDE DEF N
  <2>5. i \in 1 .. N /\ i - 1 \in 0 .. N /\ ~(i <= i - 1)
    BY <2>2, <2>4, <1>5
  <2>6. PICK y \in g[i - 1] : z \in BackToParty(y, ks[i])
    BY <2>3, <2>5, <1>2
  <2>7. i - 1 \notin Bad
    <3> HIDE DEF Bad
    <3> QED BY <2>2, <2>5
  <2>8. Kept(x, y)
    BY <2>5, <2>6, <2>7
  <2>9. QED
    BY <2>3, <2>5, <2>6, <2>8, <1>4
<1>7. N \in 0 .. N /\ N \notin Bad
  <2> HIDE DEF Bad, N
  <2> QED BY <1>5, <1>6
<1> HIDE DEF N
<1>8. QED
  BY <1>1, <1>7

-----------------------------------------------------------------------------
(* The actions. *)

PartiesAgreed == Agreeing(parties, partyNum)

\* What LeaderKeepsParty asks of two tables of parties.
KeepsLeads(ps, qs) ==
    \A k \in DOMAIN ps \cap DOMAIN qs :
        LeaderOf(ps[k]) \in LiveIn(qs[k].waiting) => LeaderOf(qs[k]) = LeaderOf(ps[k])

LEMMA ClanNowFields ==
    /\ Complete(ClanNow)
    /\ ClanNow.parties = parties /\ ClanNow.party = partyNum
    /\ PartiesAgreed <=> Sound(ClanNow)
<1>1. Complete(ClanNow)
  BY DEF ClanNow, Complete, ClanWorldFields
<1>2. ClanNow.parties = parties /\ ClanNow.party = partyNum
  BY DEF ClanNow
<1>3. QED
  BY <1>1, <1>2 DEF PartiesAgreed, Sound

LEMMA ClanBecomes ==
    ASSUME NEW x, Sound(x), ClanBecome(x)
    PROVE  PartiesAgreed' /\ parties' = x.parties /\ partyNum' = x.party
BY DEF ClanBecome, PartiesAgreed, Sound

LEMMA KeptKeeps ==
    ASSUME NEW x, NEW y, Kept(x, y)
    PROVE  KeepsLeads(x.parties, y.parties)
BY DEF Kept, KeepsLeads

LEMMA PartedKeeps ==
    ASSUME NEW x, Sound(x), NEW s \in Session, NEW y, Parted(x, y, s)
    PROVE  KeepsLeads(x.parties, y.parties)
<1> SUFFICES ASSUME NEW k \in DOMAIN x.parties \cap DOMAIN y.parties,
                    LeaderOf(x.parties[k]) \in LiveIn(y.parties[k].waiting)
             PROVE  LeaderOf(y.parties[k]) = LeaderOf(x.parties[k])
  BY DEF KeepsLeads
<1>1. Sound(y) /\ y.party[s] = NoParty
  BY DEF Parted, Moved
<1>2. s \notin LiveIn(y.parties[k].waiting)
  <2>1. s \in LiveIn(y.parties[k].waiting) => k = KeyOf(y, s)
    BY <1>1, WhoWaits
  <2>2. ~HasParty(y, s)
    BY <1>1, WhoWaits
  <2>3. QED
    BY <2>1, <2>2 DEF HasParty
<1>3. QED
  BY <1>2 DEF Parted, Moved

LEMMA JoinPartyStep ==
    ASSUME PartiesAgreed, NEW s \in Session, NEW k, JoinParty(s, k)
    PROVE  PartiesAgreed' /\ KeepsLeads(parties, parties')
<1> DEFINE x == ClanNow
           y == PartyJoined(ClanNow, k, s)
<1>1. Sound(x) /\ x.parties = parties /\ x.party = partyNum
  BY ClanNowFields
<1>2. x.party[s] = NoParty /\ ClanOf[s] = k[1] /\ ClanBecome(y)
  BY <1>1 DEF JoinParty
<1>3. Kept(x, y)
  BY <1>1, <1>2, PartyJoins
<1> HIDE DEF x, y
<1>4. Sound(y)
  BY <1>3 DEF Kept
<1>5. QED
  BY <1>1, <1>2, <1>3, <1>4, ClanBecomes, KeptKeeps

LEMMA LeavePartyStep ==
    ASSUME PartiesAgreed, NEW s \in Session, LeaveParty(s)
    PROVE  PartiesAgreed' /\ KeepsLeads(parties, parties')
<1>1. Sound(ClanNow) /\ ClanNow.parties = parties
  BY ClanNowFields
<1>2. PICK y \in PartyLeave(ClanNow, s) : ClanBecome(y)
  BY DEF LeaveParty
<1>3. Parted(ClanNow, y, s)
  BY <1>1, <1>2, PartyLeaves
<1>4. Sound(y)
  BY <1>3 DEF Parted, Moved
<1>5. KeepsLeads(ClanNow.parties, y.parties)
  BY <1>1, <1>3, PartedKeeps
<1>6. QED
  BY <1>1, <1>2, <1>4, <1>5, ClanBecomes

LEMMA LeaveClanRoomStep ==
    ASSUME PartiesAgreed, NEW s \in Session, LeaveClanRoom(s)
    PROVE  PartiesAgreed' /\ KeepsLeads(parties, parties')
<1>1. Sound(ClanNow) /\ ClanNow.parties = parties
  BY ClanNowFields
<1>2. PICK y \in ClanRoomLeft(ClanNow, s) : ClanBecome(y)
  BY DEF LeaveClanRoom
<1>3. SameParties(ClanNow, y) \/ Parted(ClanNow, y, s)
  BY <1>1, <1>2, ClanRoomLeaves
<1>4. Sound(y) /\ KeepsLeads(ClanNow.parties, y.parties)
  <2>1. CASE SameParties(ClanNow, y)
    BY <1>1, <2>1, KeptSame, KeptKeeps DEF Kept
  <2>2. CASE Parted(ClanNow, y, s)
    BY <1>1, <2>2, PartedKeeps DEF Parted, Moved
  <2>3. QED
    BY <1>3, <2>1, <2>2
<1>5. QED
  BY <1>1, <1>2, <1>4, ClanBecomes

\* A leader who leaves the match is the one exception.
LEMMA LeaveClanMatchStep ==
    ASSUME PartiesAgreed, NEW s \in Session, LeaveClanMatch(s)
    PROVE  /\ PartiesAgreed'
           /\ \A k \in DOMAIN parties \cap DOMAIN parties' :
                 LeaderOf(parties[k]) # s => LeaderOf(parties'[k]) = LeaderOf(parties[k])
<1>1. Sound(ClanNow) /\ ClanNow.parties = parties
  BY ClanNowFields
<1>2. PICK y \in ClanMatchLeft(ClanNow, s) : ClanBecome(y)
  BY DEF LeaveClanMatch
<1>3. Moved(ClanNow, y, s)
  BY <1>1, <1>2, ClanMatchLeaves
<1>4. Sound(y)
  BY <1>3 DEF Moved
<1>5. PartiesAgreed' /\ parties' = y.parties
  BY <1>2, <1>4, ClanBecomes
<1>6. QED
  BY <1>1, <1>3, <1>5 DEF Moved

LEMMA UpdatePartyStep ==
    ASSUME PartiesAgreed, NEW s \in Session, HasParty(ClanNow, s),
           NEW q, SoundParty(q), LiveIn(q.waiting) = LiveIn(PartyOf(ClanNow, s).waiting),
           LeaderOf(PartyOf(ClanNow, s)) # s => LeaderOf(q) = LeaderOf(PartyOf(ClanNow, s)),
           UpdateParty(s, q)
    PROVE  /\ PartiesAgreed' /\ DOMAIN parties' = DOMAIN parties
           /\ parties' = [parties EXCEPT ![KeyOf(ClanNow, s)] = q]
           /\ \A k \in DOMAIN parties :
                 LeaderOf(parties[k]) # s => LeaderOf(parties'[k]) = LeaderOf(parties[k])
<1> DEFINE x == ClanNow
           k == KeyOf(x, s)
           y == [x EXCEPT !.parties[k] = q]
<1>1. Sound(x) /\ x.parties = parties /\ x.party = partyNum /\ Complete(x)
  BY ClanNowFields
<1>2. k \in DOMAIN x.parties /\ PartyOf(x, s) = x.parties[k]
  BY DEF HasParty, PartyOf
<1>3. parties' = [parties EXCEPT ![k] = q] /\ partyNum' = partyNum
  BY DEF UpdateParty
<1> HIDE DEF x, k
<1>4. y.parties = [parties EXCEPT ![k] = q] /\ y.party = partyNum
  BY <1>1 DEF Complete, ClanWorldFields
<1>5. /\ SoundParty(q) /\ LiveIn(q.waiting) = LiveIn(x.parties[k].waiting)
      /\ LeaderOf(x.parties[k]) # s => LeaderOf(q) = LeaderOf(x.parties[k])
  BY <1>2 DEF x
<1>6. Moved(x, y, s) /\ DOMAIN y.parties = DOMAIN x.parties
  BY <1>1, <1>2, <1>5, MovedWithin
<1> HIDE DEF y
<1>7. QED
  BY <1>1, <1>3, <1>4, <1>6 DEF Moved, Sound, PartiesAgreed, x, k

LEMMA SetSizeStep ==
    ASSUME PartiesAgreed, NEW s \in Session, NEW n \in Sizes, SetSize(s, n)
    PROVE  PartiesAgreed' /\ KeepsLeads(parties, parties')
<1> DEFINE p == PartyOf(ClanNow, s)
           q == [p EXCEPT !.max = n]
<1>1. Sound(ClanNow) /\ ClanNow.parties = parties
  BY ClanNowFields
<1>2. HasParty(ClanNow, s) /\ UpdateParty(s, q)
  BY DEF SetSize, Leading
<1>3. SoundParty(p) /\ p = parties[KeyOf(ClanNow, s)] /\ KeyOf(ClanNow, s) \in DOMAIN parties
  BY <1>1, <1>2, WhoWaits DEF PartyOf, HasParty
<1> HIDE DEF p
<1>4. p \in Party /\ p.waiting # <<>> /\ p.num = Len(p.waiting) /\ Line(p.waiting)
  BY <1>3 DEF SoundParty
<1>5. n \in 1 .. 15
  BY ClansAssumption
<1>6. q \in Party /\ q.waiting = p.waiting /\ q.num = p.num
  BY <1>4, <1>5 DEF Party
<1> HIDE DEF q
<1>7. SoundParty(q) /\ LeaderOf(q) = LeaderOf(p)
  BY <1>4, <1>6 DEF SoundParty, LeaderOf
<1>8. PartiesAgreed' /\ parties' = [parties EXCEPT ![KeyOf(ClanNow, s)] = q]
  BY <1>2, <1>6, <1>7, UpdatePartyStep DEF p
<1>9. \A k \in DOMAIN parties : LeaderOf(parties'[k]) = LeaderOf(parties[k])
  BY <1>3, <1>7, <1>8
<1>10. QED
  BY <1>8, <1>9 DEF KeepsLeads

LEMMA RegisterStep ==
    ASSUME PartiesAgreed, NEW s \in Session, Register(s)
    PROVE  PartiesAgreed' /\ KeepsLeads(parties, parties')
<1> DEFINE p == PartyOf(ClanNow, s)
           b == ~p.registered
           q == [p EXCEPT !.registered = b]
<1>1. Sound(ClanNow) /\ ClanNow.parties = parties
  BY ClanNowFields
<1>2. HasParty(ClanNow, s) /\ UpdateParty(s, q)
  BY DEF Register, Leading
<1>3. SoundParty(p) /\ p = parties[KeyOf(ClanNow, s)] /\ KeyOf(ClanNow, s) \in DOMAIN parties
  BY <1>1, <1>2, WhoWaits DEF PartyOf, HasParty
<1>4. b \in BOOLEAN
  OBVIOUS
<1> HIDE DEF p, b
<1>5. SoundParty(q) /\ q.waiting = p.waiting
  BY <1>3, <1>4, FlagsChanged
<1> HIDE DEF q
<1>6. LeaderOf(q) = LeaderOf(p)
  BY <1>5 DEF LeaderOf
<1>7. PartiesAgreed' /\ parties' = [parties EXCEPT ![KeyOf(ClanNow, s)] = q]
  BY <1>2, <1>5, <1>6, UpdatePartyStep DEF p
<1>8. \A k \in DOMAIN parties : LeaderOf(parties'[k]) = LeaderOf(parties[k])
  BY <1>3, <1>6, <1>7
<1>9. QED
  BY <1>7, <1>8 DEF KeepsLeads

\* The leader who hands the lead on is the other exception.
LEMMA ChangeLeaderStep ==
    ASSUME PartiesAgreed, NEW s \in Session, NEW i, ChangeLeader(s, i)
    PROVE  /\ PartiesAgreed'
           /\ \A k \in DOMAIN parties :
                 LeaderOf(parties[k]) # s => LeaderOf(parties'[k]) = LeaderOf(parties[k])
<1> DEFINE p == PartyOf(ClanNow, s)
           q == ChangedLeader(p, i)
<1>1. Sound(ClanNow) /\ ClanNow.parties = parties
  BY ClanNowFields
<1>2. HasParty(ClanNow, s) /\ UpdateParty(s, q) /\ CanLead(p, i) /\ IsLeader(p, s)
  BY DEF ChangeLeader, Leading
<1>3. SoundParty(p) /\ LeaderOf(p) = s
  BY <1>1, <1>2, WhoWaits DEF IsLeader, LeaderOf
<1> HIDE DEF p
<1>4. Line(p.waiting) /\ Len(p.waiting) \in Nat
  BY <1>3, LineFacts DEF SoundParty
<1>5. i \in 1 .. Len(p.waiting)
  BY <1>2, <1>4 DEF CanLead
<1> DEFINE w == SwapHost(p.waiting, i)
<1>6. Line(w) /\ Len(w) = Len(p.waiting) /\ LiveIn(w) = LiveIn(p.waiting)
  BY <1>4, <1>5, SwappedLine
<1>7. q = [p EXCEPT !.waiting = w]
  BY DEF ChangedLeader
<1> HIDE DEF w, q
<1>8. SoundParty(q) /\ q.waiting = w
  BY <1>3, <1>6, <1>7, LineReplaced
<1>9. QED
  BY <1>2, <1>3, <1>6, <1>8, UpdatePartyStep DEF p

LEMMA ClanConnectStep ==
    ASSUME PartiesAgreed, NEW s \in Session, ClanConnect(s)
    PROVE  PartiesAgreed' /\ parties' = parties
BY DEF ClanConnect, PartiesAgreed

\* What a session that waits nowhere leaves behind has no place in any party.
LEMMA GoneParties ==
    ASSUME NEW z, Sound(z), NEW s \in Session, z.party[s] = NoParty
    PROVE  SameParties(z, Gone(z, s))
<1> DEFINE ps == z.parties
           qs == [k \in DOMAIN ps |-> Lapsed(ps[k], s)]
           pn == [z.party EXCEPT ![s] = NoParty]
<1>1. Complete(Gone(z, s)) /\ Gone(z, s).parties = qs /\ Gone(z, s).party = pn
  BY DEF Sound, Gone, Destroyed, Complete, ClanWorldFields
<1>2. ps \in [DOMAIN ps -> Party] /\ z.party \in [Session -> 0 .. MaxParties]
  BY DEF Sound, Agreeing
<1>3. pn = z.party
  BY <1>2
<1>4. ASSUME NEW k \in DOMAIN ps PROVE qs[k] = ps[k]
  <2> DEFINE w == ps[k].waiting
             v == [i \in DOMAIN w |-> [w[i] EXCEPT !.live = w[i].live /\ w[i].uid # s]]
  <2>1. SoundParty(ps[k]) /\ ps[k] \in Party /\ Line(w)
    BY DEF Sound, Agreeing, SoundParty
  <2>2. s \notin LiveIn(w)
    <3>1. s \in LiveIn(w) => k = KeyOf(z, s)
      BY WhoWaits
    <3>2. ~HasParty(z, s)
      BY WhoWaits
    <3>3. QED
      BY <3>1, <3>2 DEF HasParty
  <2>3. qs[k] = [ps[k] EXCEPT !.waiting = v]
    BY DEF Lapsed
  <2> HIDE DEF ps, qs
  <2>4. w \in Seq(Waiter) /\ DOMAIN w = 1 .. Len(w)
        /\ \A i \in 1 .. Len(w) : w[i].uid # s /\ w[i].live /\ w[i] \in Waiter
    BY <2>1, <2>2, LineFacts
  <2>5. v = w
    <3> HIDE DEF w
    <3>1. \A i \in 1 .. Len(w) : [w[i] EXCEPT !.live = w[i].live /\ w[i].uid # s] = w[i]
      BY <2>4 DEF Waiter
    <3>2. v = [i \in 1 .. Len(w) |-> w[i]] /\ w = [i \in 1 .. Len(w) |-> w[i]]
      BY <2>4, <3>1
    <3> QED BY <3>2
  <2> HIDE DEF v
  <2>6. [ps[k] EXCEPT !.waiting = w] = ps[k]
    BY <2>1 DEF Party
  <2>7. QED
    BY <2>3, <2>5, <2>6
<1>5. qs = ps
  <2> HIDE DEF ps
  <2>1. DOMAIN qs = DOMAIN ps /\ qs = [k \in DOMAIN ps |-> qs[k]]
    OBVIOUS
  <2>2. ps = [k \in DOMAIN ps |-> ps[k]]
    BY <1>2
  <2> HIDE DEF qs
  <2>3. QED
    BY <1>4, <2>1, <2>2
<1> HIDE DEF ps, qs, pn
<1>6. QED
  BY <1>1, <1>3, <1>5 DEF SameParties, ps

\* The match, then the room, then the party; what the session leaves behind has
\* no place in any party.
LEMMA ClanDisconnectStep ==
    ASSUME PartiesAgreed, NEW s \in Session, ClanDisconnect(s)
    PROVE  PartiesAgreed' /\ KeepsLeads(parties, parties')
<1>1. Sound(ClanNow) /\ ClanNow.parties = parties
  BY ClanNowFields
<1>2. PICK x \in IF roomNum[s] # NoNumber /\ InMatch(pstate[s])
                 THEN ClanMatchLeft(ClanNow, s) ELSE {ClanNow} :
           \E y \in IF roomNum[s] # NoNumber THEN ClanRoomLeft(x, s) ELSE {x} :
           \E z \in IF y.party[s] # NoParty THEN PartyLeave(y, s) ELSE {y} :
              ClanBecome(Gone(z, s))
  BY DEF ClanDisconnect
<1>3. PICK y \in IF roomNum[s] # NoNumber THEN ClanRoomLeft(x, s) ELSE {x} :
           \E z \in IF y.party[s] # NoParty THEN PartyLeave(y, s) ELSE {y} :
              ClanBecome(Gone(z, s))
  BY <1>2
<1>4. PICK z \in IF y.party[s] # NoParty THEN PartyLeave(y, s) ELSE {y} : ClanBecome(Gone(z, s))
  BY <1>3
<1>5. Moved(ClanNow, x, s)
  <2>1. SameParties(ClanNow, ClanNow)
    BY <1>1 DEF SameParties, Sound
  <2>2. CASE x = ClanNow
    BY <1>1, <2>1, <2>2, MovedSame
  <2>3. CASE x \in ClanMatchLeft(ClanNow, s)
    BY <1>1, <2>3, ClanMatchLeaves
  <2>4. QED
    BY <1>2, <2>2, <2>3
<1>6. Sound(x)
  BY <1>5 DEF Moved
<1>7. Moved(x, y, s)
  <2>1. SameParties(x, x)
    BY <1>6 DEF SameParties, Sound
  <2>2. CASE y = x
    BY <1>6, <2>1, <2>2, MovedSame
  <2>3. CASE y \in ClanRoomLeft(x, s)
    BY <1>6, <2>3, ClanRoomLeaves, MovedSame DEF Parted
  <2>4. QED
    BY <1>3, <2>2, <2>3
<1>8. Sound(y)
  BY <1>7 DEF Moved
<1>9. Parted(y, z, s)
  <2>1. SameParties(y, y)
    BY <1>8 DEF SameParties, Sound
  <2>2. CASE y.party[s] = NoParty
    <3>1. z = y
      BY <1>4, <2>2
    <3>2. QED
      BY <1>8, <2>1, <2>2, <3>1, MovedSame DEF Parted
  <2>3. CASE y.party[s] # NoParty
    BY <1>4, <1>8, <2>3, PartyLeaves
  <2>4. QED
    BY <2>2, <2>3
<1>10. Parted(ClanNow, z, s)
  BY <1>5, <1>7, <1>9, MovedOn DEF Parted
<1>11. Sound(z) /\ Complete(z) /\ z.party[s] = NoParty
  BY <1>10 DEF Parted, Moved, Sound
<1>12. SameParties(z, Gone(z, s))
  BY <1>11, GoneParties
<1>13. Sound(Gone(z, s))
  BY <1>11, <1>12, SameGood
<1>14. KeepsLeads(ClanNow.parties, z.parties)
  BY <1>1, <1>10, PartedKeeps
<1>15. QED
  BY <1>1, <1>4, <1>12, <1>13, <1>14, ClanBecomes DEF SameParties

LEMMA FirstInLine ==
    ASSUME NEW e \in Waiter
    PROVE  LET w == Append(<<>>, e)
           IN  w \in Seq(Waiter) /\ Len(w) = 1 /\ DOMAIN w = {1} /\ w[1] = e /\ w # <<>>
<1> DEFINE w == Append(<<>>, e)
<1>1. <<>> \in Seq(Waiter) /\ Len(<<>>) = 0
  OBVIOUS
<1>2. w \in Seq(Waiter) /\ Len(w) = 1 /\ w[1] = e
  BY <1>1
<1> HIDE DEF w
<1>3. DOMAIN w = 1 .. Len(w)
  BY <1>2
<1>4. DOMAIN w = {1}
  BY <1>2, <1>3
<1>5. w # <<>>
  <2>1. Len(w) # 0
    BY <1>2
  <2>2. QED
    BY <1>1, <2>1, Zenon
<1>6. QED
  BY <1>2, <1>4, <1>5 DEF w

LEMMA CreatePartyStep ==
    ASSUME PartiesAgreed, NEW s \in Session, CreateParty(s)
    PROVE  PartiesAgreed' /\ KeepsLeads(parties, parties')
<1> DEFINE x == ClanNow
           free == FreeNumbers(ClanOf[s])
           i == CHOOSE j \in free : \A m \in free : j <= m
           k == <<ClanOf[s], i>>
           z == PartyMade(x, k)
           y == AddedToParty(z, k, s)
           ps == x.parties
           p == z.parties[k]
           w == Append(p.waiting, [uid |-> s, live |-> TRUE])
           q == [p EXCEPT !.waiting = w, !.num = @ + 1]
<1>1. Sound(x) /\ Complete(x) /\ x.parties = parties /\ x.party = partyNum
  BY ClanNowFields
<1>2. free # {} /\ ClanBecome(y) /\ x.party[s] = NoParty
  BY <1>1 DEF CreateParty
<1>3. i \in 1 .. MaxParties /\ k \notin DOMAIN ps
  <2>1. free \in SUBSET Nat
    BY DEF FreeNumbers
  <2>2. \E j \in free : \A m \in free : j <= m
    BY <1>2, <2>1, LeastNatural
  <2>3. i \in free
    <3> HIDE DEF free
    <3> QED BY <2>2
  <2>4. QED
    BY <1>1, <2>3 DEF FreeNumbers
<1> HIDE DEF free, i
<1>4. k \in Key /\ ClanOf[s] = k[1] /\ k[2] = i /\ MaxParties \in Nat
  BY <1>3, Keys, ClansAssumption
<1>5. /\ Complete(z) /\ z.party = x.party
      /\ z.parties = [m \in DOMAIN ps \cup {k} |-> IF m = k THEN NewParty ELSE ps[m]]
  BY <1>1 DEF PartyMade, Complete, ClanWorldFields
<1> HIDE DEF z
<1>6. /\ DOMAIN z.parties = DOMAIN ps \cup {k} /\ z.parties[k] = NewParty
      /\ \A m \in DOMAIN ps : z.parties[m] = ps[m]
  BY <1>3, <1>5
<1> DEFINE qs == z.parties
<1>7. Complete(z) /\ k \in DOMAIN qs
  BY <1>5, <1>6
<1>8. /\ Complete(y)
      /\ y.party = [x.party EXCEPT ![s] = i]
      /\ y.parties = [qs EXCEPT ![k] = q]
  <2>1. /\ Complete(y)
        /\ y.party = [z.party EXCEPT ![s] = k[2]]
        /\ y.parties = [qs EXCEPT ![k] = q]
    <3> HIDE DEF k
    <3> QED BY <1>7 DEF AddedToParty, Complete, ClanWorldFields
  <2>2. QED
    BY <2>1, <1>4, <1>5
<1> HIDE DEF y, q
<1>17. p = [waiting |-> <<>>, num |-> 0, max |-> PartySize, registered |-> FALSE, started |-> FALSE]
  BY <1>6 DEF NewParty
<1>9. /\ w \in Seq(Waiter) /\ Len(w) = 1 /\ DOMAIN w = {1} /\ w[1] = [uid |-> s, live |-> TRUE]
      /\ w # <<>>
  <2> DEFINE e == [uid |-> s, live |-> TRUE]
  <2>1. e \in Waiter
    BY DEF Waiter
  <2>2. p.waiting = <<>>
    BY <1>17
  <2> HIDE DEF p, e
  <2>3. w = Append(<<>>, e)
    BY <2>2 DEF e
  <2> HIDE DEF w
  <2>4. w \in Seq(Waiter) /\ Len(w) = 1 /\ DOMAIN w = {1} /\ w[1] = e /\ w # <<>>
    BY <2>1, <2>3, FirstInLine
  <2>5. QED
    BY <2>4 DEF e
<1> HIDE DEF p, w
<1>10. SoundParty(q) /\ LiveIn(q.waiting) = {s}
  <2>1. q = [waiting |-> w, num |-> 1, max |-> PartySize, registered |-> FALSE, started |-> FALSE]
    <3> DEFINE n == p.num + 1
    <3>1. q = [p EXCEPT !.waiting = w, !.num = n]
      BY DEF q
    <3>2. n = 1
      BY <1>17
    <3> HIDE DEF n
    <3>3. QED
      BY <1>17, <3>1, <3>2
  <2>7. /\ q.waiting = w /\ q.num = 1 /\ q.max = PartySize
        /\ q.registered = FALSE /\ q.started = FALSE
    BY <2>1
  <2>2. PartySize \in 1 .. 15
    BY ClansAssumption
  <2>3. q \in Party
    <3>1. /\ q.waiting \in Seq(Waiter) /\ q.num \in 0 .. 15 /\ q.max \in 1 .. 15
          /\ q.registered \in BOOLEAN /\ q.started \in BOOLEAN
      <4>1. q.waiting \in Seq(Waiter)
        BY <1>9, <2>7
      <4>2. q.num \in 0 .. 15 /\ q.max \in 1 .. 15
        BY <2>2, <2>7
      <4>3. q.registered \in BOOLEAN /\ q.started \in BOOLEAN
        BY <2>7
      <4>4. QED
        BY <4>1, <4>2, <4>3
    <3>2. q = [waiting |-> q.waiting, num |-> q.num, max |-> q.max,
               registered |-> q.registered, started |-> q.started]
      BY <2>1, <2>7
    <3>3. QED
      BY ONLY <3>1, <3>2, PartyFields
  <2>4. Line(w)
    BY <1>9 DEF Line
  <2>5. LiveIn(w) = {s}
    BY <1>9, LiveMember
  <2>6. QED
    BY <1>9, <2>7, <2>3, <2>4, <2>5 DEF SoundParty
<1> HIDE DEF q
<1>11. /\ DOMAIN y.parties = DOMAIN ps \cup {k} /\ y.parties[k] = q
       /\ \A m \in DOMAIN ps : y.parties[m] = ps[m]
  BY <1>3, <1>6, <1>8
<1>12. Agreeing(ps, x.party)
  BY <1>1 DEF Sound
<1>13. Agreeing(y.parties, y.party)
  <2>1. /\ DOMAIN y.parties \subseteq Key
        /\ \A m \in DOMAIN y.parties : SoundParty(y.parties[m])
    BY <1>4, <1>10, <1>11, <1>12 DEF Agreeing
  <2>2. y.parties \in [DOMAIN y.parties -> Party]
    BY <1>8, <1>11, <2>1 DEF SoundParty
  <2>3. y.party \in [Session -> 0 .. MaxParties]
    BY <1>3, <1>4, <1>8, <1>12 DEF Agreeing
  <2>4. ASSUME NEW t \in Session, NEW m \in Key
        PROVE  m = <<ClanOf[t], y.party[t]>> <=> m \in DOMAIN y.parties /\ t \in LiveIn(y.parties[m].waiting)
    <3>1. m = <<ClanOf[t], x.party[t]>> <=> m \in DOMAIN ps /\ t \in LiveIn(ps[m].waiting)
      BY <1>12 DEF Agreeing
    <3>2. y.party[t] = IF t = s THEN i ELSE x.party[t]
      BY <1>8, <1>12 DEF Agreeing
    <3>3. CASE t = s
      <4>1. <<ClanOf[t], y.party[t]>> = k
        BY <3>2, <3>3
      <4>2. ~(m \in DOMAIN ps /\ t \in LiveIn(ps[m].waiting))
        <5>1. ~HasParty(x, s)
          BY <1>1, <1>2, WhoWaits
        <5>2. m \in DOMAIN ps /\ s \in LiveIn(ps[m].waiting) => m = KeyOf(x, s)
          BY <1>1, WhoWaits
        <5>3. QED
          BY <3>3, <5>1, <5>2 DEF HasParty
      <4>3. QED
        BY <3>3, <4>1, <4>2, <1>10, <1>11
    <3>4. CASE t # s
      <4>1. <<ClanOf[t], y.party[t]>> = <<ClanOf[t], x.party[t]>>
        BY <3>2, <3>4
      <4>2. m = k => t \notin LiveIn(y.parties[m].waiting)
        BY <3>4, <1>10, <1>11
      <4>3. QED
        BY <4>1, <4>2, <3>1, <1>3, <1>11
    <3>5. QED
      BY <3>3, <3>4
  <2> HIDE DEF k
  <2>5. QED
    BY <2>1, <2>2, <2>3, <2>4 DEF Agreeing
<1>14. Sound(y)
  BY <1>8, <1>13 DEF Sound
<1>15. KeepsLeads(parties, y.parties)
  BY <1>1, <1>11 DEF KeepsLeads
<1>16. QED
  BY <1>2, <1>14, <1>15, ClanBecomes

LEMMA ChallengeStep ==
    ASSUME PartiesAgreed, NEW s \in Session, NEW k, Challenge(s, k)
    PROVE  PartiesAgreed' /\ KeepsLeads(parties, parties')
<1> DEFINE host == LeaderOf(parties[k])
           c == ClanRoomCreated(ClanNow, host)
           x == [c EXCEPT !.parties[k].registered = FALSE]
           q == [c.parties[k] EXCEPT !.registered = FALSE]
<1>1. Sound(ClanNow) /\ Complete(ClanNow) /\ ClanNow.parties = parties
  BY ClanNowFields
<1>2. k \in DOMAIN parties /\ \E n, g : ClanBecome(AllJoined(x, n, g))
  BY DEF Challenge, OnList
<1>3. SameParties(ClanNow, c)
  BY <1>1, RoomEffects
<1>4. Sound(c) /\ Kept(ClanNow, c) /\ c.parties = parties
  BY <1>1, <1>3, SameGood, KeptSame DEF SameParties
<1>5. x = [c EXCEPT !.parties[k] = q]
  OBVIOUS
<1> HIDE DEF c
<1>6. SoundParty(q) /\ q.waiting = c.parties[k].waiting
  BY <1>2, <1>4, FlagsChanged DEF Sound, Agreeing
<1> HIDE DEF q, x
<1>7. Kept(c, x)
  BY <1>2, <1>4, <1>5, <1>6, KeptWithin
<1>8. PICK n, g : ClanBecome(AllJoined(x, n, g))
  BY <1>2
<1> DEFINE y == AllJoined(x, n, g)
<1>9. Sound(x) /\ SameParties(x, y)
  BY <1>7, RoomEffects DEF Kept, Sound
<1> HIDE DEF y
<1>10. Kept(ClanNow, y)
  BY <1>4, <1>7, <1>9, KeptSame, KeptOn
<1>11. Sound(y)
  BY <1>10 DEF Kept
<1>12. ClanBecome(y)
  BY <1>8 DEF y
<1>13. QED
  BY <1>1, <1>10, <1>11, <1>12, ClanBecomes, KeptKeeps

\* updatePartyStatus moves nobody.
LEMMA StatusStep ==
    ASSUME PartiesAgreed, NEW r, NEW v \in BOOLEAN,
           parties' = PartiesStarted(r, v), partyNum' = partyNum
    PROVE  PartiesAgreed' /\ KeepsLeads(parties, parties')
<1> DEFINE Set(p) == [p EXCEPT !.started = v, !.registered = @ /\ ~v]
<1>1. Agreeing(parties, partyNum)
  BY DEF PartiesAgreed
<1>2. ASSUME NEW p, SoundParty(p)
      PROVE  SoundParty(Set(p)) /\ Set(p).waiting = p.waiting
  <2> DEFINE a == [p EXCEPT !.started = v]
             b == p.registered /\ ~v
             c == [a EXCEPT !.registered = b]
  <2>1. SoundParty(a) /\ a.waiting = p.waiting
    BY <1>2, FlagsChanged
  <2>2. Set(p) = c
    OBVIOUS
  <2>3. b \in BOOLEAN
    OBVIOUS
  <2> HIDE DEF a, b
  <2>4. SoundParty(c) /\ c.waiting = a.waiting
    BY <2>1, <2>3, FlagsChanged
  <2> HIDE DEF Set, c
  <2>5. QED
    BY <2>1, <2>2, <2>4
<1>3. /\ DOMAIN parties' = DOMAIN parties
      /\ parties' = [k \in DOMAIN parties |-> parties'[k]]
      /\ \A k \in DOMAIN parties : parties'[k] = Set(parties[k]) \/ parties'[k] = parties[k]
  BY DEF PartiesStarted
<1> HIDE DEF Set
<1>4. \A k \in DOMAIN parties : SoundParty(parties'[k]) /\ parties'[k].waiting = parties[k].waiting
  BY <1>1, <1>2, <1>3 DEF Agreeing
<1>5. parties' \in [DOMAIN parties' -> Party]
  <2>1. \A k \in DOMAIN parties : parties'[k] \in Party
    BY <1>4 DEF SoundParty
  <2>2. QED
    BY <1>3, <2>1
<1>6. Agreeing(parties', partyNum')
  BY <1>1, <1>3, <1>4, <1>5 DEF Agreeing
<1>7. KeepsLeads(parties, parties')
  BY <1>3, <1>4 DEF KeepsLeads, LeaderOf
<1>8. QED
  BY <1>6, <1>7 DEF PartiesAgreed

LEMMA ClanMatchStep ==
    ASSUME PartiesAgreed, NEW s \in Session, StartClanMatch(s) \/ EndClanMatch(s)
    PROVE  PartiesAgreed' /\ KeepsLeads(parties, parties')
<1>1. partyNum' = partyNum
  BY DEF StartClanMatch, EndClanMatch
<1>2. parties' = parties \/ \E r : \E v \in BOOLEAN : parties' = PartiesStarted(r, v)
  BY DEF StartClanMatch, EndClanMatch
<1>3. CASE parties' = parties
  BY <1>1, <1>3 DEF PartiesAgreed, KeepsLeads
<1>4. CASE \E r : \E v \in BOOLEAN : parties' = PartiesStarted(r, v)
  BY <1>1, <1>4, StatusStep
<1>5. QED
  BY <1>2, <1>3, <1>4

\* There are finitely many parties.
LEMMA FinitelyMany == IsFiniteSet(Key)
<1> DEFINE f == [s \in Session |-> ClanOf[s]]
<1>1. f \in Surjection(Session, Clan)
  BY DEF Surjection, Clan
<1>2. IsFiniteSet(Clan)
  <2> HIDE DEF f
  <2> QED BY <1>1, ClansAssumption, FS_Surjection
<1>3. IsFiniteSet(1 .. MaxParties)
  BY ClansAssumption, FS_Interval
<1>4. QED
  BY <1>2, <1>3, FS_Product DEF Key

LEMMA CloseClanRoomStep ==
    ASSUME PartiesAgreed, NEW s \in Session, CloseClanRoom(s)
    PROVE  PartiesAgreed' /\ KeepsLeads(parties, parties')
<1> DEFINE S == ClanParties(RoomOf(s)) \cap DOMAIN parties
           x == CloseRoom(ClanNow, roomNum[s])
<1>1. Sound(ClanNow) /\ Complete(ClanNow) /\ ClanNow.parties = parties
  BY ClanNowFields
<1>2. PICK ks \in SetToSeqs(S) : \E y \in AllBack(x, ks) : ClanBecome(y)
  BY DEF CloseClanRoom
<1>3. PICK y \in AllBack(x, ks) : ClanBecome(y)
  BY <1>2
<1>4. S \subseteq DOMAIN parties /\ DOMAIN parties \subseteq Key
  BY DEF PartiesAgreed, Agreeing
<1>5. SameParties(ClanNow, x)
  BY <1>1, RoomEffects
<1> HIDE DEF S, x
<1>6. Cardinality(S) \in Nat
  BY <1>4, FinitelyMany, FS_Subset, FS_CardinalityType
<1>7. ks \in [1 .. Cardinality(S) -> S]
  BY <1>2 DEF SetToSeqs
<1>8. Len(ks) = Cardinality(S)
  BY <1>6, <1>7
<1>9. Sound(x) /\ Kept(ClanNow, x) /\ x.parties = parties
  BY <1>1, <1>5, SameGood, KeptSame DEF SameParties
<1>10. Kept(x, y)
  <2>1. Len(ks) \in Nat /\ \A i \in 1 .. Len(ks) : ks[i] \in DOMAIN x.parties
    BY <1>4, <1>6, <1>7, <1>8, <1>9
  <2>2. QED
    BY <1>3, <1>9, <2>1, AllKept
<1>11. Kept(ClanNow, y) /\ Sound(y)
  BY <1>9, <1>10, KeptOn DEF Kept
<1>12. QED
  BY <1>1, <1>3, <1>11, ClanBecomes, KeptKeeps

-----------------------------------------------------------------------------
(* The theorems. *)

LEMMA NobodyWaits == ClanInit => PartiesAgreed
<1> SUFFICES ASSUME ClanInit PROVE PartiesAgreed
  OBVIOUS
<1>1. parties = <<>> /\ partyNum = [s \in Session |-> NoParty]
  BY DEF ClanInit
<1>2. DOMAIN parties = {} /\ parties \in [{} -> Party]
  BY <1>1
<1>3. partyNum \in [Session -> 0 .. MaxParties]
  BY <1>1, ClansAssumption DEF NoParty
<1>4. \A s \in Session, k \in Key : k # <<ClanOf[s], partyNum[s]>>
  BY <1>1 DEF Key, NoParty
<1>5. QED
  BY <1>2, <1>3, <1>4 DEF PartiesAgreed, Agreeing

\* Two of the steps name a leader who may lose the lead.
LeaderKept ==
    \A k \in DOMAIN parties \cap DOMAIN parties' :
        LET leader == LeaderOf(parties[k])
        IN  leader \in LiveIn(parties'[k].waiting) /\ LeaderOf(parties'[k]) # leader
            => (\E i \in 2 .. Cardinality(Session) : ChangeLeader(leader, i))
               \/ LeaveClanMatch(leader)

LEMMA KeepsKept ==
    ASSUME KeepsLeads(parties, parties')
    PROVE  LeaderKept
BY DEF KeepsLeads, LeaderKept

LEMMA ClanSteps ==
    ASSUME PartiesAgreed, ClanNext
    PROVE  PartiesAgreed' /\ LeaderKept
<1>1. CASE \E s \in Session : ClanConnect(s) \/ ClanDisconnect(s)
  <2>1. PICK s \in Session : ClanConnect(s) \/ ClanDisconnect(s)
    BY <1>1
  <2>2. CASE ClanConnect(s)
    <3>1. PartiesAgreed' /\ parties' = parties
      BY <2>2, ClanConnectStep
    <3>2. QED
      BY <3>1 DEF LeaderKept
  <2>3. CASE ClanDisconnect(s)
    BY <2>3, ClanDisconnectStep, KeepsKept
  <2>4. QED
    BY <2>1, <2>2, <2>3
<1>2. CASE \E s \in Session : CreateParty(s) \/ LeaveParty(s) \/ Register(s)
  BY <1>2, CreatePartyStep, LeavePartyStep, RegisterStep, KeepsKept
<1>3. CASE \E s \in Session, k \in Key : JoinParty(s, k) \/ Challenge(s, k)
  BY <1>3, JoinPartyStep, ChallengeStep, KeepsKept
<1>4. CASE \E s \in Session, n \in Sizes : SetSize(s, n)
  BY <1>4, SetSizeStep, KeepsKept
<1>5. CASE \E s \in Session, i \in 2 .. Cardinality(Session) : ChangeLeader(s, i)
  <2>1. PICK s \in Session, i \in 2 .. Cardinality(Session) : ChangeLeader(s, i)
    BY <1>5
  <2>2. /\ PartiesAgreed'
        /\ \A k \in DOMAIN parties :
              LeaderOf(parties[k]) # s => LeaderOf(parties'[k]) = LeaderOf(parties[k])
    BY <2>1, ChangeLeaderStep
  <2>3. QED
    BY <2>1, <2>2 DEF LeaderKept
<1>6. CASE \E s \in Session : StartClanMatch(s) \/ EndClanMatch(s) \/ LeaveClanMatch(s)
  <2>1. PICK s \in Session : StartClanMatch(s) \/ EndClanMatch(s) \/ LeaveClanMatch(s)
    BY <1>6
  <2>2. CASE StartClanMatch(s) \/ EndClanMatch(s)
    BY <2>2, ClanMatchStep, KeepsKept
  <2>3. CASE LeaveClanMatch(s)
    <3>1. /\ PartiesAgreed'
          /\ \A k \in DOMAIN parties \cap DOMAIN parties' :
                LeaderOf(parties[k]) # s => LeaderOf(parties'[k]) = LeaderOf(parties[k])
      BY <2>3, LeaveClanMatchStep
    <3>2. QED
      BY <2>3, <3>1 DEF LeaderKept
  <2>4. QED
    BY <2>1, <2>2, <2>3
<1>7. CASE \E s \in Session : LeaveClanRoom(s) \/ CloseClanRoom(s)
  BY <1>7, LeaveClanRoomStep, CloseClanRoomStep, KeepsKept
<1>8. QED
  BY <1>1, <1>2, <1>3, <1>4, <1>5, <1>6, <1>7 DEF ClanNext

LEMMA ClanStepsAgree ==
    ASSUME PartiesAgreed, [ClanNext]_clanVars
    PROVE  PartiesAgreed'
<1>1. CASE ClanNext
  BY <1>1, ClanSteps
<1>2. CASE UNCHANGED clanVars
  BY <1>2 DEF clanVars, PartiesAgreed
<1>3. QED
  BY <1>1, <1>2

LEMMA AgreedIsAgreement == PartiesAgreed => PartyAgreement
<1> SUFFICES ASSUME PartiesAgreed PROVE PartyAgreement
  OBVIOUS
<1>1. Agreeing(parties, partyNum)
  BY DEF PartiesAgreed
<1>2. ASSUME NEW k \in DOMAIN parties
      PROVE  /\ parties[k].waiting # <<>>
             /\ parties[k].num = Len(parties[k].waiting)
             /\ \A i, j \in DOMAIN parties[k].waiting :
                   /\ parties[k].waiting[i].live
                   /\ parties[k].waiting[i].uid = parties[k].waiting[j].uid => i = j
  BY <1>1 DEF Agreeing, SoundParty, Line
<1>3. \A s \in Session : \A k \in Key :
          (k = KeyOf(ClanNow, s))
             <=> (k \in DOMAIN parties /\ s \in LiveIn(parties[k].waiting))
  BY <1>1 DEF Agreeing, KeyOf, ClanNow
<1>4. QED
  BY <1>2, <1>3 DEF PartyAgreement

\* In every reachable state the party and the session agree on who waits where,
\* nobody waits twice or after the session has ended, the count of a party is
\* the length of its line, and no party is empty.
THEOREM PartiesAlwaysAgree == ClanSpec => []PartyAgreement
<1>1. PartiesAgreed /\ [ClanNext]_clanVars => PartiesAgreed'
  BY ClanStepsAgree
<1>2. QED
  BY NobodyWaits, <1>1, AgreedIsAgreement, PTL DEF ClanSpec

\* A leader who stays in the party leads it until he hands the lead on or leaves
\* a match: no other step of anybody, the disconnection of others and the
\* closing of a clan room included, puts another in front of him.
THEOREM LeadersStay == ClanSpec => LeaderKeepsParty
<1>1. PartiesAgreed /\ [ClanNext]_clanVars => PartiesAgreed'
  BY ClanStepsAgree
<1>2. PartiesAgreed /\ [ClanNext]_clanVars => [LeaderKept]_clanVars
  BY ClanSteps
<1>3. ClanSpec => [][LeaderKept]_clanVars
  BY NobodyWaits, <1>1, <1>2, PTL DEF ClanSpec
<1>4. QED
  BY <1>3 DEF LeaderKeepsParty, LeaderKept

-----------------------------------------------------------------------------
(* Rooms under the parties: a world with parties has a world of Rooms in it,  *)
(* and what the handlers do to rooms they do to that one.                     *)

Base(x) == [rooms |-> x.rooms, gen |-> x.gen, num |-> x.num, ps |-> x.ps]

LEMMA BaseOf ==
    ASSUME NEW f, NEW g, NEW u, NEW w,
           NEW b, b \in [rooms : {f}, gen : {g}, num : {u}, ps : {w}]
    PROVE  b = [rooms |-> f, gen |-> g, num |-> u, ps |-> w]
OBVIOUS

LEMMA BaseFields ==
    ASSUME NEW x
    PROVE  /\ Base(x).rooms = x.rooms /\ Base(x).gen = x.gen
           /\ Base(x).num = x.num /\ Base(x).ps = x.ps
BY DEF Base

LEMMA BaseEffects ==
    ASSUME NEW x, Complete(x)
    PROVE  /\ \A n : Base(CloseRoom(x, n)) = CloseRoom(Base(x), n)
           /\ \A n, r : Base(Put(x, n, r)) = Put(Base(x), n, r)
           /\ \A n, o : Base(Settle(x, n, o)) = Settle(Base(x), n, o)
           /\ \A n, who, v : Base(SetStateIn(x, n, who, v)) = SetStateIn(Base(x), n, who, v)
           /\ \A s : Base(Destroyed(x, s)) = Destroyed(Base(x), s)
           /\ \A s : Base(Gone(x, s)) = Destroyed(Base(x), s)
<1>1. ASSUME NEW y, Complete(y), NEW n PROVE Base(CloseRoom(y, n)) = CloseRoom(Base(y), n)
  BY <1>1 DEF CloseRoom, Base, Complete, ClanWorldFields
<1>2. ASSUME NEW n, NEW r PROVE Base(Put(x, n, r)) = Put(Base(x), n, r)
  BY DEF Put, Base, Complete, ClanWorldFields
<1>8. ASSUME NEW y, Complete(y), NEW u
      PROVE  /\ Complete([y EXCEPT !.num = u])
             /\ Base([y EXCEPT !.num = u]) = [Base(y) EXCEPT !.num = u]
             /\ Base([y EXCEPT !.ps = u]) = [Base(y) EXCEPT !.ps = u]
  BY <1>8 DEF Base, Complete, ClanWorldFields
<1>9. ASSUME NEW n, NEW r PROVE Complete(Put(x, n, r)) /\ Put(x, n, r).num = Put(Base(x), n, r).num
  BY DEF Put, Base, Complete, ClanWorldFields
<1>3. ASSUME NEW n, NEW o PROVE Base(Settle(x, n, o)) = Settle(Base(x), n, o)
  <2> DEFINE p == Put(x, n, o.room)
             q == Put(Base(x), n, o.room)
             y == [p EXCEPT !.num = Unhoused(@, o.gone)]
             b == [q EXCEPT !.num = Unhoused(@, o.gone)]
  <2>1. Complete(y) /\ Base(y) = b
    <3>1. Complete(p) /\ Base(p) = q /\ p.num = q.num
      BY <1>2, <1>9
    <3> HIDE DEF p, q
    <3> DEFINE u == Unhoused(p.num, o.gone)
    <3>2. y = [p EXCEPT !.num = u] /\ b = [q EXCEPT !.num = u]
      BY <3>1
    <3> HIDE DEF u, y, b
    <3>3. QED
      BY <3>1, <3>2, <1>8
  <2>2. /\ Settle(x, n, o) = IF o.close THEN CloseRoom(y, n) ELSE y
        /\ Settle(Base(x), n, o) = IF o.close THEN CloseRoom(b, n) ELSE b
    BY DEF Settle
  <2> HIDE DEF y, b
  <2>3. QED
    BY <2>1, <2>2, <1>1
<1>4. ASSUME NEW n, NEW who, NEW v
      PROVE  Base(SetStateIn(x, n, who, v)) = SetStateIn(Base(x), n, who, v)
  <2> DEFINE r == SetStateFor(x.rooms[n], who, v)
             w == [s \in Session |-> IF s \in who \cap Members(x.rooms[n]) THEN v ELSE x.ps[s]]
             p == Put(x, n, r)
             q == Put(Base(x), n, r)
  <2>1. Complete(p) /\ Base(p) = q /\ p.ps = x.ps /\ q.ps = x.ps
    <3>1. p.ps = x.ps /\ q.ps = x.ps
      BY DEF Put, Base, Complete, ClanWorldFields
    <3>2. QED
      BY <3>1, <1>2, <1>9
  <2> HIDE DEF r
  <2>2. SetStateIn(x, n, who, v) = [p EXCEPT !.ps = w]
    BY <2>1 DEF SetStateIn, r
  <2>3. SetStateIn(Base(x), n, who, v) = [q EXCEPT !.ps = w]
    BY <2>1, BaseFields DEF SetStateIn, r
  <2> HIDE DEF p, q, w
  <2>4. Base([p EXCEPT !.ps = w]) = [Base(p) EXCEPT !.ps = w]
    BY <2>1, <1>8
  <2>5. QED
    BY <2>1, <2>2, <2>3, <2>4
<1>5. ASSUME NEW s
      PROVE  /\ Base(Destroyed(x, s)) = Destroyed(Base(x), s)
             /\ Base(Gone(x, s)) = Destroyed(Base(x), s)
  <2> DEFINE f == [n \in DOMAIN x.rooms |-> Expired(x.rooms[n], s)]
             u == [x.num EXCEPT ![s] = NoNumber]
             w == [x.ps EXCEPT ![s] = "EXIT"]
             qs == [k \in DOMAIN x.parties |-> Lapsed(x.parties[k], s)]
             pn == [x.party EXCEPT ![s] = NoParty]
  <2>1. /\ Destroyed(x, s) = [x EXCEPT !.rooms = f, !.num = u, !.ps = w]
        /\ Gone(x, s) = [Destroyed(x, s) EXCEPT !.parties = qs, !.party = pn]
    BY DEF Destroyed, Gone, Complete, ClanWorldFields
  <2>2. Destroyed(Base(x), s) = [Base(x) EXCEPT !.rooms = f, !.num = u, !.ps = w]
    BY DEF Destroyed, Base
  <2> DEFINE d == [x EXCEPT !.rooms = f, !.num = u, !.ps = w]
  <2> HIDE DEF f, u, w, qs, pn
  <2>3. Complete(d) /\ Base(d) = [Base(x) EXCEPT !.rooms = f, !.num = u, !.ps = w]
    <3> DEFINE b == [rooms |-> f, gen |-> x.gen, num |-> u, ps |-> w]
    <3>1. Complete(d) /\ Base(d) = b
      BY DEF Base, Complete, ClanWorldFields
    <3> DEFINE e == [Base(x) EXCEPT !.rooms = f, !.num = u, !.ps = w]
    <3>2. e \in [rooms : {f}, gen : {x.gen}, num : {u}, ps : {w}]
      BY DEF Base
    <3> HIDE DEF d, e
    <3>3. e = b
      BY <3>2, BaseOf
    <3>4. QED
      BY <3>1, <3>3 DEF e
  <2> HIDE DEF d
  <2>4. Base([d EXCEPT !.parties = qs, !.party = pn]) = Base(d)
    BY <2>3 DEF Base, Complete, ClanWorldFields
  <2>5. QED
    BY <2>1, <2>2, <2>3, <2>4 DEF d
<1>7. QED
  BY <1>1, <1>2, <1>3, <1>4, <1>5

LEMMA BaseExits ==
    ASSUME NEW x, Complete(x), NEW s
    PROVE  /\ \A y \in RoomLeave(x, s) : Base(y) \in RoomLeave(Base(x), s)
           /\ \A y \in MatchLeave(x, s) : Base(y) \in MatchLeave(Base(x), s)
<1>1. /\ Base(x).rooms = x.rooms /\ Base(x).num = x.num /\ Base(x).ps = x.ps
  BY BaseFields
<1>2. ASSUME NEW n, NEW y \in LeaveAsTarget(x, n, s)
      PROVE  Base(y) \in LeaveAsTarget(Base(x), n, s)
  BY <1>1, BaseEffects DEF LeaveAsTarget
<1>3. ASSUME NEW y \in RoomLeave(x, s) PROVE Base(y) \in RoomLeave(Base(x), s)
  BY <1>1, <1>2, BaseEffects DEF RoomLeave
<1>4. ASSUME NEW y \in MatchLeave(x, s) PROVE Base(y) \in MatchLeave(Base(x), s)
  BY <1>1, <1>2, BaseEffects DEF MatchLeave
<1>5. QED
  BY <1>3, <1>4

\* Joining or leaving a party is nothing to the rooms.
LEMMA BaseStays ==
    ASSUME NEW x, Complete(x)
    PROVE  /\ \A k, s : Base(AddedToParty(x, k, s)) = Base(x)
           /\ \A k, p : Base([x EXCEPT !.parties[k] = p]) = Base(x)
           /\ \A s : CanLeave(PartyOf(x, s), s) => Base(LeftParty(x, s)) = Base(x)
<1>1. ASSUME NEW k, NEW s PROVE Base(AddedToParty(x, k, s)) = Base(x)
  BY DEF AddedToParty, Base, Complete, ClanWorldFields
<1>2. ASSUME NEW k, NEW p PROVE Base([x EXCEPT !.parties[k] = p]) = Base(x)
  BY DEF Base, Complete, ClanWorldFields
<1>3. ASSUME NEW s PROVE Base(LeftParty(x, s)) = Base(x)
  BY DEF LeftParty, DropParty, AllRemoved, Base, Complete, ClanWorldFields
<1>4. QED
  BY <1>1, <1>2, <1>3

-----------------------------------------------------------------------------
(* No votekick runs among clans, so whoever leaves a room is let out of it.   *)

LEMMA TargetStays ==
    ASSUME NEW r \in RoomRecord
    PROVE  /\ \A s, ps : \A o \in RemovePlayer(r, s, ps) : o.room.vkTarget = r.vkTarget
           /\ \A ps : \A o \in RemoveHostFromMatch(r, ps) : o.room.vkTarget = r.vkTarget
           /\ \A who, v : SetStateFor(r, who, v).vkTarget = r.vkTarget
           /\ \A s : Expired(r, s).vkTarget = r.vkTarget
           /\ StartedRoom(r).vkTarget = NoSession
           /\ \A ps : EndedRoom(r, ps).vkTarget = NoSession
<1>2. ASSUME NEW t, t.vkTarget = r.vkTarget, DOMAIN t = DOMAIN r, NEW i
      PROVE  /\ Removed(t, i).room.vkTarget = r.vkTarget
             /\ IgnoreClose(Removed(t, i)).room.vkTarget = r.vkTarget
  <2>1. [t EXCEPT !.players = SwapRemove(@, i)].vkTarget = r.vkTarget
    BY <1>2 DEF RoomRecord
  <2>2. QED
    BY <2>1 DEF Removed, IgnoreClose
<1>5. Stay(r).room = r /\ MustClose(r).room = r
  BY DEF Stay, MustClose
<1>6. ASSUME NEW s, NEW ps, NEW o \in RemovePlayer(r, s, ps) PROVE o.room.vkTarget = r.vkTarget
  <2> DEFINE best == BestSeats(r, s, FALSE, ps)
             t(i) == [r EXCEPT !.players = SwapHost(@, i)]
             w == [r EXCEPT !.observers = Erase(@, SeatOf(@, s))]
  <2>1. \/ o = Stay(r) \/ o = MustClose(r)
        \/ o = Removed(r, SeatOf(r.players, s))
        \/ \E i \in best : o = Removed(t(i), SeatOf(t(i).players, s))
        \/ o = [room |-> w, gone |-> {s}, close |-> FALSE]
    BY DEF RemovePlayer
  <2>2. w.vkTarget = r.vkTarget
    BY DEF RoomRecord
  <2>3. \A i : t(i).vkTarget = r.vkTarget /\ DOMAIN t(i) = DOMAIN r
    BY DEF RoomRecord
  <2> HIDE DEF best, t, w
  <2>4. CASE \E i \in best : o = Removed(t(i), SeatOf(t(i).players, s))
    BY <2>3, <2>4, <1>2
  <2>5. CASE o = Removed(r, SeatOf(r.players, s))
    BY <2>5, <1>2
  <2>6. CASE o = [room |-> w, gone |-> {s}, close |-> FALSE]
    BY <2>2, <2>6
  <2>7. QED
    BY <2>1, <2>4, <2>5, <2>6, <1>5
<1>7. ASSUME NEW ps, NEW o \in RemoveHostFromMatch(r, ps) PROVE o.room.vkTarget = r.vkTarget
  <2> DEFINE fighting == \E s \in LiveIn(r.players) : InMatch(ps[s])
             best == BestSeats(r, HostOf(r), fighting, ps)
             t(i) == [r EXCEPT !.players = SwapHost(@, i), !.started = @ /\ fighting]
  <2>1. \/ o = Stay(r) \/ o = MustClose(r)
        \/ \E i \in best : o = IgnoreClose(Removed(t(i), i))
    BY DEF RemoveHostFromMatch
  <2>2. \A i : t(i).vkTarget = r.vkTarget /\ DOMAIN t(i) = DOMAIN r
    BY DEF RoomRecord
  <2> HIDE DEF best, t, fighting
  <2>3. CASE \E i \in best : o = IgnoreClose(Removed(t(i), i))
    BY <2>2, <2>3, <1>2
  <2>4. QED
    BY <2>1, <2>3, <1>5
<1>8. ASSUME NEW t, DOMAIN t = DOMAIN r
      PROVE  /\ \A who, v : /\ SetStateFor(t, who, v).vkTarget = t.vkTarget
                            /\ DOMAIN SetStateFor(t, who, v) = DOMAIN r
             /\ \A b : [t EXCEPT !.started = b].vkTarget = t.vkTarget
  BY <1>8 DEF SetStateFor, RoomRecord
<1>9. \A s : Expired(r, s).vkTarget = r.vkTarget
  BY DEF Expired, RoomRecord
<1>10. StartedRoom(r).vkTarget = NoSession
  <2> DEFINE t == [ResetVotekick(r) EXCEPT !.started = TRUE, !.vkStarters = {}]
  <2>1. t.vkTarget = NoSession /\ DOMAIN t = DOMAIN r
    BY DEF ResetVotekick, ClearVote, RoomRecord
  <2>2. StartedRoom(r) = SetStateFor(t, Starters(r), "NORMAL")
    BY DEF StartedRoom
  <2> HIDE DEF t
  <2>3. QED
    BY <2>1, <2>2, <1>8
<1>11. ASSUME NEW ps PROVE EndedRoom(r, ps).vkTarget = NoSession
  <2> DEFINE t == SetStateFor(ClearVote(r), Returning(r, ps), "WAITING")
  <2>1. ClearVote(r).vkTarget = NoSession /\ DOMAIN ClearVote(r) = DOMAIN r
    BY DEF ClearVote, RoomRecord
  <2>2. t.vkTarget = NoSession /\ DOMAIN t = DOMAIN r
    BY <2>1, <1>8
  <2>3. EndedRoom(r, ps) = [t EXCEPT !.started = FALSE]
    BY DEF EndedRoom
  <2> HIDE DEF t
  <2>4. QED
    BY <2>2, <2>3, <1>8
<1>12. QED
  BY <1>6, <1>7, <1>8, <1>9, <1>10, <1>11

\* A world of rooms in which no votekick runs, of a server with numbers left.
Calm(b) ==
    /\ Good(b) /\ SeatsMatch(b) /\ b.gen.next <= MaxNumber
    /\ \A n \in DOMAIN b.rooms : b.rooms[n].vkTarget = NoSession

\* Two sessions other than s that are in one room, or in none, still are.
Evenly(b, c, s) ==
    \A t, u \in Session : t # s /\ u # s /\ b.num[t] = b.num[u] => c.num[t] = c.num[u]

Drifts(b, c, s) == Calm(c) /\ Lower(b, c) /\ Evenly(b, c, s)

LEMMA DriftsOn ==
    ASSUME NEW b, NEW c, NEW d, NEW s, Drifts(b, c, s), Drifts(c, d, s)
    PROVE  Drifts(b, d, s)
BY DEF Drifts, Lower, Evenly

LEMMA DriftsSame ==
    ASSUME NEW b, Calm(b), NEW s
    PROVE  Drifts(b, b, s)
BY DEF Drifts, Lower, Evenly

\* A room is left whole or by s alone, and a room that goes leaves everyone out.
LEMMA PassingDrifts ==
    ASSUME NEW b, Calm(b), NEW c, Calm(c), NEW s, Lower(b, c), Passing(b, c, s)
    PROVE  Drifts(b, c, s)
<1> SUFFICES ASSUME NEW t \in Session, NEW u \in Session, t # s, u # s, b.num[t] = b.num[u]
             PROVE  c.num[t] = c.num[u]
  BY DEF Drifts, Evenly
<1>1. /\ c.num[t] = b.num[t] \/ c.num[t] = NoNumber
      /\ c.num[u] = b.num[u] \/ c.num[u] = NoNumber
  BY DEF Lower
<1>2. /\ c.num[t] # NoNumber => c.num[t] \in DOMAIN c.rooms
      /\ c.num[u] # NoNumber => c.num[u] \in DOMAIN c.rooms
  BY DEF Calm, SeatsMatch, Agreed
<1>3. b.num[t] \in DOMAIN c.rooms => c.num[t] = b.num[t] /\ c.num[u] = b.num[t]
  BY DEF Passing, Calm
<1>4. QED
  BY <1>1, <1>2, <1>3

LEMMA SettleDrifts ==
    ASSUME NEW b, Calm(b), NEW n \in DOMAIN b.rooms, NEW o \in Outcome,
           Fair(b.rooms[n], o, b.ps), NEW s, LetsGo(b.rooms[n], o, s),
           o.room.vkTarget = NoSession
    PROVE  Drifts(b, Settle(b, n, o), s)
<1> DEFINE c == Settle(b, n, o)
<1>1. Good(b) /\ SeatsMatch(b) /\ b \in World
  BY DEF Calm, Good
<1>2. Good(c) /\ After(b, c)
  BY <1>1, SettleGood, FairSettled
<1>3. Passing(b, c, s)
  BY <1>1, SettlePassing DEF Fair
<1>4. \A k \in DOMAIN c.rooms : c.rooms[k].vkTarget = NoSession
  BY <1>1, SettledRooms DEF Calm
<1> HIDE DEF c
<1>5. Calm(c)
  BY <1>2, <1>4 DEF Calm, After
<1>6. QED
  BY <1>2, <1>3, <1>5, PassingDrifts DEF After, c

LEMMA RemoveDrifts ==
    ASSUME NEW b, Calm(b), NEW n \in DOMAIN b.rooms, NEW s \in Session,
           NEW o \in RemovePlayer(b.rooms[n], s, b.ps)
    PROVE  Drifts(b, Settle(b, n, o), s) /\ Drifts(b, Settle(b, n, IgnoreClose(o)), s)
<1>1. b.rooms[n] \in RoomRecord /\ SeatedOnce(b.rooms[n]) /\ b.rooms[n].vkTarget = NoSession
  BY RoomIn DEF Calm
<1>2. /\ o \in Outcome /\ Fair(b.rooms[n], o, b.ps) /\ LetsGo(b.rooms[n], o, s)
      /\ o.room.vkTarget = NoSession
  BY <1>1, RemovePlayerType, RemovePlayerFair, RemovePlayerLetsGo, TargetStays
<1>3. /\ IgnoreClose(o) \in Outcome /\ Fair(b.rooms[n], IgnoreClose(o), b.ps)
      /\ IgnoreClose(o).room = o.room /\ IgnoreClose(o).gone = o.gone
  <2>1. IgnoreClose(o).room = o.room /\ IgnoreClose(o).gone = o.gone
    BY <1>2 DEF IgnoreClose, Outcome
  <2>2. QED
    BY <1>2, <2>1, IgnoreCloseType, IgnoreCloseFair
<1>4. LetsGo(b.rooms[n], IgnoreClose(o), s)
  BY <1>2, <1>3 DEF LetsGo
<1>5. QED
  BY <1>2, <1>3, <1>4, SettleDrifts

\* handleRoomLeave.
LEMMA RoomLeaveDrifts ==
    ASSUME NEW b, Calm(b), NEW s \in Session, NEW c \in RoomLeave(b, s)
    PROVE  Drifts(b, c, s)
<1> DEFINE n == b.num[s]
<1>1. CASE n \notin DOMAIN b.rooms
  BY <1>1, DriftsSame DEF RoomLeave
<1>2. CASE n \in DOMAIN b.rooms
  <2>1. b.rooms[n].vkTarget # s
    BY <1>2, RoomAssumption DEF Calm
  <2>2. \E o \in RemovePlayer(b.rooms[n], s, b.ps) : c = Settle(b, n, o)
    BY <1>2, <2>1 DEF RoomLeave
  <2>3. QED
    BY <1>2, <2>2, RemoveDrifts
<1>3. QED
  BY <1>1, <1>2

\* handleMatchLeave: who is not the host stays in the room.
LEMMA MatchLeaveDrifts ==
    ASSUME NEW b, Calm(b), NEW s \in Session, NEW c \in MatchLeave(b, s)
    PROVE  /\ Drifts(b, c, s)
           /\ (b.num[s] \in DOMAIN b.rooms => ~IsHost(b.rooms[b.num[s]], s)) => c.num = b.num
<1> DEFINE n == b.num[s]
<1>1. CASE n \notin DOMAIN b.rooms
  BY <1>1, DriftsSame DEF MatchLeave
<1>2. CASE n \in DOMAIN b.rooms
  <2>1. /\ b.rooms[n].vkTarget # s /\ b.rooms[n].vkTarget = NoSession
        /\ b.rooms[n] \in RoomRecord /\ SeatedOnce(b.rooms[n]) /\ b \in World
    BY <1>2, RoomAssumption, RoomIn DEF Calm
  <2>2. CASE IsHost(b.rooms[n], s)
    <3>1. PICK o \in RemoveHostFromMatch(b.rooms[n], b.ps) : c = Settle(b, n, o)
      BY <1>2, <2>1, <2>2 DEF MatchLeave
    <3>2. /\ o \in Outcome /\ Fair(b.rooms[n], o, b.ps) /\ LetsGo(b.rooms[n], o, s)
          /\ o.room.vkTarget = NoSession
      BY <2>1, <2>2, RemoveHostFromMatchType, RemoveHostFair, RemoveHostLetsGo, TargetStays
    <3>3. QED
      BY <1>2, <2>2, <3>1, <3>2, SettleDrifts
  <2>3. CASE ~IsHost(b.rooms[n], s)
    <3> DEFINE t == SetStateFor(b.rooms[n], {s}, "WAITING")
    <3>1. c = SetStateIn(b, n, {s}, "WAITING") /\ ~InMatch("WAITING") /\ "WAITING" \in State
      BY <1>2, <2>1, <2>3 DEF MatchLeave, InMatch, State
    <3>2. Good(c) /\ After(b, c) /\ Passing(b, c, s)
      BY <1>2, <3>1, SetStateInGood, SetStateInSeats, SetStateInPassing DEF Calm, After
    <3>3. c.rooms = [b.rooms EXCEPT ![n] = t] /\ c.num = b.num
      BY <2>1, <3>1 DEF SetStateIn, Put, World
    <3>4. t.vkTarget = NoSession
      BY <2>1, TargetStays
    <3> HIDE DEF t
    <3>5. \A k \in DOMAIN c.rooms : c.rooms[k].vkTarget = NoSession
      BY <1>2, <3>3, <3>4 DEF Calm
    <3>6. Calm(c)
      BY <3>2, <3>5 DEF Calm, After
    <3>7. QED
      BY <3>2, <3>3, <3>6, PassingDrifts DEF After
  <2>4. QED
    BY <2>2, <2>3
<1>3. QED
  BY <1>1, <1>2

\* removeRoom.
LEMMA CloseRoomDrifts ==
    ASSUME NEW b, Calm(b), NEW n, NEW s
    PROVE  Drifts(b, CloseRoom(b, n), s)
<1> DEFINE c == CloseRoom(b, n)
<1>1. Good(b) /\ SeatsMatch(b) /\ b \in World
  BY DEF Calm, Good
<1>2. /\ Good(c) /\ SeatsMatch(c) /\ Lower(b, c) /\ c.gen.next = b.gen.next
      /\ Passing(b, c, s)
  BY <1>1, CloseRoomGood, CloseRoomSeats, CloseRoomPassing
<1>3. \A k \in DOMAIN c.rooms : k \in DOMAIN b.rooms /\ c.rooms[k] = b.rooms[k]
  <2>1. CASE n \notin DOMAIN b.rooms
    BY <2>1 DEF CloseRoom
  <2>2. CASE n \in DOMAIN b.rooms
    <3>1. c.rooms = Restrict(b.rooms, DOMAIN b.rooms \ {n})
      BY <1>1, <2>2 DEF CloseRoom, World
    <3> HIDE DEF c
    <3>2. QED
      BY <3>1 DEF Restrict
  <2>3. QED
    BY <2>1, <2>2
<1> HIDE DEF c
<1>4. Calm(c)
  BY <1>2, <1>3 DEF Calm
<1>5. QED
  BY <1>2, <1>4, PassingDrifts DEF c

\* The end of a session.
LEMMA DestroyedDrifts ==
    ASSUME NEW b, Calm(b), NEW s \in Session
    PROVE  Drifts(b, Destroyed(b, s), s)
<1> DEFINE c == Destroyed(b, s)
<1>1. Good(b) /\ SeatsMatch(b) /\ b \in World /\ b.num \in [Session -> Slot]
  BY WorldFields DEF Calm, Good
<1>2. /\ Good(c) /\ SeatsMatch(c) /\ c.gen.next = b.gen.next
      /\ c.num = [b.num EXCEPT ![s] = NoNumber] /\ Passing(b, c, s)
  BY <1>1, DestroyedGood, DestroyedSeats, DestroyedPassing
<1>3. Lower(b, c)
  BY <1>1, <1>2 DEF Lower
<1>4. \A k \in DOMAIN c.rooms : k \in DOMAIN b.rooms /\ c.rooms[k] = Expired(b.rooms[k], s)
  BY <1>1 DEF Destroyed, World
<1>5. \A k \in DOMAIN b.rooms : b.rooms[k] \in RoomRecord /\ b.rooms[k].vkTarget = NoSession
  BY RoomIn DEF Calm
<1>6. \A k \in DOMAIN c.rooms : c.rooms[k].vkTarget = NoSession
  BY <1>4, <1>5, TargetStays
<1> HIDE DEF c
<1>7. Calm(c)
  BY <1>2, <1>6 DEF Calm
<1>8. QED
  BY <1>2, <1>3, <1>7, PassingDrifts DEF c

-----------------------------------------------------------------------------
(* Who is in one party is in one room, or in none.                            *)

Together(x) ==
    \A s, t \in Session :
        x.party[s] # NoParty /\ KeyOf(x, s) = KeyOf(x, t) => x.num[s] = x.num[t]

Whole(x) == Sound(x) /\ Calm(Base(x)) /\ Together(x)

\* A session that goes somewhere else leaves its party.
LEMMA StaysWhole ==
    ASSUME NEW x, Whole(x), NEW s \in Session, NEW y, Moved(x, y, s),
           Drifts(Base(x), Base(y), s),
           y.party[s] = NoParty \/ (y.num = x.num /\ y.party = x.party)
    PROVE  Whole(y)
<1>1. Sound(y) /\ Calm(Base(y))
  BY DEF Moved, Drifts
<1>2. CASE y.num = x.num /\ y.party = x.party
  BY <1>1, <1>2 DEF Whole, Together, KeyOf
<1>3. CASE y.party[s] = NoParty
  <2> SUFFICES ASSUME NEW t \in Session, NEW u \in Session,
                      y.party[t] # NoParty, KeyOf(y, t) = KeyOf(y, u)
               PROVE  y.num[t] = y.num[u]
    BY <1>1 DEF Whole, Together
  <2>1. ClanOf[t] = ClanOf[u] /\ y.party[t] = y.party[u]
    BY DEF KeyOf
  <2>2. t # s /\ u # s
    BY <1>3, <2>1
  <2>3. x.party[t] = y.party[t] /\ x.party[u] = y.party[u]
    BY <2>2 DEF Moved
  <2>4. x.num[t] = x.num[u]
    BY <2>1, <2>3 DEF Whole, Together, KeyOf
  <2>5. QED
    BY <2>2, <2>4, BaseFields DEF Drifts, Evenly
<1>4. QED
  BY <1>2, <1>3

\* Nothing but the rooms and the numbers of some session changes.
LEMMA SameBase ==
    ASSUME NEW x, Whole(x), NEW s \in Session, NEW y, Base(y) = Base(x)
    PROVE  Drifts(Base(x), Base(y), s) /\ y.num = x.num /\ y.rooms = x.rooms /\ y.ps = x.ps
<1>1. Drifts(Base(x), Base(y), s)
  BY DriftsSame DEF Whole
<1>2. QED
  BY <1>1, BaseFields

LEMMA LeftPartyWhole ==
    ASSUME NEW x, Whole(x), NEW s \in Session, HasParty(x, s)
    PROVE  LET y == LeftParty(x, s)
           IN  /\ Whole(y) /\ Moved(x, y, s) /\ y.party[s] = NoParty
               /\ y.num = x.num /\ y.rooms = x.rooms /\ y.ps = x.ps
               /\ Base(y) = Base(x)
<1> DEFINE y == LeftParty(x, s)
<1>1. Sound(x) /\ Complete(x)
  BY DEF Whole, Sound
<1>2. Moved(x, y, s) /\ y.party[s] = NoParty /\ CanLeave(PartyOf(x, s), s)
  BY <1>1, LeftPartyParts DEF Parted
<1>3. Base(y) = Base(x)
  BY <1>1, <1>2, BaseStays
<1> HIDE DEF y
<1>4. Drifts(Base(x), Base(y), s) /\ y.num = x.num /\ y.rooms = x.rooms /\ y.ps = x.ps
  BY <1>3, SameBase
<1>5. QED
  BY <1>2, <1>3, <1>4, StaysWhole DEF y

\* handlePartyRoomLeave.
LEMMA PartyLeaveWhole ==
    ASSUME NEW x, Whole(x), NEW s \in Session, NEW y \in PartyLeave(x, s)
    PROVE  /\ Whole(y) /\ Parted(x, y, s)
           /\ x.num[s] \notin DOMAIN x.rooms => Base(y) = Base(x)
<1> DEFINE k == KeyOf(x, s)
           l == LeftParty(x, s)
           q == [l.parties[k] EXCEPT !.registered = FALSE]
           z == [l EXCEPT !.parties[k] = q]
           n == x.num[s]
<1>1. Sound(x) /\ Complete(x)
  BY DEF Whole, Sound
<1>2. Parted(x, y, s)
  BY <1>1, PartyLeaves
<1>3. CASE ~HasParty(x, s)
  <2>1. y = x
    BY <1>3 DEF PartyLeave
  <2>2. QED
    BY <1>2, <2>1
<1>4. CASE HasParty(x, s)
  <2>1. /\ Whole(l) /\ l.party[s] = NoParty /\ CanLeave(PartyOf(x, s), s)
        /\ l.num = x.num /\ l.rooms = x.rooms /\ l.ps = x.ps /\ Base(l) = Base(x)
    BY <1>1, <1>4, LeftPartyWhole, LeftPartyParts
  <2>2. \/ y = l
        \/ y = z /\ n \notin DOMAIN z.rooms
        \/ n \in DOMAIN z.rooms
           /\ \E o \in RemovePlayer(z.rooms[n], s, z.ps) : y = Settle(z, n, IgnoreClose(o))
    <3>1. z = [l EXCEPT !.parties[k].registered = FALSE]
      OBVIOUS
    <3>2. QED
      BY <1>4, <2>1, <3>1 DEF PartyLeave
  <2>3. CASE y = l
    BY <1>2, <2>1, <2>3
  <2> HIDE DEF l, q
  <2>4. Complete(l) /\ Complete(z) /\ Base(z) = Base(x)
    <3>1. Complete(l)
      BY <2>1 DEF Whole, Sound
    <3>2. Complete(z)
      BY <3>1 DEF Complete, ClanWorldFields
    <3>3. Base(z) = Base(l)
      BY <3>1, BaseStays
    <3>4. QED
      BY <2>1, <3>1, <3>2, <3>3
  <2> HIDE DEF z
  <2>5. Drifts(Base(x), Base(z), s) /\ z.num = x.num /\ z.rooms = x.rooms /\ z.ps = x.ps
    BY <2>4, SameBase
  <2>6. CASE y = z /\ n \notin DOMAIN z.rooms
    <3>1. Drifts(Base(x), Base(y), s)
      BY <2>5, <2>6
    <3>2. QED
      BY <1>2, <2>4, <2>6, <3>1, StaysWhole DEF Parted
  <2>7. CASE n \in DOMAIN z.rooms
             /\ \E o \in RemovePlayer(z.rooms[n], s, z.ps) : y = Settle(z, n, IgnoreClose(o))
    <3>1. PICK o \in RemovePlayer(z.rooms[n], s, z.ps) : y = Settle(z, n, IgnoreClose(o))
      BY <2>7
    <3>2. Base(y) = Settle(Base(x), n, IgnoreClose(o))
      BY <2>4, <3>1, BaseEffects
    <3>3. Base(x).rooms = z.rooms /\ Base(x).ps = z.ps /\ Calm(Base(x))
      BY <2>5, BaseFields DEF Whole
    <3>4. Drifts(Base(x), Base(y), s)
      BY <2>7, <3>1, <3>2, <3>3, RemoveDrifts
    <3>5. QED
      BY <1>2, <2>5, <2>7, <3>4, StaysWhole DEF Parted
  <2>8. QED
    BY <2>2, <2>3, <2>6, <2>7
<1>5. QED
  BY <1>3, <1>4

\* handleRoomLeave of a clan room.
LEMMA ClanRoomLeftWhole ==
    ASSUME NEW x, Whole(x), NEW s \in Session, NEW y \in ClanRoomLeft(x, s)
    PROVE  Whole(y)
<1>1. Sound(x) /\ Complete(x) /\ Calm(Base(x))
  BY DEF Whole, Sound
<1>2. ASSUME NEW w, Whole(w), NEW v \in RoomLeave(w, s)
      PROVE  SameParties(w, v) /\ Drifts(Base(w), Base(v), s) /\ Moved(w, v, s)
             /\ v.party = w.party
  <2>1. Sound(w) /\ Complete(w) /\ Calm(Base(w))
    BY <1>2 DEF Whole, Sound
  <2>2. SameParties(w, v) /\ Base(v) \in RoomLeave(Base(w), s)
    BY <1>2, <2>1, RoomExits, BaseExits
  <2>3. QED
    BY <2>1, <2>2, MovedSame, RoomLeaveDrifts DEF SameParties
<1>3. CASE ~HasParty(x, s)
  <2>1. x.party[s] = NoParty /\ y \in RoomLeave(x, s)
    BY <1>1, <1>3, WhoWaits DEF ClanRoomLeft
  <2>2. QED
    BY <1>2, <2>1, StaysWhole
<1>4. CASE HasParty(x, s) /\ x.num[s] \notin DOMAIN x.rooms
  <2>1. y = x
    BY <1>4 DEF ClanRoomLeft, RoomLeave
  <2>2. QED
    BY <2>1
<1>5. CASE HasParty(x, s) /\ x.num[s] \in DOMAIN x.rooms
  <2> DEFINE l == LeftParty(x, s)
  <2>1. CanLeave(PartyOf(x, s), s) /\ Whole(l) /\ l.party[s] = NoParty
    BY <1>1, <1>5, LeftPartyWhole, LeftPartyParts
  <2>2. y = l \/ y \in RoomLeave(l, s)
    BY <1>5, <2>1 DEF ClanRoomLeft
  <2> HIDE DEF l
  <2>3. QED
    BY <1>2, <2>1, <2>2, StaysWhole
<1>6. QED
  BY <1>3, <1>4, <1>5

\* handleMatchLeave: who is not the host stays in the room and in the party.
LEMMA ClanMatchLeftWhole ==
    ASSUME NEW x, Whole(x), NEW s \in Session, NEW y \in ClanMatchLeft(x, s)
    PROVE  Whole(y)
<1>1. Sound(x) /\ Complete(x) /\ Calm(Base(x))
  BY DEF Whole, Sound
<1>2. ASSUME NEW w, Whole(w), NEW v \in MatchLeave(w, s)
      PROVE  /\ SameParties(w, v) /\ Drifts(Base(w), Base(v), s) /\ Moved(w, v, s)
             /\ v.party = w.party
             /\ (w.num[s] \in DOMAIN w.rooms => ~IsHost(w.rooms[w.num[s]], s)) => v.num = w.num
  <2>1. Sound(w) /\ Complete(w) /\ Calm(Base(w))
    BY <1>2 DEF Whole, Sound
  <2>2. SameParties(w, v) /\ Base(v) \in MatchLeave(Base(w), s)
    BY <1>2, <2>1, RoomExits, BaseExits
  <2>3. QED
    BY <2>1, <2>2, MovedSame, MatchLeaveDrifts, BaseFields DEF SameParties
<1>3. CASE ~HasParty(x, s)
  <2>1. x.party[s] = NoParty /\ y \in MatchLeave(x, s)
    BY <1>1, <1>3, WhoWaits DEF ClanMatchLeft
  <2>2. QED
    BY <1>2, <2>1, StaysWhole
<1>4. CASE HasParty(x, s) /\ x.num[s] \notin DOMAIN x.rooms
  <2>1. y = x
    BY <1>4 DEF ClanMatchLeft, MatchLeave
  <2>2. QED
    BY <2>1
<1>5. CASE HasParty(x, s) /\ x.num[s] \in DOMAIN x.rooms
  <2>1. CASE IsHost(x.rooms[x.num[s]], s)
    <3> DEFINE l == LeftParty(x, s)
    <3>1. CanLeave(PartyOf(x, s), s) /\ Whole(l) /\ l.party[s] = NoParty
      BY <1>1, <1>5, LeftPartyWhole, LeftPartyParts
    <3>2. y \in MatchLeave(l, s)
      BY <1>5, <2>1, <3>1 DEF ClanMatchLeft
    <3> HIDE DEF l
    <3>3. QED
      BY <1>2, <3>1, <3>2, StaysWhole
  <2>2. CASE ~IsHost(x.rooms[x.num[s]], s)
    <3> DEFINE k == KeyOf(x, s)
               p == x.parties[k]
               q == HandedIfLeader(p, s)
               h == [x EXCEPT !.parties[k] = q]
    <3>1. y \in MatchLeave(h, s)
      BY <1>5, <2>2, <1>1 DEF ClanMatchLeft, Complete, ClanWorldFields
    <3>2. k \in DOMAIN x.parties /\ SoundParty(p) /\ s \in LiveIn(p.waiting)
      BY <1>1, <1>5, WhoWaits DEF HasParty, PartyOf
    <3>3. IsLeader(p, s) <=> LeaderOf(p) = s
      BY <1>1, <3>2, Leaders
    <3> HIDE DEF p
    <3>4. /\ SoundParty(q) /\ LiveIn(q.waiting) = LiveIn(p.waiting)
          /\ LeaderOf(p) # s => LeaderOf(q) = LeaderOf(p)
      BY <3>2, <3>3, HandedParty DEF HandedIfLeader
    <3> HIDE DEF q
    <3>5. Moved(x, h, s) /\ h.party = x.party
      BY <1>1, <3>2, <3>4, MovedWithin DEF p
    <3>6. Base(h) = Base(x)
      BY <1>1, BaseStays
    <3> HIDE DEF h
    <3>7. Drifts(Base(x), Base(h), s) /\ h.num = x.num /\ h.rooms = x.rooms
      BY <3>6, SameBase
    <3>8. Whole(h)
      BY <3>5, <3>7, StaysWhole
    <3>9. SameParties(h, y) /\ Drifts(Base(h), Base(y), s) /\ Moved(h, y, s)
          /\ y.party = h.party /\ y.num = h.num
      BY <1>2, <2>2, <3>1, <3>7, <3>8
    <3>10. QED
      BY <3>8, <3>9, StaysWhole
  <2>3. QED
    BY <2>1, <2>2
<1>6. QED
  BY <1>3, <1>4, <1>5

-----------------------------------------------------------------------------
(* Who joins a party follows its leader. *)

\* Room::addPlayer, for somebody who is in no room.
LEMMA JoinedCalm ==
    ASSUME NEW b, Calm(b), NEW s \in Session, b.num[s] = NoNumber, NEW n
    PROVE  LET c == ClanRoomJoined(b, n, s)
           IN  /\ Calm(c)
               /\ n \in DOMAIN b.rooms => c.num = [b.num EXCEPT ![s] = n]
               /\ n \notin DOMAIN b.rooms => c = b
<1> DEFINE c == ClanRoomJoined(b, n, s)
<1>1. CASE n \notin DOMAIN b.rooms
  BY <1>1 DEF ClanRoomJoined
<1>2. CASE n \in DOMAIN b.rooms
  <2> DEFINE r == b.rooms[n]
             q == Append(r.players, NewSeat(s))
             t == [r EXCEPT !.players = q]
             f == [b.rooms EXCEPT ![n] = t]
             u == [b.num EXCEPT ![s] = n]
  <2>1. /\ Good(b) /\ SeatsMatch(b) /\ b.gen.next <= MaxNumber
        /\ b \in World /\ b.rooms \in RoomTables /\ b.num \in [Session -> Slot]
        /\ r \in RoomRecord /\ SeatedOnce(r) /\ r.vkTarget = NoSession /\ n \in Slot
        /\ Agreed(b.rooms, b.num)
    BY <1>2, RoomIn, WorldFields, TableType DEF Calm, Good, SeatsMatch
  <2>2. s \notin Members(r) /\ n # NoNumber
    BY <1>2, <2>1 DEF Agreed
  <2>3. c.rooms = f /\ c.num = u /\ c.gen = b.gen /\ c.ps = b.ps /\ c \in World
    <3>1. c = [Put(b, n, t) EXCEPT !.num = [@ EXCEPT ![s] = n]]
      BY <1>2, <2>2 DEF ClanRoomJoined
    <3>2. t \in RoomRecord
      <4>1. NewSeat(s) \in Seat
        BY DEF NewSeat, Seat, State
      <4>2. q \in Seq(Seat)
        BY <2>1, <4>1, RoomFields
      <4> HIDE DEF q, r
      <4>3. QED
        BY <2>1, <4>2 DEF RoomRecord
    <3>3. f \in RoomTables /\ u \in [Session -> Slot]
      <4> HIDE DEF t
      <4> QED BY <1>2, <2>1, <3>2, TableType
    <3> HIDE DEF t, c
    <3>4. c = [b EXCEPT !.rooms = f, !.num = u]
      BY <2>1, <3>1 DEF Put, World
    <3> HIDE DEF f, u
    <3>5. QED
      BY <2>1, <3>3, <3>4 DEF World
  <2> HIDE DEF c
  <2>4. SeatedOnce(t) /\ Members(t) = Members(r) \cup {s}
    <3> HIDE DEF r
    <3> QED BY <2>1, <2>2, SeatTaken
  <2>5. t.vkTarget = NoSession
    <3> HIDE DEF q
    <3> QED BY <2>1 DEF RoomRecord
  <2> HIDE DEF t, r
  <2>6. /\ DOMAIN f = DOMAIN b.rooms /\ f[n] = t
        /\ \A k \in DOMAIN f : k # n => f[k] = b.rooms[k]
        /\ \A k \in Session : u[k] = IF k = s THEN n ELSE b.num[k]
    BY <1>2, <2>1
  <2> HIDE DEF f, u
  <2>7. Agreed(f, u)
    <3>1. ASSUME NEW j \in DOMAIN f, NEW k \in Session
          PROVE  k \in Members(f[j]) <=> u[k] = j
      <4>1. (k \in Members(b.rooms[j]) <=> b.num[k] = j) /\ j # NoNumber
        BY <2>1, <2>6 DEF Agreed
      <4>2. CASE j = n
        BY <2>4, <2>6, <4>1, <4>2 DEF r
      <4>3. CASE j # n
        BY <2>6, <4>1, <4>3
      <4>4. QED
        BY <4>2, <4>3
    <3>2. QED
      BY <1>2, <2>1, <2>6, <3>1 DEF Agreed
  <2>8. Good(c)
    BY <2>1, <2>3, <2>6 DEF Good
  <2>9. Calm(c)
    BY <2>1, <2>3, <2>4, <2>5, <2>6, <2>7, <2>8 DEF Calm, SeatsMatch
  <2>10. QED
    BY <1>2, <2>3, <2>9 DEF c, u
<1>3. QED
  BY <1>1, <1>2

LEMMA BaseJoined ==
    ASSUME NEW x, Complete(x), NEW n, NEW s
    PROVE  Base(ClanRoomJoined(x, n, s)) = ClanRoomJoined(Base(x), n, s)
<1> DEFINE r == [x.rooms[n] EXCEPT !.players = Append(@, NewSeat(s))]
           p == Put(x, n, r)
           u == [x.num EXCEPT ![s] = n]
<1>1. Base(x).rooms = x.rooms /\ Base(x).num = x.num
  BY BaseFields
<1> HIDE DEF r
<1>2. /\ Complete(p) /\ Base(p) = Put(Base(x), n, r) /\ p.num = x.num
      /\ Put(Base(x), n, r).num = x.num
  BY DEF Put, Base, Complete, ClanWorldFields
<1>3. ClanRoomJoined(x, n, s) =
        IF n \notin DOMAIN x.rooms \/ s \in Members(x.rooms[n]) THEN x ELSE [p EXCEPT !.num = u]
  BY <1>2 DEF ClanRoomJoined, r
<1>4. ClanRoomJoined(Base(x), n, s) =
        IF n \notin DOMAIN x.rooms \/ s \in Members(x.rooms[n]) THEN Base(x)
        ELSE [Put(Base(x), n, r) EXCEPT !.num = u]
  BY <1>1, <1>2 DEF ClanRoomJoined, r
<1> HIDE DEF p, u
<1>5. Base([p EXCEPT !.num = u]) = [Base(p) EXCEPT !.num = u]
  BY <1>2 DEF Base, Complete, ClanWorldFields
<1>6. QED
  BY <1>2, <1>3, <1>4, <1>5

\* handlePartyJoin.
LEMMA PartyJoinedWhole ==
    ASSUME NEW x, Whole(x), NEW k, NEW s \in Session, ClanOf[s] = k[1],
           x.party[s] = NoParty, x.num[s] = NoNumber
    PROVE  LET y == PartyJoined(x, k, s)
           IN  /\ Whole(y) /\ Kept(x, y)
               /\ \A t \in Session : y.party[t] = x.party[t] \/ (t = s /\ y.party[t] = k[2])
               /\ (k \in DOMAIN x.parties => x.num[LeaderOf(x.parties[k])] = NoNumber)
                    => Base(y) = Base(x)
<1> DEFINE y == PartyJoined(x, k, s)
<1>1. Sound(x) /\ Complete(x) /\ Calm(Base(x)) /\ Together(x)
  BY DEF Whole, Sound
<1>2. Kept(x, y)
  BY <1>1, PartyJoins
<1>3. CASE k \notin DOMAIN x.parties \/ ~Open(x.parties[k])
  <2>1. y = x
    BY <1>3 DEF PartyJoined
  <2> HIDE DEF y
  <2>2. QED
    BY <1>2, <2>1 DEF y
<1>4. CASE k \in DOMAIN x.parties /\ Open(x.parties[k])
  <2> DEFINE z == AddedToParty(x, k, s)
             h == LeaderOf(x.parties[k])
             m == x.num[h]
  <2>1. Kept(x, z) /\ z.party = [x.party EXCEPT ![s] = k[2]]
    BY <1>1, <1>4, AddedParty
  <2>2. y = ClanRoomJoined(z, m, s)
    BY <1>4 DEF PartyJoined
  <2>3. Base(z) = Base(x)
    BY <1>1, BaseStays
  <2> HIDE DEF y, z
  <2>4. Complete(z) /\ Sound(z)
    BY <2>1 DEF Kept, Sound
  <2>5. y.party = z.party
    BY <2>2, <2>4, RoomEffects DEF SameParties
  <2>6. Base(y) = ClanRoomJoined(Base(x), m, s)
    BY <2>2, <2>3, <2>4, BaseJoined
  <2>7. x.rooms = Base(x).rooms /\ x.num = Base(x).num /\ y.num = Base(y).num
    BY BaseFields
  <2>8. /\ Calm(Base(y))
        /\ m \in DOMAIN x.rooms => y.num = [x.num EXCEPT ![s] = m]
        /\ m \notin DOMAIN x.rooms => Base(y) = Base(x)
    BY <1>1, <2>6, <2>7, JoinedCalm
  <2>9. h \in Session /\ KeyOf(x, h) = k /\ k \in Key /\ h # s
    <3>1. h \in Session /\ h \in LiveIn(x.parties[k].waiting)
      BY <1>1, <1>4, Leaders
    <3>2. k = KeyOf(x, h)
      BY <1>1, <1>4, <3>1, WhoWaits
    <3>3. k \in Key
      BY <1>1, <1>4 DEF Sound, Agreeing
    <3>4. h # s
      BY <3>2, <3>3 DEF KeyOf, Key, NoParty
    <3>5. QED
      BY <3>1, <3>2, <3>3, <3>4
  <2>10. /\ NoNumber \notin DOMAIN x.rooms
         /\ \A t \in Session : x.num[t] # NoNumber => x.num[t] \in DOMAIN x.rooms
         /\ x.num \in [Session -> Slot]
    BY <1>1, <2>7, WorldFields DEF Calm, SeatsMatch, Agreed, Good
  <2>11. y.num[s] = m /\ \A t \in Session : t # s => y.num[t] = x.num[t]
    <3>1. CASE m \in DOMAIN x.rooms
      BY <2>8, <2>10, <3>1
    <3>2. CASE m \notin DOMAIN x.rooms
      BY <2>7, <2>8, <2>9, <2>10, <3>2
    <3>3. QED
      BY <3>1, <3>2
  <2>12. y.party[s] = k[2] /\ \A t \in Session : t # s => y.party[t] = x.party[t]
    BY <1>1, <2>1, <2>5 DEF Sound, Agreeing
  <2>13. KeyOf(y, s) = k
    BY <2>9, <2>12 DEF KeyOf, Key
  <2>14. \A t \in Session : t # s => KeyOf(y, t) = KeyOf(x, t)
    BY <2>12 DEF KeyOf
  <2>15. x.party[h] # NoParty
    BY <2>9 DEF KeyOf, Key, NoParty
  <2>16. \A t \in Session : t # s /\ KeyOf(y, t) = k => y.num[t] = m
    BY <1>1, <2>9, <2>11, <2>14, <2>15 DEF Together
  <2>17. Together(y)
    <3> SUFFICES ASSUME NEW t \in Session, NEW u \in Session,
                        y.party[t] # NoParty, KeyOf(y, t) = KeyOf(y, u)
                 PROVE  y.num[t] = y.num[u]
      BY DEF Together
    <3>1. CASE t = s \/ u = s
      BY <2>11, <2>13, <2>16, <3>1
    <3>2. CASE t # s /\ u # s
      BY <1>1, <2>11, <2>12, <2>14, <3>2 DEF Together
    <3>3. QED
      BY <3>1, <3>2
  <2>18. Whole(y)
    BY <1>2, <2>8, <2>17 DEF Whole, Kept
  <2>19. x.num[h] = NoNumber => Base(y) = Base(x)
    BY <2>8, <2>10
  <2>20. QED
    BY <1>2, <1>4, <2>12, <2>18, <2>19 DEF y
<1>5. QED
  BY <1>3, <1>4

-----------------------------------------------------------------------------
(* The actions, of servers with numbers left and rooms in order. *)

Gathered == Whole(ClanNow) /\ online \subseteq Session

LEMMA ClanNowWhole ==
    /\ Base(ClanNow) = Now
    /\ ClanNow.rooms = rooms /\ ClanNow.gen = gen /\ ClanNow.num = roomNum /\ ClanNow.ps = pstate
    /\ Whole(ClanNow) <=> PartiesAgreed /\ Calm(Now) /\ Together(ClanNow)
    /\ Gathered => Inv
<1>1. /\ Base(ClanNow) = Now
      /\ ClanNow.rooms = rooms /\ ClanNow.gen = gen
      /\ ClanNow.num = roomNum /\ ClanNow.ps = pstate
  BY DEF Base, ClanNow, Now
<1>2. Whole(ClanNow) <=> PartiesAgreed /\ Calm(Now) /\ Together(ClanNow)
  BY <1>1, ClanNowFields DEF Whole
<1>3. Gathered => Inv
  BY <1>2, NowGood DEF Gathered, Calm
<1>4. QED
  BY <1>1, <1>2, <1>3

\* What the next state's worlds say, of the variables.
LEMMA WholeNext ==
    /\ Whole(ClanNow)' <=> PartiesAgreed' /\ Calm(Now)' /\ Together(ClanNow)'
    /\ Together(ClanNow)' <=>
          \A s, t \in Session :
             partyNum'[s] # NoParty /\ ClanOf[s] = ClanOf[t] /\ partyNum'[s] = partyNum'[t]
                => roomNum'[s] = roomNum'[t]
    /\ Calm(Now)' <=>
          /\ Good(Now)' /\ SeatsMatch(Now)' /\ gen'.next <= MaxNumber
          /\ \A n \in DOMAIN rooms' : rooms'[n].vkTarget = NoSession
<1>1. /\ ClanNow'.num = roomNum' /\ ClanNow'.party = partyNum'
      /\ ClanNow'.rooms = rooms' /\ ClanNow'.gen = gen' /\ ClanNow'.ps = pstate'
  BY DEF ClanNow
<1>2. Together(ClanNow)' <=>
          \A s, t \in Session :
             partyNum'[s] # NoParty /\ ClanOf[s] = ClanOf[t] /\ partyNum'[s] = partyNum'[t]
                => roomNum'[s] = roomNum'[t]
  BY <1>1 DEF Together, KeyOf
<1>3. Calm(Now)' <=>
          /\ Good(Now)' /\ SeatsMatch(Now)' /\ gen'.next <= MaxNumber
          /\ \A n \in DOMAIN rooms' : rooms'[n].vkTarget = NoSession
  BY NowFields DEF Calm
<1>4. Whole(ClanNow)' <=> PartiesAgreed' /\ Calm(Now)' /\ Together(ClanNow)'
  BY ClanNowWhole, PTL
<1>5. QED
  BY <1>2, <1>3, <1>4

LEMMA BecomesWhole ==
    ASSUME NEW x, Whole(x), ClanBecome(x), online' \subseteq Session
    PROVE  Gathered'
<1>1. /\ Sound(x) /\ Calm(Base(x)) /\ Together(x)
      /\ rooms' = x.rooms /\ gen' = x.gen /\ roomNum' = x.num /\ pstate' = x.ps
      /\ parties' = x.parties /\ partyNum' = x.party
  BY DEF Whole, ClanBecome, Become
<1>2. PartiesAgreed'
  BY <1>1, ClanBecomes
<1>3. Now' = Base(x)
  BY <1>1 DEF Now, Base
<1>4. Calm(Now)'
  BY <1>1, <1>3
<1>5. Together(ClanNow)'
  BY <1>1, WholeNext DEF Together, KeyOf
<1>6. QED
  BY <1>2, <1>4, <1>5, WholeNext DEF Gathered

\* Nobody moves.
LEMMA NobodyMoves ==
    ASSUME Gathered, PartiesAgreed', UNCHANGED <<rooms, gen, roomNum, pstate, partyNum>>,
           online' \subseteq Session
    PROVE  Gathered'
<1>1. Calm(Now) /\ Together(ClanNow)
  BY ClanNowWhole DEF Gathered
<1>2. Now' = Now
  BY DEF Now
<1>3. Calm(Now)'
  BY <1>1, <1>2
<1>4. Together(ClanNow)'
  BY <1>1, ClanNowFields, ClanNowWhole, WholeNext DEF Together, KeyOf
<1>5. QED
  BY <1>3, <1>4, WholeNext DEF Gathered

LEMMA LeadsWhole ==
    ASSUME Gathered, NEW s \in Session,
           \/ Register(s) \/ (\E n \in Sizes : SetSize(s, n)) \/ (\E i : ChangeLeader(s, i))
    PROVE  Gathered'
<1>1. PartiesAgreed /\ online \subseteq Session
  BY ClanNowWhole DEF Gathered
<1>2. PartiesAgreed'
  BY <1>1, RegisterStep, SetSizeStep, ChangeLeaderStep
<1>3. UNCHANGED <<rooms, gen, roomNum, pstate, partyNum, online>>
  BY DEF Register, SetSize, ChangeLeader, UpdateParty, vars
<1>4. QED
  BY <1>1, <1>2, <1>3, NobodyMoves

LEMMA ClanConnectWhole ==
    ASSUME Gathered, NEW s \in Session, ClanConnect(s)
    PROVE  Gathered'
<1>1. PartiesAgreed /\ online \subseteq Session
  BY ClanNowWhole DEF Gathered
<1>2. /\ UNCHANGED <<rooms, gen, roomNum, pstate, partyNum>> /\ online' \subseteq Session
  BY <1>1 DEF ClanConnect, Connect
<1>3. QED
  BY <1>1, <1>2, ClanConnectStep, NobodyMoves

\* handlePartyCreation: nobody has the number yet.
LEMMA CreatePartyWhole ==
    ASSUME Gathered, NEW s \in Session, CreateParty(s)
    PROVE  Gathered'
<1> DEFINE x == ClanNow
           free == FreeNumbers(ClanOf[s])
           i == CHOOSE j \in free : \A m \in free : j <= m
           k == <<ClanOf[s], i>>
           z == PartyMade(x, k)
           y == AddedToParty(z, k, s)
<1>1. /\ PartiesAgreed /\ Calm(Now) /\ Together(x) /\ online \subseteq Session
      /\ Complete(x) /\ x.party = partyNum /\ x.num = roomNum /\ Base(x) = Now
  BY ClanNowWhole, ClanNowFields DEF Gathered
<1>2. free # {} /\ ClanBecome(y) /\ online' = online
  BY DEF CreateParty
<1>3. i \in 1 .. MaxParties /\ k \notin DOMAIN parties
  <2>1. free \in SUBSET Nat
    BY DEF FreeNumbers
  <2>2. \E j \in free : \A m \in free : j <= m
    BY <1>2, <2>1, LeastNatural
  <2>3. i \in free
    <3> HIDE DEF free
    <3> QED BY <2>2
  <2>4. QED
    BY <2>3 DEF FreeNumbers
<1> HIDE DEF x, i, free
<1>4. Base(y) = Now /\ y.party = [partyNum EXCEPT ![s] = i]
  <2>1. Complete(z) /\ Base(z) = Base(x) /\ z.party = x.party
    BY <1>1 DEF PartyMade, Base, Complete, ClanWorldFields
  <2> HIDE DEF z
  <2>2. y.party = [z.party EXCEPT ![s] = k[2]]
    <3> HIDE DEF k
    <3> QED BY <2>1 DEF AddedToParty, Complete, ClanWorldFields
  <2>3. QED
    BY <1>1, <2>1, <2>2, BaseStays
<1> HIDE DEF y
<1>5. UNCHANGED <<rooms, gen, roomNum, pstate>> /\ partyNum' = [partyNum EXCEPT ![s] = i]
  <2>1. y.rooms = rooms /\ y.gen = gen /\ y.num = roomNum /\ y.ps = pstate
    BY <1>4, NowFields, BaseFields
  <2>2. QED
    BY <1>2, <1>4, <2>1 DEF ClanBecome, Become
<1>6. PartiesAgreed'
  BY <1>1, CreatePartyStep
<1>7. Calm(Now)'
  <2>1. Now' = Now
    BY <1>5 DEF Now
  <2>2. QED
    BY <1>1, <2>1
<1>8. /\ partyNum \in [Session -> 0 .. MaxParties]
      /\ \A t \in Session : <<ClanOf[t], partyNum[t]>> # k
  <2>1. k \in Key
    BY <1>3, Keys
  <2> HIDE DEF k
  <2>2. QED
    BY <1>1, <1>3, <2>1 DEF PartiesAgreed, Agreeing
<1>9. \A t \in Session : partyNum'[t] = IF t = s THEN i ELSE partyNum[t]
  BY <1>5, <1>8
<1>10. Together(ClanNow)'
  <2>1. ASSUME NEW t \in Session, NEW u \in Session, partyNum'[t] # NoParty,
               ClanOf[t] = ClanOf[u], partyNum'[t] = partyNum'[u]
        PROVE  roomNum[t] = roomNum[u]
    <3>1. CASE t = s /\ u = s
      BY <3>1
    <3>2. CASE t # s /\ u # s
      <4>1. partyNum[t] # NoParty /\ KeyOf(x, t) = KeyOf(x, u)
        BY <1>1, <1>9, <2>1, <3>2 DEF KeyOf
      <4>2. QED
        BY <1>1, <4>1 DEF Together
    <3>3. CASE (t = s /\ u # s) \/ (t # s /\ u = s)
      BY <1>8, <1>9, <2>1, <3>3
    <3>4. QED
      BY <3>1, <3>2, <3>3
  <2>2. QED
    BY <1>5, <2>1, WholeNext
<1>11. QED
  BY <1>1, <1>2, <1>6, <1>7, <1>10, WholeNext DEF Gathered

LEMMA JoinPartyWhole ==
    ASSUME Gathered, RoomsInOrder, NEW s \in Session, NEW k, JoinParty(s, k)
    PROVE  Gathered'
<1>1. /\ Whole(ClanNow) /\ online \subseteq Session
      /\ ClanNow.party = partyNum /\ ClanNow.num = roomNum
  BY ClanNowWhole, ClanNowFields DEF Gathered
<1>2. /\ partyNum[s] = NoParty /\ ClanOf[s] = k[1] /\ ClanBecome(PartyJoined(ClanNow, k, s))
      /\ online' = online
  BY DEF JoinParty
<1>3. roomNum[s] = NoNumber
  BY <1>2 DEF RoomsInOrder
<1>4. Whole(PartyJoined(ClanNow, k, s))
  BY <1>1, <1>2, <1>3, PartyJoinedWhole
<1>5. QED
  BY <1>1, <1>2, <1>4, BecomesWhole

LEMMA LeavesWhole ==
    ASSUME Gathered, NEW s \in Session, LeaveParty(s) \/ LeaveClanRoom(s) \/ LeaveClanMatch(s)
    PROVE  Gathered'
<1>1. Whole(ClanNow) /\ online \subseteq Session
  BY DEF Gathered
<1>2. CASE LeaveParty(s)
  BY <1>1, <1>2, PartyLeaveWhole, BecomesWhole DEF LeaveParty
<1>3. CASE LeaveClanRoom(s)
  BY <1>1, <1>3, ClanRoomLeftWhole, BecomesWhole DEF LeaveClanRoom
<1>4. CASE LeaveClanMatch(s)
  BY <1>1, <1>4, ClanMatchLeftWhole, BecomesWhole DEF LeaveClanMatch
<1>5. QED
  BY <1>2, <1>3, <1>4

\* removeSession: the match, the room, the party, and then the session itself.
LEMMA ClanDisconnectWhole ==
    ASSUME Gathered, NEW s \in Session, ClanDisconnect(s)
    PROVE  Gathered'
<1>1. Whole(ClanNow) /\ online' \subseteq Session
  BY DEF Gathered, ClanDisconnect
<1>2. PICK x \in IF roomNum[s] # NoNumber /\ InMatch(pstate[s])
                 THEN ClanMatchLeft(ClanNow, s) ELSE {ClanNow} :
           \E y \in IF roomNum[s] # NoNumber THEN ClanRoomLeft(x, s) ELSE {x} :
           \E z \in IF y.party[s] # NoParty THEN PartyLeave(y, s) ELSE {y} :
              ClanBecome(Gone(z, s))
  BY DEF ClanDisconnect
<1>3. PICK y \in IF roomNum[s] # NoNumber THEN ClanRoomLeft(x, s) ELSE {x} :
           \E z \in IF y.party[s] # NoParty THEN PartyLeave(y, s) ELSE {y} :
              ClanBecome(Gone(z, s))
  BY <1>2
<1>4. PICK z \in IF y.party[s] # NoParty THEN PartyLeave(y, s) ELSE {y} : ClanBecome(Gone(z, s))
  BY <1>3
<1>5. Whole(x)
  BY <1>1, <1>2, ClanMatchLeftWhole
<1>6. Whole(y)
  BY <1>3, <1>5, ClanRoomLeftWhole
<1>7. Whole(z) /\ z.party[s] = NoParty
  BY <1>4, <1>6, PartyLeaveWhole DEF Parted
<1> DEFINE g == Gone(z, s)
<1>8. Sound(z) /\ Complete(z) /\ Calm(Base(z))
  BY <1>7 DEF Whole, Sound
<1>9. SameParties(z, g) /\ Base(g) = Destroyed(Base(z), s)
  BY <1>7, <1>8, GoneParties, BaseEffects
<1>10. Drifts(Base(z), Base(g), s)
  BY <1>8, <1>9, DestroyedDrifts
<1> HIDE DEF g
<1>11. Moved(z, g, s) /\ g.party[s] = NoParty
  BY <1>7, <1>8, <1>9, MovedSame DEF SameParties
<1>12. Whole(g)
  BY <1>7, <1>10, <1>11, StaysWhole
<1>13. QED
  BY <1>1, <1>4, <1>12, BecomesWhole DEF g

\* One room changes and nobody moves.
LEMMA ChangeCalm ==
    ASSUME Gathered, NEW n \in DOMAIN rooms, NEW t, Keeps(rooms[n], t, {}),
           t.vkTarget = NoSession, rooms' = [rooms EXCEPT ![n] = t],
           gen' = gen, roomNum' = roomNum, Inv'
    PROVE  Calm(Now)'
<1>1. /\ Calm(Now) /\ Good(Now) /\ SeatsMatch(Now)
      /\ \A k \in DOMAIN rooms : SeatedOnce(rooms[k]) /\ rooms[k].vkTarget = NoSession
      /\ gen.next <= MaxNumber /\ Agreed(rooms, roomNum)
  BY ClanNowWhole, NowFields DEF Gathered, Calm, SeatsMatch
<1>2. SeatedOnce(t) /\ Members(t) = Members(rooms[n])
  BY DEF Keeps
<1>3. /\ DOMAIN rooms' = DOMAIN rooms /\ rooms'[n] = t
      /\ \A k \in DOMAIN rooms : k # n => rooms'[k] = rooms[k]
  OBVIOUS
<1>4. Agreed(rooms', roomNum')
  BY <1>1, <1>2, <1>3 DEF Agreed
<1>5. SeatsMatch(Now)'
  BY <1>1, <1>2, <1>3, <1>4, NextWorld
<1>6. Good(Now)'
  BY NowGood, PTL
<1>7. QED
  BY <1>1, <1>3, <1>5, <1>6, WholeNext

LEMMA ClanMatchWhole ==
    ASSUME Gathered, NEW s \in Session, StartClanMatch(s) \/ EndClanMatch(s)
    PROVE  Gathered'
<1> DEFINE n == roomNum[s]
           r == RoomOf(s)
<1>1. /\ Inv /\ PartiesAgreed /\ Calm(Now) /\ Together(ClanNow) /\ online \subseteq Session
  BY ClanNowWhole DEF Gathered
<1>2. StartMatch(s) \/ EndMatch(s)
  BY DEF StartClanMatch, EndClanMatch
<1>3. Inv' /\ PartiesAgreed'
  BY <1>1, <1>2, StartMatchGood, EndMatchGood, ClanMatchStep
<1>4. /\ InRoom(s) /\ n \in DOMAIN rooms /\ r = rooms[n] /\ r \in RoomRecord /\ SeatedOnce(r)
      /\ Good(Now) /\ SeatsMatch(Now)
  <2>1. InRoom(s) /\ n \in DOMAIN rooms /\ r = rooms[n]
    BY <1>2 DEF StartMatch, EndMatch, InRoom, RoomOf
  <2>2. QED
    BY <1>1, <2>1, RoomIn, NowFields DEF Calm
<1>5. r.vkTarget = NoSession /\ \A k \in DOMAIN rooms : rooms[k].vkTarget = NoSession
  BY <1>1, <1>4, NowFields DEF Calm
<1> HIDE DEF n, r
<1>6. ASSUME EndMatch(s)
      PROVE  Calm(Now)' /\ roomNum' = roomNum /\ online' = online
  <2> DEFINE t == EndedRoom(r, pstate)
  <2>1. rooms' = [rooms EXCEPT ![n] = t] /\ gen' = gen /\ roomNum' = roomNum /\ online' = online
    BY <1>4, <1>6 DEF EndMatch, n, r
  <2>2. Keeps(rooms[n], t, {}) /\ t.vkTarget = NoSession
    <3>1. Keeps(r, t, {})
      BY <1>4, EndedRoomFair
    <3>2. t.vkTarget = NoSession
      BY <1>4, TargetStays
    <3>3. QED
      BY <1>4, <3>1, <3>2
  <2> HIDE DEF t
  <2>3. Calm(Now)' /\ roomNum' = roomNum /\ online' = online
    BY <1>3, <1>4, <2>1, <2>2, ChangeCalm
  <2>4. QED
    BY <2>3
<1>7. ASSUME rooms' = [rooms EXCEPT ![roomNum[s]] = StartedRoom(@)],
             UNCHANGED <<gen, roomNum, online>>
      PROVE  Calm(Now)' /\ roomNum' = roomNum /\ online' = online
  <2> DEFINE t == StartedRoom(r)
  <2>1. rooms' = [rooms EXCEPT ![n] = t] /\ gen' = gen /\ roomNum' = roomNum /\ online' = online
    BY <1>4, <1>7 DEF n, r
  <2>2. Keeps(rooms[n], t, {}) /\ t.vkTarget = NoSession
    <3>1. Keeps(r, t, {})
      BY <1>4, StartedRoomFair
    <3>2. t.vkTarget = NoSession
      BY <1>4, TargetStays
    <3>3. QED
      BY <1>4, <3>1, <3>2
  <2> HIDE DEF t
  <2>3. Calm(Now)' /\ roomNum' = roomNum /\ online' = online
    BY <1>3, <1>4, <2>1, <2>2, ChangeCalm
  <2>4. QED
    BY <2>3
<1>8. ASSUME Become(SetStateIn(Now, n, {s}, "NORMAL")), online' = online
      PROVE  Calm(Now)' /\ roomNum' = roomNum /\ online' = online
  <2> DEFINE t == SetStateFor(r, {s}, "NORMAL")
  <2>1. /\ rooms' = [rooms EXCEPT ![n] = t] /\ gen' = gen /\ roomNum' = roomNum
    <3> DEFINE y == SetStateIn(Now, n, {s}, "NORMAL")
    <3>1. Now.rooms = rooms /\ Now.num = roomNum /\ Now.gen = gen /\ Now \in World
      BY <1>4, NowFields DEF Good
    <3>2. y.rooms = [rooms EXCEPT ![n] = t] /\ y.num = roomNum /\ y.gen = gen
      BY <1>4, <3>1 DEF SetStateIn, Put, World
    <3> HIDE DEF y
    <3>3. QED
      BY <1>8, <3>2 DEF Become, y
  <2>2. Keeps(rooms[n], t, {}) /\ t.vkTarget = NoSession
    <3>1. Keeps(r, t, {}) /\ t.vkTarget = r.vkTarget
      BY <1>4, SetStateForKeeps
    <3>2. QED
      BY <1>4, <1>5, <3>1
  <2> HIDE DEF t
  <2>3. Calm(Now)' /\ roomNum' = roomNum /\ online' = online
    BY <1>3, <1>4, <1>8, <2>1, <2>2, ChangeCalm
  <2>4. QED
    BY <2>3
<1>9. Calm(Now)' /\ roomNum' = roomNum /\ online' = online
  BY <1>2, <1>6, <1>7, <1>8 DEF StartMatch, n, r
<1>10. Together(ClanNow)'
  <2>1. partyNum' = partyNum
    BY DEF StartClanMatch, EndClanMatch
  <2>2. QED
    BY <1>1, <1>9, <2>1, ClanNowFields, ClanNowWhole, WholeNext DEF Together, KeyOf
<1>11. QED
  BY <1>1, <1>3, <1>9, <1>10, WholeNext DEF Gathered

\* removeRoom: who was in the room is in none, and the others stay together.
LEMMA CloseWhole ==
    ASSUME NEW x, Whole(x), NEW n \in DOMAIN x.rooms
    PROVE  LET y == CloseRoom(x, n)
           IN  /\ Whole(y) /\ SameParties(x, y)
               /\ \A t \in Session : x.num[t] = n => y.num[t] = NoNumber
<1> DEFINE y == CloseRoom(x, n)
<1>1. Sound(x) /\ Complete(x) /\ Calm(Base(x)) /\ Together(x)
  BY DEF Whole, Sound
<1>2. SameParties(x, y) /\ Base(y) = CloseRoom(Base(x), n)
  BY <1>1, RoomEffects, BaseEffects
<1>3. Drifts(Base(x), Base(y), NoSession)
  BY <1>1, <1>2, CloseRoomDrifts
<1>4. x.num = Base(x).num /\ y.num = Base(y).num /\ x.rooms = Base(x).rooms
  BY BaseFields
<1>5. \A t \in Session : x.num[t] = n => y.num[t] = NoNumber
  <2>1. y.num = Unhoused(x.num, Members(x.rooms[n]))
    BY <1>1 DEF CloseRoom, Complete, ClanWorldFields
  <2>2. \A t \in Session : x.num[t] = n => t \in Members(x.rooms[n])
    BY <1>1, <1>4, RoomIn DEF Calm
  <2>3. QED
    BY <2>1, <2>2 DEF Unhoused
<1> HIDE DEF y
<1>6. Together(y)
  <2> SUFFICES ASSUME NEW t \in Session, NEW u \in Session,
                      y.party[t] # NoParty, KeyOf(y, t) = KeyOf(y, u)
               PROVE  y.num[t] = y.num[u]
    BY DEF Together
  <2>1. x.num[t] = x.num[u]
    BY <1>1, <1>2 DEF SameParties, Together, KeyOf
  <2>2. t # NoSession /\ u # NoSession
    BY RoomAssumption
  <2>3. QED
    BY <1>3, <1>4, <2>1, <2>2 DEF Drifts, Evenly
<1>7. Whole(y)
  BY <1>1, <1>2, <1>3, <1>6, SameGood DEF Whole, Drifts
<1>8. QED
  BY <1>2, <1>5, <1>7 DEF y

\* From x to y the rooms stay as they are, and so do the parties but for whom a
\* party does not take back.
Returned(x, y) ==
    /\ Whole(y) /\ Kept(x, y) /\ Base(y) = Base(x)
    /\ \A t \in Session : y.party[t] \in {x.party[t], NoParty}

\* The party k of x is in no room.
Outside(x, k) == \A t \in Session : KeyOf(x, t) = k => x.num[t] = NoNumber

LEMMA ReturnedOn ==
    ASSUME NEW x, NEW y, NEW z, Returned(x, y), Returned(y, z)
    PROVE  Returned(x, z)
<1>1. Kept(x, z)
  BY KeptOn DEF Returned
<1>2. QED
  BY <1>1 DEF Returned

LEMMA StillOutside ==
    ASSUME NEW x, NEW y, Returned(x, y), NEW k \in Key, Outside(x, k)
    PROVE  Outside(y, k)
<1> SUFFICES ASSUME NEW t \in Session, KeyOf(y, t) = k PROVE y.num[t] = NoNumber
  BY DEF Outside
<1>1. y.party[t] # NoParty
  BY DEF KeyOf, Key, NoParty
<1>2. KeyOf(x, t) = k
  BY <1>1 DEF Returned, KeyOf
<1>3. x.num[t] = NoNumber
  BY <1>2 DEF Outside
<1>4. QED
  BY <1>3, BaseFields DEF Returned

\* Out of the party and back again, with no room to leave or to join.
LEMMA RejoinReturns ==
    ASSUME NEW x, Whole(x), NEW k \in Key, Outside(x, k), NEW s \in Session, ClanOf[s] = k[1],
           x.num[s] = NoNumber, x.party[s] \in {k[2], NoParty},
           \A m \in DOMAIN x.parties : LeaderOf(x.parties[m]) # s,
           NEW y \in Rejoin(x, k, s)
    PROVE  /\ Whole(y) /\ Kept(x, y) /\ Base(y) = Base(x)
           /\ \A t \in Session : t # s => y.party[t] = x.party[t]
           /\ y.party[s] \in {k[2], NoParty}
<1>1. Sound(x) /\ Calm(Base(x))
  BY DEF Whole
<1>2. Kept(x, y)
  BY <1>1, Rejoins
<1>3. PICK z \in PartyLeave(x, s) : y = PartyJoined(z, k, s)
  BY DEF Rejoin
<1>4. x.num[s] \notin DOMAIN x.rooms
  BY <1>1, BaseFields DEF Calm, SeatsMatch, Agreed
<1>5. Whole(z) /\ Parted(x, z, s) /\ Base(z) = Base(x)
  BY <1>3, <1>4, PartyLeaveWhole
<1>6. z.num = x.num /\ z.party[s] = NoParty /\ Sound(z)
      /\ \A t \in Session : t # s => z.party[t] = x.party[t]
  BY <1>5, SameBase DEF Parted, Moved
<1>7. ASSUME k \in DOMAIN z.parties PROVE z.num[LeaderOf(z.parties[k])] = NoNumber
  <2> DEFINE h == LeaderOf(z.parties[k])
  <2>1. h \in Session /\ h \in LiveIn(z.parties[k].waiting)
    BY <1>6, <1>7, Leaders
  <2>2. KeyOf(z, h) = k
    BY <1>6, <1>7, <2>1, WhoWaits
  <2>3. z.party[h] # NoParty
    BY <2>2 DEF KeyOf, Key, NoParty
  <2>4. h # s
    BY <1>6, <2>3
  <2>5. KeyOf(x, h) = k
    BY <1>6, <2>1, <2>2, <2>4 DEF KeyOf
  <2>6. QED
    BY <1>6, <2>1, <2>5 DEF Outside
<1>8. /\ Whole(y) /\ Base(y) = Base(z)
      /\ \A t \in Session : y.party[t] = z.party[t] \/ (t = s /\ y.party[t] = k[2])
  BY <1>3, <1>5, <1>6, <1>7, PartyJoinedWhole
<1>9. QED
  BY <1>2, <1>5, <1>6, <1>8

LEMMA BackReturns ==
    ASSUME NEW x, Whole(x), NEW k \in DOMAIN x.parties, Outside(x, k)
    PROVE  \A y \in BackToParty(x, k) : Returned(x, y)
<1> DEFINE p == x.parties[k]
           N == Len(p.waiting)
<1>1. Sound(x) /\ Complete(x) /\ SoundParty(p) /\ N \in Nat /\ k \in Key
  BY LineFacts DEF Whole, Sound, Agreeing, SoundParty
<1>2. PICK g : BackChain(g, x, k) /\ BackToParty(x, k) = g[N]
  BY <1>1, BackByChain
<1>3. /\ g[0] = {Unstarted(x, k)}
      /\ \A i \in 1 .. N : g[i] = UNION {BackOf(p, k, i, y) : y \in g[i - 1]}
  <2>1. \A i \in 0 .. N : g[i] = IF i = 0 THEN {Unstarted(x, k)}
                                  ELSE UNION {BackOf(p, k, i, y) : y \in g[i - 1]}
    BY <1>2, Zenon DEF BackChain
  <2> HIDE DEF N, p
  <2>2. 0 \in 0 .. N /\ \A i \in 1 .. N : i \in 0 .. N /\ i # 0
    BY <1>1
  <2>3. QED
    BY <2>1, <2>2, Zenon
<1>4. Returned(x, Unstarted(x, k))
  <2> DEFINE q == [p EXCEPT !.started = FALSE]
             y == [x EXCEPT !.parties[k] = q]
  <2>1. SoundParty(q) /\ q.waiting = p.waiting
    BY <1>1, FlagsChanged
  <2>2. Unstarted(x, k) = y
    BY DEF Unstarted
  <2> HIDE DEF q
  <2>3. Kept(x, y) /\ y.party = x.party
    BY <1>1, <2>1, KeptWithin
  <2>4. Base(y) = Base(x)
    BY <1>1, BaseStays
  <2> HIDE DEF y
  <2>5. y.num = x.num
    BY <2>4, BaseFields
  <2>6. Whole(y)
    BY <2>3, <2>4, <2>5 DEF Whole, Kept, Together, KeyOf
  <2>7. QED
    BY <2>2, <2>3, <2>4, <2>6 DEF Returned
<1>5. ASSUME NEW i \in 1 .. N, NEW y, Returned(x, y), NEW z \in BackOf(p, k, i, y)
      PROVE  Returned(x, z)
  <2> DEFINE s == p.waiting[i].uid
  <2>1. CASE ~(p.waiting[i].live /\ ~IsLeader(p, s))
    BY <1>5, <2>1 DEF BackOf
  <2>2. CASE p.waiting[i].live /\ ~IsLeader(p, s)
    <3>1. z \in Rejoin(y, k, s)
      BY <2>2 DEF BackOf
    <3>2. s \in Session /\ s \in LiveIn(p.waiting)
      BY <1>1, LineFacts DEF SoundParty
    <3> HIDE DEF s
    <3>3. k = KeyOf(x, s) /\ x.party[s] = k[2] /\ ClanOf[s] = k[1] /\ x.num[s] = NoNumber
      <4>1. k = KeyOf(x, s)
        BY <1>1, <3>2, WhoWaits
      <4>2. x.num[s] = NoNumber
        BY <3>2, <4>1 DEF Outside
      <4> HIDE DEF p
      <4>3. QED
        BY <4>1, <4>2 DEF KeyOf
    <3>5. \A m \in DOMAIN x.parties : LeaderOf(x.parties[m]) # s
      <4> SUFFICES ASSUME NEW m \in DOMAIN x.parties, LeaderOf(x.parties[m]) = s PROVE FALSE
        OBVIOUS
      <4>1. s \in LiveIn(x.parties[m].waiting)
        BY <1>1, Leaders
      <4>2. m = k
        BY <1>1, <4>1, <3>2, <3>3, WhoWaits
      <4>3. QED
        BY <1>1, <4>2, <2>2, Leaders
    <3>6. \A m \in DOMAIN y.parties : LeaderOf(y.parties[m]) # s
      BY <1>5, <3>5 DEF Returned, Kept
    <3>7. /\ Whole(y) /\ Kept(x, y) /\ Base(y) = Base(x) /\ Outside(y, k)
          /\ y.num[s] = NoNumber /\ y.party[s] \in {k[2], NoParty}
      <4>1. y.num = x.num
        BY <1>5, BaseFields DEF Returned
      <4>2. QED
        BY <1>1, <1>5, <3>2, <3>3, <4>1, StillOutside DEF Returned
    <3>8. /\ Whole(z) /\ Kept(y, z) /\ Base(z) = Base(y)
          /\ \A t \in Session : t # s => z.party[t] = y.party[t]
          /\ z.party[s] \in {k[2], NoParty}
      BY <1>1, <3>1, <3>2, <3>3, <3>6, <3>7, RejoinReturns
    <3>9. Kept(x, z)
      BY <3>7, <3>8, KeptOn
    <3>10. \A t \in Session : z.party[t] \in {x.party[t], NoParty}
      BY <1>5, <3>3, <3>8 DEF Returned
    <3>11. QED
      BY <3>7, <3>8, <3>9, <3>10 DEF Returned
  <2>3. QED
    BY <2>1, <2>2
<1> DEFINE Bad == {i \in 0 .. N : \E y \in g[i] : ~Returned(x, y)}
<1>6. Bad = {}
  <2> SUFFICES ASSUME Bad # {} PROVE FALSE
    OBVIOUS
  <2>1. Bad \in SUBSET Nat
    BY <1>1
  <2>2. PICK i \in Bad : \A j \in Bad : i <= j
    BY <2>1, LeastNatural
  <2>3. PICK z \in g[i] : ~Returned(x, z)
    BY <2>2
  <2>4. i # 0
    BY <2>3, <1>3, <1>4
  <2> HIDE DEF N
  <2>5. i \in 1 .. N /\ i - 1 \in 0 .. N /\ ~(i <= i - 1)
    BY <2>2, <2>4, <1>1
  <2>6. PICK y \in g[i - 1] : z \in BackOf(p, k, i, y)
    BY <2>3, <2>5, <1>3
  <2>7. i - 1 \notin Bad
    <3> HIDE DEF Bad
    <3> QED BY <2>2, <2>5
  <2>8. Returned(x, y)
    BY <2>5, <2>6, <2>7
  <2>9. QED
    BY <2>3, <2>5, <2>6, <2>8, <1>5
<1>7. N \in 0 .. N /\ N \notin Bad
  <2> HIDE DEF Bad, N
  <2> QED BY <1>1, <1>6
<1> HIDE DEF N
<1>8. QED
  BY <1>2, <1>7

LEMMA AllReturn ==
    ASSUME NEW x, Whole(x), NEW ks, Len(ks) \in Nat,
           \A i \in 1 .. Len(ks) : ks[i] \in DOMAIN x.parties /\ Outside(x, ks[i])
    PROVE  \A y \in AllBack(x, ks) : Whole(y)
<1> DEFINE N == Len(ks)
<1>1. PICK g : AllChain(g, x, ks) /\ AllBack(x, ks) = g[N]
  BY AllByChain
<1>2. /\ g[0] = {x}
      /\ \A i \in 1 .. N : g[i] = UNION {BackToParty(y, ks[i]) : y \in g[i - 1]}
  <2>1. \A i \in 0 .. N : g[i] = IF i = 0 THEN {x}
                                  ELSE UNION {BackToParty(y, ks[i]) : y \in g[i - 1]}
    BY <1>1, Zenon DEF AllChain
  <2>2. 0 \in 0 .. N /\ \A i \in 1 .. N : i \in 0 .. N /\ i # 0
    OBVIOUS
  <2> HIDE DEF N
  <2>3. QED
    BY <2>1, <2>2, Zenon
<1>3. Returned(x, x)
  BY DEF Returned, Kept, Whole
<1>4. ASSUME NEW i \in 1 .. N, NEW y, Returned(x, y), NEW z \in BackToParty(y, ks[i])
      PROVE  Returned(x, z)
  <2>1. Whole(y) /\ ks[i] \in DOMAIN y.parties /\ ks[i] \in Key
    BY <1>4 DEF Returned, Kept, Whole, Sound, Agreeing
  <2>2. Outside(y, ks[i])
    BY <1>4, <2>1, StillOutside
  <2>3. Returned(y, z)
    BY <1>4, <2>1, <2>2, BackReturns
  <2>4. QED
    BY <1>4, <2>3, ReturnedOn
<1> DEFINE Bad == {i \in 0 .. N : \E y \in g[i] : ~Returned(x, y)}
<1>5. N \in Nat
  OBVIOUS
<1>6. Bad = {}
  <2> SUFFICES ASSUME Bad # {} PROVE FALSE
    OBVIOUS
  <2>1. Bad \in SUBSET Nat
    BY <1>5
  <2>2. PICK i \in Bad : \A j \in Bad : i <= j
    BY <2>1, LeastNatural
  <2>3. PICK z \in g[i] : ~Returned(x, z)
    BY <2>2
  <2>4. i # 0
    BY <2>3, <1>2, <1>3
  <2> HIDE DEF N
  <2>5. i \in 1 .. N /\ i - 1 \in 0 .. N /\ ~(i <= i - 1)
    BY <2>2, <2>4, <1>5
  <2>6. PICK y \in g[i - 1] : z \in BackToParty(y, ks[i])
    BY <2>3, <2>5, <1>2
  <2>7. i - 1 \notin Bad
    <3> HIDE DEF Bad
    <3> QED BY <2>2, <2>5
  <2>8. Returned(x, y)
    BY <2>5, <2>6, <2>7
  <2>9. QED
    BY <2>3, <2>5, <2>6, <2>8, <1>4
<1>7. N \in 0 .. N /\ N \notin Bad
  <2> HIDE DEF Bad, N
  <2> QED BY <1>5, <1>6
<1> HIDE DEF N
<1>8. QED
  BY <1>1, <1>7 DEF Returned

\* An element of one list after the other is an element of one of them.
LEMMA OneAfterOther ==
    ASSUME NEW A, NEW p \in Seq(A), NEW q \in Seq(A)
    PROVE  /\ p \o q \in Seq(A) /\ Len(p \o q) = Len(p) + Len(q)
           /\ \A i \in DOMAIN p : i \in DOMAIN (p \o q) /\ (p \o q)[i] = p[i]
           /\ \A i \in DOMAIN q : Len(p) + i \in DOMAIN (p \o q) /\ (p \o q)[Len(p) + i] = q[i]
           /\ \A i \in DOMAIN (p \o q) : \/ i \in DOMAIN p /\ (p \o q)[i] = p[i]
                                         \/ i - Len(p) \in DOMAIN q /\ (p \o q)[i] = q[i - Len(p)]
<1>1. p \o q \in Seq(A) /\ Len(p \o q) = Len(p) + Len(q)
      /\ \A i \in 1 .. (Len(p) + Len(q)) :
            (p \o q)[i] = IF i <= Len(p) THEN p[i] ELSE q[i - Len(p)]
  OBVIOUS
<1>2. /\ DOMAIN p = 1 .. Len(p) /\ DOMAIN q = 1 .. Len(q)
      /\ Len(p) \in Nat /\ Len(q) \in Nat
  OBVIOUS
<1>3. DOMAIN (p \o q) = 1 .. (Len(p) + Len(q))
  BY <1>1
<1>4. QED
  BY <1>1, <1>2, <1>3

\* Who is in a party of the room is in the room.
LEMMA ClanPartiesInside ==
    ASSUME Gathered, NEW s \in Session, InRoom(s),
           NEW k \in ClanParties(RoomOf(s)) \cap DOMAIN parties
    PROVE  \A t \in Session : KeyOf(ClanNow, t) = k => roomNum[t] = roomNum[s]
<1> DEFINE r == RoomOf(s)
           n == roomNum[s]
           seats == r.players \o r.observers
<1>1. /\ PartiesAgreed /\ Calm(Now) /\ Together(ClanNow)
      /\ ClanNow.party = partyNum /\ ClanNow.num = roomNum
  BY ClanNowWhole, ClanNowFields DEF Gathered
<1>2. /\ n \in DOMAIN rooms /\ r = rooms[n] /\ r \in RoomRecord
      /\ \A t \in Session : t \in Members(r) => roomNum[t] = n
      /\ Members(r) \subseteq Session
  BY <1>1, RoomIn, NowFields DEF Calm, InRoom, RoomOf
<1>3. PICK i \in DOMAIN seats : seats[i].live /\ k = KeyOf(ClanNow, seats[i].uid)
  BY DEF ClanParties
<1> HIDE DEF r
<1>4. seats[i].uid \in Members(r)
  <2>1. r.players \in Seq(Seat) /\ r.observers \in Seq(Seat)
    BY <1>2, RoomFields
  <2>2. \/ \E j \in DOMAIN r.players : seats[i] = r.players[j]
        \/ \E j \in DOMAIN r.observers : seats[i] = r.observers[j]
    <3> DEFINE p == r.players
               q == r.observers
    <3>1. p \in Seq(Seat) /\ q \in Seq(Seat) /\ i \in DOMAIN (p \o q) /\ seats[i] = (p \o q)[i]
      BY <2>1
    <3>2. (\E j \in DOMAIN p : seats[i] = p[j]) \/ (\E j \in DOMAIN q : seats[i] = q[j])
      <4> HIDE DEF p, q, seats
      <4>1. \/ i \in DOMAIN p /\ (p \o q)[i] = p[i]
            \/ i - Len(p) \in DOMAIN q /\ (p \o q)[i] = q[i - Len(p)]
        BY <3>1, OneAfterOther
      <4>2. QED
        BY <3>1, <4>1
    <3>3. QED
      BY <3>2
  <2>3. seats[i].uid \in LiveIn(r.players) \/ seats[i].uid \in LiveIn(r.observers)
    BY <1>3, <2>2, LiveInDef
  <2>4. QED
    BY <2>3 DEF Members
<1> HIDE DEF seats
<1>5. k \in Key
  BY <1>1 DEF PartiesAgreed, Agreeing
<1>6. seats[i].uid \in Session /\ roomNum[seats[i].uid] = n /\ partyNum[seats[i].uid] # NoParty
  BY <1>1, <1>2, <1>3, <1>4, <1>5 DEF KeyOf, Key, NoParty
<1>7. QED
  BY <1>1, <1>3, <1>6 DEF Together

LEMMA CloseClanRoomWhole ==
    ASSUME Gathered, NEW s \in Session, CloseClanRoom(s)
    PROVE  Gathered'
<1> DEFINE S == ClanParties(RoomOf(s)) \cap DOMAIN parties
           n == roomNum[s]
           x == CloseRoom(ClanNow, n)
<1>1. /\ Whole(ClanNow) /\ PartiesAgreed /\ online \subseteq Session
      /\ ClanNow.parties = parties /\ ClanNow.num = roomNum /\ ClanNow.rooms = rooms
  BY ClanNowWhole, ClanNowFields DEF Gathered
<1>2. InRoom(s) /\ n \in DOMAIN rooms /\ online' = online
  BY DEF CloseClanRoom, InRoom
<1>3. PICK ks \in SetToSeqs(S) : \E y \in AllBack(x, ks) : ClanBecome(y)
  BY DEF CloseClanRoom
<1>4. PICK y \in AllBack(x, ks) : ClanBecome(y)
  BY <1>3
<1>5. S \subseteq DOMAIN parties /\ DOMAIN parties \subseteq Key
  BY <1>1 DEF PartiesAgreed, Agreeing
<1>6. /\ Whole(x) /\ SameParties(ClanNow, x)
      /\ \A t \in Session : roomNum[t] = n => x.num[t] = NoNumber
  BY <1>1, <1>2, CloseWhole
<1>7. \A k \in S : k \in DOMAIN x.parties /\ Outside(x, k)
  <2> TAKE k \in S
  <2>1. \A t \in Session : KeyOf(ClanNow, t) = k => roomNum[t] = n
    BY <1>2, ClanPartiesInside
  <2> HIDE DEF S, x, n
  <2>2. \A t \in Session : KeyOf(x, t) = KeyOf(ClanNow, t)
    BY <1>6 DEF SameParties, KeyOf
  <2>3. QED
    BY <1>1, <1>5, <1>6, <2>1, <2>2 DEF Outside, SameParties
<1> HIDE DEF S, x, n
<1>8. Cardinality(S) \in Nat
  BY <1>5, FinitelyMany, FS_Subset, FS_CardinalityType
<1>9. ks \in [1 .. Cardinality(S) -> S]
  BY <1>3 DEF SetToSeqs
<1>10. Len(ks) = Cardinality(S)
  BY <1>8, <1>9
<1>11. Len(ks) \in Nat /\ \A i \in 1 .. Len(ks) : ks[i] \in DOMAIN x.parties /\ Outside(x, ks[i])
  BY <1>7, <1>8, <1>9, <1>10
<1>12. Whole(y)
  BY <1>4, <1>6, <1>11, AllReturn
<1>13. QED
  BY <1>1, <1>2, <1>4, <1>12, BecomesWhole

-----------------------------------------------------------------------------
(* handleOtherClanJoin: two parties are seated in a room of their own. *)

LEMMA AtMostOne ==
    ASSUME NEW S, IsFiniteSet(S), Cardinality(S) <= 1, NEW i \in S, NEW j \in S
    PROVE  i = j
<1>1. Cardinality(S) \in Nat
  BY FS_CardinalityType
<1>2. Cardinality(S) # 0
  BY FS_EmptySet
<1>3. Cardinality(S) = 1
  BY <1>1, <1>2
<1>4. PICK a : S = {a}
  BY <1>3, FS_Singleton
<1>5. QED
  BY <1>4

\* Everyone who waits is alive.
LEMMA EveryoneWaiting ==
    ASSUME NEW p, SoundParty(p)
    PROVE  LiveWaiting(p) = p.waiting
<1> DEFINE w == p.waiting
           N == Len(w)
           live == {i \in DOMAIN w : w[i].live}
           upTo(i) == {j \in live : j <= i}
           nth(n) == CHOOSE i \in live : Cardinality(upTo(i)) = n
<1>1. /\ w \in Seq(Waiter) /\ N \in Nat /\ DOMAIN w = 1 .. N
      /\ \A i \in 1 .. N : w[i].live
  BY LineFacts DEF SoundParty
<1>2. LiveWaiting(p) = [n \in 1 .. Cardinality(live) |-> w[nth(n)]]
  BY DEF LiveWaiting
<1>3. live = 1 .. N
  BY <1>1
<1>4. Cardinality(live) = N
  <2> HIDE DEF live, w, N
  <2>1. N \in Int /\ 1 \in Int /\ (1 > N => N = 0)
    BY <1>1
  <2>2. Cardinality(1 .. N) = IF 1 > N THEN 0 ELSE N - 1 + 1
    BY <2>1, FS_Interval
  <2>3. QED
    BY <1>1, <1>3, <2>1, <2>2
<1>5. \A i \in 1 .. N : Cardinality(upTo(i)) = i
  <2> TAKE i \in 1 .. N
  <2> HIDE DEF live, w, N
  <2>1. upTo(i) = 1 .. i
    BY <1>1, <1>3
  <2> HIDE DEF upTo
  <2>2. i \in Int /\ 1 \in Int /\ ~(1 > i)
    BY <1>1
  <2>3. Cardinality(1 .. i) = IF 1 > i THEN 0 ELSE i - 1 + 1
    BY <2>2, FS_Interval
  <2>4. QED
    BY <2>1, <2>2, <2>3
<1> HIDE DEF upTo
<1>6. \A n \in 1 .. N : nth(n) = n
  <2> TAKE n \in 1 .. N
  <2> HIDE DEF live, w, N
  <2>1. n \in live /\ Cardinality(upTo(n)) = n
    BY <1>3, <1>5
  <2>2. nth(n) \in live /\ Cardinality(upTo(nth(n))) = n
    BY <2>1
  <2> HIDE DEF nth
  <2>3. QED
    BY <1>3, <1>5, <2>2
<1> HIDE DEF nth, live
<1>7. LiveWaiting(p) = [n \in 1 .. N |-> w[n]]
  BY <1>2, <1>4, <1>6
<1>8. w = [n \in 1 .. N |-> w[n]]
  BY <1>1
<1>9. QED
  BY <1>7, <1>8

\* Two lines of which nobody is in both, one after the other.
LEMMA TwoLines ==
    ASSUME NEW a, Line(a), NEW b, Line(b), LiveIn(a) \cap LiveIn(b) = {}
    PROVE  /\ Line(a \o b) /\ LiveIn(a \o b) = LiveIn(a) \cup LiveIn(b)
           /\ a # <<>> => a \o b # <<>> /\ (a \o b)[1] = a[1]
<1> DEFINE g == a \o b
<1>1. /\ a \in Seq(Waiter) /\ b \in Seq(Waiter)
      /\ Len(a) \in Nat /\ Len(b) \in Nat
      /\ DOMAIN a = 1 .. Len(a) /\ DOMAIN b = 1 .. Len(b)
      /\ \A i \in DOMAIN a : a[i].live /\ a[i].uid \in LiveIn(a)
      /\ \A i \in DOMAIN b : b[i].live /\ b[i].uid \in LiveIn(b)
      /\ \A i, j \in DOMAIN a : a[i].uid = a[j].uid => i = j
      /\ \A i, j \in DOMAIN b : b[i].uid = b[j].uid => i = j
  BY LineFacts
<1>2. /\ g \in Seq(Waiter) /\ Len(g) = Len(a) + Len(b)
      /\ \A i \in DOMAIN a : i \in DOMAIN g /\ g[i] = a[i]
      /\ \A i \in DOMAIN b : Len(a) + i \in DOMAIN g /\ g[Len(a) + i] = b[i]
      /\ \A i \in DOMAIN g : \/ i \in DOMAIN a /\ g[i] = a[i]
                             \/ i - Len(a) \in DOMAIN b /\ g[i] = b[i - Len(a)]
  BY <1>1, OneAfterOther
<1>3. DOMAIN g = 1 .. (Len(a) + Len(b))
  BY <1>1, <1>2
<1> HIDE DEF g
<1>4. \A i \in DOMAIN g : g[i].live /\ i \in Int
  BY <1>1, <1>2, <1>3
<1>5. ASSUME NEW i \in DOMAIN g, NEW j \in DOMAIN g, g[i].uid = g[j].uid
      PROVE  i = j
  <2>1. CASE i \in DOMAIN a /\ g[i] = a[i] /\ j \in DOMAIN a /\ g[j] = a[j]
    BY <1>1, <1>5, <2>1
  <2>2. CASE /\ i - Len(a) \in DOMAIN b /\ g[i] = b[i - Len(a)]
             /\ j - Len(a) \in DOMAIN b /\ g[j] = b[j - Len(a)]
    <3>1. i - Len(a) = j - Len(a)
      BY <1>1, <1>5, <2>2
    <3>2. QED
      BY <1>1, <1>4, <3>1
  <2>3. CASE \/ i \in DOMAIN a /\ g[i] = a[i] /\ j - Len(a) \in DOMAIN b /\ g[j] = b[j - Len(a)]
             \/ j \in DOMAIN a /\ g[j] = a[j] /\ i - Len(a) \in DOMAIN b /\ g[i] = b[i - Len(a)]
    BY <1>1, <1>5, <2>3
  <2>4. QED
    BY <1>2, <2>1, <2>2, <2>3
<1>6. Line(g)
  BY <1>2, <1>4, <1>5 DEF Line
<1>7. LiveIn(g) = LiveIn(a) \cup LiveIn(b)
  <2>1. ASSUME NEW t \in LiveIn(g) PROVE t \in LiveIn(a) \cup LiveIn(b)
    <3>1. PICK i \in DOMAIN g : g[i].uid = t
      BY LiveInDef
    <3>2. QED
      BY <1>1, <1>2, <3>1
  <2>2. ASSUME NEW t \in LiveIn(a) PROVE t \in LiveIn(g)
    BY <1>2, LiveInDef
  <2>3. ASSUME NEW t \in LiveIn(b) PROVE t \in LiveIn(g)
    BY <1>2, LiveInDef
  <2>4. QED
    BY <2>1, <2>2, <2>3
<1>8. ASSUME a # <<>> PROVE g # <<>> /\ g[1] = a[1]
  <2>1. 1 \in DOMAIN a
    BY <1>1, <1>8
  <2>2. QED
    BY <1>2, <2>1
<1>9. QED
  BY <1>6, <1>7, <1>8 DEF g

\* The seats of everyone of a line, in a room the first one has founded.
LEMMA LineSeated ==
    ASSUME NEW g, Line(g), g # <<>>, NEW t,
           t = [NewRoom(g[1].uid, FALSE) EXCEPT
                  !.players = @ \o [i \in DOMAIN Tail(g) |-> NewSeat(Tail(g)[i].uid)]]
    PROVE  /\ t \in RoomRecord /\ SeatedOnce(t) /\ Members(t) = LiveIn(g)
           /\ t.vkTarget = NoSession
           /\ LiveIn(g) = LiveIn(Tail(g)) \cup {g[1].uid}
<1> DEFINE h == g[1].uid
           o == <<NewSeat(h)>>
           l == [i \in DOMAIN Tail(g) |-> NewSeat(Tail(g)[i].uid)]
           q == o \o l
           N == Len(g)
<1>1. /\ g \in Seq(Waiter) /\ N \in Nat /\ N # 0 /\ DOMAIN g = 1 .. N
      /\ \A i \in 1 .. N : g[i].uid \in Session /\ g[i].live
      /\ \A i, j \in 1 .. N : g[i].uid = g[j].uid => i = j
  BY LineFacts
<1>2. /\ Tail(g) \in Seq(Waiter) /\ Len(Tail(g)) = N - 1 /\ DOMAIN Tail(g) = 1 .. (N - 1)
      /\ \A i \in 1 .. (N - 1) : Tail(g)[i] = g[i + 1]
  BY <1>1
<1> HIDE DEF N
<1>3. \A i \in 1 .. (N - 1) : i + 1 \in 1 .. N /\ i + 1 # 1
  BY <1>1
<1>4. \A s \in Session : NewSeat(s) \in Seat /\ NewSeat(s).uid = s /\ NewSeat(s).live
  BY DEF NewSeat, Seat, State
<1>5. l \in Seq(Seat) /\ Len(l) = N - 1 /\ o \in Seq(Seat) /\ Len(o) = 1 /\ h \in Session
  <2>1. \A i \in 1 .. (N - 1) : NewSeat(Tail(g)[i].uid) \in Seat
    BY <1>1, <1>2, <1>3, <1>4
  <2>2. h \in Session
    BY <1>1
  <2>3. l = [i \in 1 .. (N - 1) |-> NewSeat(Tail(g)[i].uid)]
    BY <1>2
  <2> HIDE DEF l, h
  <2>4. l \in [1 .. (N - 1) -> Seat] /\ N - 1 \in Nat
    BY <1>1, <2>1, <2>3
  <2>5. NewSeat(h) \in Seat
    BY <1>4, <2>2
  <2>6. QED
    BY <2>2, <2>4, <2>5
<1>6. \A i \in 1 .. (N - 1) : l[i] = NewSeat(g[i + 1].uid)
  BY <1>2
<1> HIDE DEF l, o
<1>7. /\ q \in Seq(Seat) /\ DOMAIN q = 1 .. N
      /\ \A i \in 1 .. N : q[i] = IF i = 1 THEN o[1] ELSE l[i - 1]
  <2>1. DOMAIN o = 1 .. 1 /\ DOMAIN l = 1 .. (N - 1) /\ Len(o) + Len(l) = N
    BY <1>1, <1>5
  <2>2. /\ q \in Seq(Seat) /\ Len(q) = N
        /\ \A i \in DOMAIN q : \/ i \in DOMAIN o /\ q[i] = o[i]
                               \/ i - 1 \in DOMAIN l /\ q[i] = l[i - 1]
    <3>1. /\ q \in Seq(Seat) /\ Len(q) = Len(o) + Len(l)
          /\ \A i \in DOMAIN q : \/ i \in DOMAIN o /\ q[i] = o[i]
                                 \/ i - Len(o) \in DOMAIN l /\ q[i] = l[i - Len(o)]
      <4>1. o \in Seq(Seat) /\ l \in Seq(Seat)
        BY <1>5
      <4>2. QED
        BY ONLY <4>1, OneAfterOther, Zenon
    <3> HIDE DEF q
    <3>2. QED
      BY <1>5, <2>1, <3>1
  <2> HIDE DEF q
  <2>3. DOMAIN q = 1 .. N
    BY <2>2
  <2>4. QED
    BY <1>1, <2>1, <2>2, <2>3
<1>8. \A i \in 1 .. N : q[i] = NewSeat(g[i].uid)
  <2> TAKE i \in 1 .. N
  <2> HIDE DEF q
  <2>1. CASE i = 1
    BY <1>7, <2>1 DEF o
  <2>2. CASE i # 1
    <3>1. i - 1 \in 1 .. (N - 1) /\ (i - 1) + 1 = i
      BY <1>1, <2>2
    <3>2. QED
      BY <1>6, <1>7, <2>2, <3>1
  <2>3. QED
    BY <2>1, <2>2
<1> HIDE DEF q
<1>9. \A i \in 1 .. N : q[i].live /\ q[i].uid = g[i].uid
  BY <1>1, <1>4, <1>8
<1>10. Distinct(q)
  BY <1>1, <1>7, <1>9 DEF Distinct
<1>11. LiveIn(q) = LiveIn(g)
  <2>1. \A s : s \in LiveIn(q) <=> \E i \in 1 .. N : g[i].uid = s
    <3>1. \A s : s \in LiveIn(q) <=> \E i \in 1 .. N : q[i].live /\ q[i].uid = s
      <4>1. \A s : s \in LiveIn(q) <=> \E i \in DOMAIN q : q[i].live /\ q[i].uid = s
        BY LiveInDef, Zenon
      <4>2. QED
        BY <1>7, <4>1, Zenon
    <3>2. QED
      BY <1>9, <3>1
  <2>2. \A s : s \in LiveIn(g) <=> \E i \in 1 .. N : g[i].uid = s
    BY LineFacts DEF N
  <2>3. QED
    BY <2>1, <2>2
<1>12. LiveIn(g) = LiveIn(Tail(g)) \cup {h}
  <2>1. \A s : s \in LiveIn(g) <=> \E i \in 1 .. N : g[i].uid = s
    BY LineFacts DEF N
  <2>2. \A s : s \in LiveIn(Tail(g)) <=> \E i \in 1 .. (N - 1) : g[i + 1].uid = s
    <3>1. \A s : s \in LiveIn(Tail(g)) <=>
                   \E i \in 1 .. (N - 1) : Tail(g)[i].live /\ Tail(g)[i].uid = s
      <4> DEFINE u == Tail(g)
      <4>1. DOMAIN u = 1 .. (N - 1)
        BY <1>2
      <4> HIDE DEF u
      <4>2. \A s : s \in LiveIn(u) <=> \E i \in DOMAIN u : u[i].live /\ u[i].uid = s
        BY LiveInDef, Zenon
      <4>3. \A s : s \in LiveIn(u) <=> \E i \in 1 .. (N - 1) : u[i].live /\ u[i].uid = s
        BY <4>1, <4>2, Zenon
      <4>4. QED
        BY <4>3 DEF u
    <3>2. \A i \in 1 .. (N - 1) : Tail(g)[i].live /\ Tail(g)[i].uid = g[i + 1].uid
      BY <1>1, <1>2, <1>3
    <3>3. QED
      BY <3>1, <3>2
  <2>3. ASSUME NEW i \in 1 .. N
        PROVE  i = 1 \/ \E j \in 1 .. (N - 1) : i = j + 1
    <3>1. CASE i # 1
      <4>1. i - 1 \in 1 .. (N - 1) /\ i = (i - 1) + 1
        BY <1>1, <3>1
      <4>2. QED
        BY <4>1
    <3>2. QED
      BY <3>1
  <2>4. 1 \in 1 .. N
    BY <1>1
  <2>5. QED
    BY <1>3, <2>1, <2>2, <2>3, <2>4
<1>13. /\ t.players = q /\ t.observers = <<>> /\ t.vkTarget = NoSession
       /\ t \in RoomRecord
  <2> DEFINE r == NewRoom(h, FALSE)
  <2>1. r \in RoomRecord /\ r.players = o /\ r.observers = <<>> /\ r.vkTarget = NoSession
    BY <1>5 DEF NewRoom, RoomRecord, o
  <2>2. t = [r EXCEPT !.players = q]
    BY <2>1 DEF q, l
  <2> HIDE DEF r
  <2>3. QED
    BY <1>7, <2>1, <2>2 DEF RoomRecord
<1>14. LiveIn(<<>>) = {} /\ Distinct(<<>>)
  BY DEF LiveIn, Distinct
<1>15. QED
  BY <1>10, <1>11, <1>12, <1>13, <1>14 DEF SeatedOnce, Members, h

\* What Challenge makes of a world: y, in which the guests g and their host h, the
\* first of them, sit in the room t, numbered n.
Founded(x, k, g, h, n, t, y) ==
    LET c == [ClanRoomCreated(x, h) EXCEPT !.parties[k].registered = FALSE]
    IN  /\ y = AllJoined(c, c.num[h], Tail(g)) /\ n = Generated(x.gen)
        /\ t = [NewRoom(h, FALSE) EXCEPT
                  !.players = @ \o [i \in DOMAIN Tail(g) |-> NewSeat(Tail(g)[i].uid)]]

Opened(x, g, h, n, t, y) ==
    /\ Complete(y)
    /\ DOMAIN y.rooms = DOMAIN x.rooms \cup {n} /\ y.rooms[n] = t
    /\ y.rooms = [m \in DOMAIN x.rooms \cup {n} |-> IF m = n THEN t ELSE x.rooms[m]]
    /\ y.gen = AfterGenerate(x.gen) /\ y.ps = [x.ps EXCEPT ![h] = "WAITING"]
    /\ \A s \in Session :
          y.num[s] = IF s \in LiveIn(Tail(g)) \cup {h} THEN n ELSE x.num[s]
    /\ y.num = [s \in Session |-> y.num[s]]
    /\ y.party = x.party

LEMMA FoundedFields ==
    ASSUME NEW x, Complete(x), x.num \in [Session -> Slot], NEW k, NEW g, NEW h \in Session,
           NEW n, NEW t, NEW y, Founded(x, k, g, h, n, t, y)
    PROVE  Opened(x, g, h, n, t, y)
<1> DEFINE r == NewRoom(h, FALSE)
           l == [i \in DOMAIN Tail(g) |-> NewSeat(Tail(g)[i].uid)]
           a == ClanRoomCreated(x, h)
           f == [m \in DOMAIN x.rooms \cup {n} |-> IF m = n THEN r ELSE x.rooms[m]]
           u == [x.num EXCEPT ![h] = n]
           v == [x.ps EXCEPT ![h] = "WAITING"]
           w == [s \in Session |-> IF s \in LiveIn(Tail(g)) THEN n ELSE u[s]]
           c == [a EXCEPT !.parties[k].registered = FALSE]
<1>1. /\ y = AllJoined(c, c.num[h], Tail(g)) /\ n = Generated(x.gen)
      /\ t = [r EXCEPT !.players = @ \o l]
  BY DEF Founded
<1>2. a = [x EXCEPT !.rooms = f, !.gen = AfterGenerate(x.gen), !.num = u, !.ps = v]
  BY <1>1 DEF ClanRoomCreated, Complete, ClanWorldFields
<1>3. u[h] = n /\ f[n] = r /\ DOMAIN f = DOMAIN x.rooms \cup {n}
      /\ \A s \in Session : u[s] = IF s = h THEN n ELSE x.num[s]
  OBVIOUS
<1> HIDE DEF f, u, v, r, l, a
<1>4. /\ Complete(a) /\ a.rooms = f /\ a.gen = AfterGenerate(x.gen)
      /\ a.num = u /\ a.ps = v /\ a.party = x.party
  BY <1>2 DEF Complete, ClanWorldFields
<1>5. /\ Complete(c) /\ c.rooms = f /\ c.gen = AfterGenerate(x.gen)
      /\ c.num = u /\ c.ps = v /\ c.party = x.party
  BY <1>1, <1>4 DEF Complete, ClanWorldFields
<1> HIDE DEF c
<1> DEFINE p == Put(c, n, t)
<1>6. p = [c EXCEPT !.rooms = [f EXCEPT ![n] = t]]
  BY <1>5 DEF Put
<1> DEFINE e == [f EXCEPT ![n] = t]
<1>7. e = [m \in DOMAIN x.rooms \cup {n} |-> IF m = n THEN t ELSE x.rooms[m]]
  BY <1>3 DEF f
<1>8. DOMAIN e = DOMAIN x.rooms \cup {n} /\ e[n] = t
  BY <1>3
<1> HIDE DEF e, p
<1>9. /\ Complete(p) /\ p.rooms = e /\ p.gen = AfterGenerate(x.gen)
      /\ p.num = u /\ p.ps = v /\ p.party = x.party
  BY <1>5, <1>6 DEF Complete, ClanWorldFields, e
<1>10. y = [p EXCEPT !.num = w]
  <2>1. c.num[h] = n /\ c.rooms[n] = r
    BY <1>3, <1>5
  <2>2. y = AllJoined(c, n, Tail(g)) /\ t = [c.rooms[n] EXCEPT !.players = @ \o l]
    BY <1>1, <2>1, Zenon
  <2> DEFINE m == [c.rooms[n] EXCEPT !.players = @ \o l]
             z == Put(c, n, m)
  <2>3. y = [z EXCEPT !.num = [s \in Session |-> IF s \in LiveIn(Tail(g)) THEN n ELSE z.num[s]]]
    BY <2>2 DEF AllJoined, l
  <2>4. m = t
    BY <2>2
  <2> HIDE DEF m
  <2>5. z = p
    BY <2>4 DEF p
  <2> HIDE DEF z
  <2>6. z.num = u
    BY <1>9, <2>5
  <2>7. QED
    BY <2>3, <2>5, <2>6
<1> HIDE DEF w
<1>11. /\ Complete(y) /\ y.rooms = e /\ y.gen = AfterGenerate(x.gen)
       /\ y.num = w /\ y.ps = v /\ y.party = x.party
  BY <1>9, <1>10 DEF Complete, ClanWorldFields
<1>12. /\ w = [s \in Session |-> w[s]]
       /\ \A s \in Session : w[s] = IF s \in LiveIn(Tail(g)) \cup {h} THEN n ELSE x.num[s]
  BY <1>3 DEF w
<1>13. /\ DOMAIN y.rooms = DOMAIN x.rooms \cup {n} /\ y.rooms[n] = t
       /\ y.rooms = [m \in DOMAIN x.rooms \cup {n} |-> IF m = n THEN t ELSE x.rooms[m]]
       /\ y.num = [s \in Session |-> y.num[s]]
       /\ \A s \in Session :
             y.num[s] = IF s \in LiveIn(Tail(g)) \cup {h} THEN n ELSE x.num[s]
  <2>1. y.rooms = e /\ y.num = w
    BY <1>11
  <2>2. DOMAIN y.rooms = DOMAIN x.rooms \cup {n} /\ y.rooms[n] = t
    BY <1>8, <2>1, Zenon
  <2>3. y.rooms = [m \in DOMAIN x.rooms \cup {n} |-> IF m = n THEN t ELSE x.rooms[m]]
    BY <1>7, <2>1, Zenon
  <2>4. y.num = [s \in Session |-> y.num[s]]
    BY <1>12, <2>1, Zenon
  <2>5. \A s \in Session :
             y.num[s] = IF s \in LiveIn(Tail(g)) \cup {h} THEN n ELSE x.num[s]
    BY <1>12, <2>1, Zenon
  <2>6. QED
    BY <2>2, <2>3, <2>4, <2>5, Zenon
<1>14. QED
  BY <1>11, <1>13 DEF Opened, v

\* A number that is handed out is nobody's.
LEMMA FreshNumber ==
    ASSUME NEW g \in Generator, NEW D \in SUBSET Slot, Numbered(g, D),
           AfterGenerate(g).next <= MaxNumber
    PROVE  Generated(g) # NoNumber /\ Generated(g) \notin D
<1>1. MaxNumber \in Nat \ {0}
  BY MaxNumberAssumption
<1>2. /\ g.next \in 1 .. (MaxNumber + 1) /\ g.free \in Seq(Number)
      /\ DOMAIN g = {"next", "free"} /\ D \subseteq Nat
  BY <1>1 DEF Generator, Slot, NoNumber, Number
<1>3. CASE g.free # <<>>
  <2>1. Head(g.free) = g.free[1] /\ 1 \in DOMAIN g.free /\ Head(g.free) \in Number
    BY <1>2, <1>3
  <2>2. Generated(g) = Head(g.free)
    BY <1>3 DEF Generated
  <2>3. QED
    BY <2>1, <2>2 DEF Numbered, Number, NoNumber
<1>4. CASE g.free = <<>>
  <2>1. g.next <= MaxNumber
    BY <1>4 DEF AfterGenerate
  <2>2. Generated(g) = g.next
    BY <1>4, <2>1 DEF Generated
  <2>3. QED
    BY <1>2, <2>2 DEF Numbered, NoNumber
<1>5. QED
  BY <1>3, <1>4

\* A new room that seats sessions nobody else does.
LEMMA RoomFounded ==
    ASSUME NEW b, Calm(b), NEW c, NEW t \in RoomRecord, SeatedOnce(t), t.vkTarget = NoSession,
           Members(t) \subseteq Session, NEW h \in Session, NEW n,
           n = Generated(b.gen), DOMAIN c = {"rooms", "gen", "num", "ps"},
           DOMAIN c.rooms = DOMAIN b.rooms \cup {n}, c.rooms[n] = t,
           c.rooms = [m \in DOMAIN b.rooms \cup {n} |-> IF m = n THEN t ELSE b.rooms[m]],
           c.gen = AfterGenerate(b.gen), c.gen.next <= MaxNumber,
           c.ps = [b.ps EXCEPT ![h] = "WAITING"],
           \A s \in Session : c.num[s] = IF s \in Members(t) THEN n ELSE b.num[s],
           c.num = [s \in Session |-> c.num[s]],
           c = [rooms |-> c.rooms, gen |-> c.gen, num |-> c.num, ps |-> c.ps],
           \A s \in Members(t) : \A j \in DOMAIN b.rooms :
               s \in Members(c.rooms[j]) => j = n
    PROVE  Calm(c)
<1>1. /\ Good(b) /\ SeatsMatch(b) /\ b \in World /\ b.rooms \in RoomTables /\ b.gen \in Generator
      /\ b.num \in [Session -> Slot] /\ b.ps \in [Session -> State]
      /\ Numbered(b.gen, DOMAIN b.rooms) /\ DOMAIN b.rooms \in SUBSET Slot
      /\ \A m \in DOMAIN b.rooms : b.rooms[m] \in RoomRecord
      /\ Agreed(b.rooms, b.num)
  BY WorldFields, TableType DEF Calm, Good, SeatsMatch
<1>2. n \in Slot /\ c.gen \in Generator /\ Numbered(c.gen, DOMAIN c.rooms)
  BY <1>1, GenerateNumbered
<1>3. n # NoNumber /\ n \notin DOMAIN b.rooms
  BY <1>1, FreshNumber
<1>4. \A m \in DOMAIN b.rooms : m # n /\ c.rooms[m] = b.rooms[m]
  BY <1>3
<1>5. c.rooms \in RoomTables
  <2>1. DOMAIN b.rooms \cup {n} \in SUBSET Slot
    BY <1>1, <1>2
  <2>2. c.rooms \in [DOMAIN b.rooms \cup {n} -> RoomRecord]
    BY <1>1
  <2>3. QED
    BY <2>1, <2>2 DEF RoomTables
<1>6. c.num \in [Session -> Slot]
  BY <1>1, <1>2
<1>7. c.ps \in [Session -> State]
  BY <1>1 DEF State
<1>8. c \in World
  BY <1>2, <1>5, <1>6, <1>7 DEF World
<1>9. \A m \in DOMAIN c.rooms : SeatedOnce(c.rooms[m]) /\ c.rooms[m].vkTarget = NoSession
  BY <1>1, <1>4 DEF SeatsMatch, Calm
<1>10. Agreed(c.rooms, c.num)
  <2>1. NoNumber \notin DOMAIN c.rooms
    BY <1>1, <1>3 DEF Agreed
  <2>2. \A s \in Session : c.num[s] # NoNumber => c.num[s] \in DOMAIN c.rooms
    BY <1>1 DEF Agreed
  <2>3. ASSUME NEW m \in DOMAIN c.rooms, NEW s \in Session
        PROVE  s \in Members(c.rooms[m]) <=> c.num[s] = m
    <3>1. CASE m = n
      <4>1. s \notin Members(t) => c.num[s] # n
        BY <1>1, <1>3 DEF Agreed
      <4>2. QED
        BY <3>1, <4>1
    <3>2. CASE m # n
      <4>1. m \in DOMAIN b.rooms /\ c.rooms[m] = b.rooms[m]
        BY <1>4, <3>2
      <4>2. s \in Members(b.rooms[m]) <=> b.num[s] = m
        BY <1>1, <4>1 DEF Agreed
      <4>3. QED
        BY <3>2, <4>1, <4>2
    <3>3. QED
      BY <3>1, <3>2
  <2>4. QED
    BY <2>1, <2>2, <2>3 DEF Agreed
<1>11. QED
  BY <1>2, <1>8, <1>9, <1>10 DEF Calm, Good, SeatsMatch

\* Nobody sits in two rooms.
LEMMA OneRoom ==
    ASSUME RoomsInOrder', DOMAIN rooms' \subseteq Slot, NEW s \in Session,
           NEW i \in DOMAIN rooms', NEW j \in DOMAIN rooms',
           s \in Members(rooms'[i]), s \in Members(rooms'[j])
    PROVE  i = j
<1> DEFINE S == {m \in DOMAIN rooms' : s \in Members(rooms'[m])}
<1>1. MaxNumber \in Nat
  BY MaxNumberAssumption
<1>2. IsFiniteSet(0 .. MaxNumber)
  BY <1>1, FS_Interval
<1>3. S \subseteq 0 .. MaxNumber
  BY <1>1 DEF Slot, Number, NoNumber
<1>4. IsFiniteSet(S)
  <2> HIDE DEF S
  <2> QED BY <1>2, <1>3, FS_Subset
<1>5. Cardinality(S) <= 1 /\ i \in S /\ j \in S
  BY DEF RoomsInOrder
<1> HIDE DEF S
<1>6. QED
  BY <1>4, <1>5, AtMostOne

LEMMA ChallengeWhole ==
    ASSUME Gathered, NumbersLeft', RoomsInOrder', NEW s \in Session, NEW k, Challenge(s, k)
    PROVE  Gathered'
<1> DEFINE own == KeyOf(ClanNow, s)
           a == parties[k].waiting
           b == parties[own].waiting
           g == a \o b
           h == g[1].uid
           host == LeaderOf(parties[k])
           n == Generated(gen)
           c == [ClanRoomCreated(ClanNow, host) EXCEPT !.parties[k].registered = FALSE]
           y == AllJoined(c, c.num[host], Tail(g))
           r == [NewRoom(h, FALSE) EXCEPT
                   !.players = @ \o [i \in DOMAIN Tail(g) |-> NewSeat(Tail(g)[i].uid)]]
<1>1. /\ PartiesAgreed /\ Sound(ClanNow) /\ Calm(Now) /\ Together(ClanNow)
      /\ online \subseteq Session /\ Complete(ClanNow)
      /\ ClanNow.parties = parties /\ ClanNow.party = partyNum /\ ClanNow.num = roomNum
      /\ ClanNow.rooms = rooms /\ ClanNow.gen = gen /\ ClanNow.ps = pstate
      /\ Base(ClanNow) = Now
  BY ClanNowWhole, ClanNowFields DEF Gathered
<1>2. /\ Good(Now) /\ SeatsMatch(Now) /\ gen.next <= MaxNumber
      /\ roomNum \in [Session -> Slot] /\ DOMAIN rooms \subseteq Slot
  BY <1>1, NowFields, WorldFields, TableType DEF Calm, Good
<1>3. /\ own \in DOMAIN parties /\ k \in DOMAIN parties /\ k[1] # ClanOf[s] /\ online' = online
      /\ ClanBecome(AllJoined(c, c.num[host], Tail(LiveWaiting(parties[k]) \o LiveWaiting(parties[own]))))
  BY <1>1 DEF Challenge, HasParty, OnList
<1>4. /\ SoundParty(parties[k]) /\ SoundParty(parties[own]) /\ k # own
      /\ k \in Key /\ own \in Key
  BY <1>1, <1>3 DEF PartiesAgreed, Agreeing, KeyOf
<1>5. ClanBecome(y)
  BY <1>3, <1>4, EveryoneWaiting
<1>6. \A t \in Session : t \in LiveIn(a) <=> KeyOf(ClanNow, t) = k
  BY <1>1, <1>3, <1>4 DEF PartiesAgreed, Agreeing, KeyOf
<1>7. \A t \in Session : t \in LiveIn(b) <=> KeyOf(ClanNow, t) = own
  <2> HIDE DEF own
  <2> QED BY <1>1, <1>3, <1>4 DEF PartiesAgreed, Agreeing, KeyOf
<1> HIDE DEF own
<1>8. Line(a) /\ Line(b) /\ a # <<>> /\ LiveIn(a) \subseteq Session /\ LiveIn(b) \subseteq Session
  BY <1>4, LineFacts DEF SoundParty
<1>9. LiveIn(a) \cap LiveIn(b) = {}
  BY <1>4, <1>6, <1>7, <1>8
<1>10. a[1].uid = host
  BY DEF LeaderOf
<1> HIDE DEF a, b
<1>11. /\ Line(g) /\ LiveIn(g) = LiveIn(a) \cup LiveIn(b) /\ g # <<>> /\ g[1] = a[1]
  BY <1>8, <1>9, TwoLines
<1>12. h = host
  BY <1>10, <1>11
<1> HIDE DEF g
<1>13. /\ r \in RoomRecord /\ SeatedOnce(r) /\ Members(r) = LiveIn(g) /\ r.vkTarget = NoSession
       /\ LiveIn(g) = LiveIn(Tail(g)) \cup {h}
  BY <1>11, LineSeated
<1>14. LiveIn(g) \subseteq Session /\ h \in Session
  BY <1>8, <1>11, <1>13
<1> HIDE DEF r
<1>15. /\ Complete(y)
       /\ DOMAIN y.rooms = DOMAIN rooms \cup {n} /\ y.rooms[n] = r
       /\ y.rooms = [m \in DOMAIN rooms \cup {n} |-> IF m = n THEN r ELSE rooms[m]]
       /\ y.gen = AfterGenerate(gen) /\ y.ps = [pstate EXCEPT ![h] = "WAITING"]
       /\ \A t \in Session : y.num[t] = IF t \in LiveIn(Tail(g)) \cup {h} THEN n ELSE roomNum[t]
       /\ y.num = [t \in Session |-> y.num[t]]
       /\ y.party = partyNum
  <2> DEFINE x == ClanNow
  <2>1. Founded(x, k, g, h, n, r, y)
    <3> DEFINE q == [NewRoom(host, FALSE) EXCEPT
                      !.players = @ \o [i \in DOMAIN Tail(g) |-> NewSeat(Tail(g)[i].uid)]]
    <3>1. Founded(x, k, g, host, n, q, y)
      BY <1>1 DEF Founded
    <3> HIDE DEF host, y, c, n, x
    <3>2. r = q
      BY <1>12 DEF r
    <3> HIDE DEF h, q
    <3>3. QED
      BY <1>12, <3>1, <3>2
  <2>2. x.num \in [Session -> Slot] /\ Complete(x) /\ h \in Session
    BY <1>1, <1>2, <1>14
  <2> HIDE DEF y, c, h, n, x
  <2>3. Opened(x, g, h, n, r, y)
    BY <2>1, <2>2, FoundedFields
  <2>4. QED
    BY <1>1, <2>3 DEF x, Opened
<1> HIDE DEF y, h, c
<1>16. /\ rooms' = y.rooms /\ gen' = y.gen /\ roomNum' = y.num /\ pstate' = y.ps
       /\ partyNum' = partyNum
  BY <1>5, <1>15 DEF ClanBecome, Become
<1>17. \A t \in Session : y.num[t] = IF t \in LiveIn(g) THEN n ELSE roomNum[t]
  BY <1>13, <1>15
<1>18. n \in Slot /\ y.gen.next <= MaxNumber
  <2>1. Generated(gen) \in Slot
    BY <1>2, GenerateNumbered, NowFields, WorldFields, TableType DEF Good
  <2>2. gen'.next <= MaxNumber
    BY DEF NumbersLeft
  <2>3. QED
    BY <1>16, <2>1, <2>2
<1> HIDE DEF n
<1>19. ASSUME NEW t \in LiveIn(g), NEW j \in DOMAIN rooms, t \in Members(y.rooms[j])
       PROVE  j = n
  <2>1. /\ DOMAIN rooms' \subseteq Slot /\ t \in Session /\ j \in DOMAIN rooms' /\ n \in DOMAIN rooms'
        /\ t \in Members(rooms'[j]) /\ t \in Members(rooms'[n])
    BY <1>2, <1>13, <1>14, <1>15, <1>16, <1>18, <1>19
  <2>2. QED
    BY <2>1, OneRoom
<1>20. Calm(Now)'
  <2> DEFINE d == Base(y)
  <2>1. /\ d.rooms = y.rooms /\ d.gen = y.gen /\ d.num = y.num /\ d.ps = y.ps
        /\ DOMAIN d = {"rooms", "gen", "num", "ps"}
        /\ d = [rooms |-> d.rooms, gen |-> d.gen, num |-> d.num, ps |-> d.ps]
    BY DEF Base
  <2>2. Now' = d
    BY <1>16 DEF Now, Base
  <2> HIDE DEF d
  <2>3. Calm(d)
    BY <1>1, <1>13, <1>14, <1>15, <1>17, <1>18, <1>19, <2>1, NowFields, RoomFounded DEF n
  <2>4. QED
    BY <2>2, <2>3
<1>21. Together(ClanNow)'
  <2>1. ASSUME NEW t \in Session, NEW u \in Session, partyNum[t] # NoParty,
               KeyOf(ClanNow, t) = KeyOf(ClanNow, u)
        PROVE  y.num[t] = y.num[u]
    <3>1. roomNum[t] = roomNum[u]
      BY <1>1, <2>1 DEF Together
    <3>2. t \in LiveIn(g) <=> u \in LiveIn(g)
      BY <1>6, <1>7, <1>11, <2>1
    <3>3. QED
      BY <1>17, <3>1, <3>2
  <2>2. QED
    BY <1>1, <1>16, <2>1, WholeNext DEF KeyOf
<1>22. PartiesAgreed'
  BY <1>1, ChallengeStep
<1>23. QED
  BY <1>1, <1>3, <1>20, <1>21, <1>22, WholeNext DEF Gathered

-----------------------------------------------------------------------------
(* The theorem. *)

LEMMA NobodyGathered == ClanInit => Gathered
<1> SUFFICES ASSUME ClanInit PROVE Gathered
  OBVIOUS
<1>1. /\ Init /\ PartiesAgreed /\ partyNum = [s \in Session |-> NoParty]
  BY NobodyWaits DEF ClanInit
<1>2. /\ rooms = <<>> /\ gen = FreshGenerator /\ online = {}
      /\ roomNum = [s \in Session |-> NoNumber] /\ Inv
  BY <1>1, InvInit DEF Init
<1>3. DOMAIN rooms = {} /\ gen.next = 1 /\ MaxNumber \in Nat \ {0}
  BY <1>2, MaxNumberAssumption DEF FreshGenerator
<1>4. Good(Now)
  BY <1>2, NowGood
<1>5. SeatsMatch(Now)
  BY <1>2, <1>3, NextWorld DEF Agreed
<1>6. Calm(Now)
  BY <1>3, <1>4, <1>5, NowFields DEF Calm
<1>7. Together(ClanNow)
  BY <1>1, ClanNowFields DEF Together
<1>8. QED
  BY <1>1, <1>2, <1>6, <1>7, ClanNowWhole DEF Gathered

\* Numbers are left after the step too, and the rooms are in order before it and
\* after it.
LEMMA ClanStepsGather ==
    ASSUME Gathered, NumbersLeft', RoomsInOrder, RoomsInOrder', [ClanNext]_clanVars
    PROVE  Gathered'
<1>1. CASE UNCHANGED clanVars
  <2>1. /\ UNCHANGED <<rooms, gen, roomNum, pstate, partyNum>> /\ online' \subseteq Session
        /\ PartiesAgreed
    BY <1>1, ClanNowWhole DEF clanVars, vars, Gathered
  <2>2. PartiesAgreed'
    BY <1>1, <2>1, ClanStepsAgree
  <2>3. QED
    BY <2>1, <2>2, NobodyMoves
<1>2. CASE \E s \in Session : ClanConnect(s) \/ ClanDisconnect(s)
  BY <1>2, ClanConnectWhole, ClanDisconnectWhole
<1>3. CASE \E s \in Session : CreateParty(s) \/ LeaveParty(s) \/ Register(s)
  BY <1>3, CreatePartyWhole, LeavesWhole, LeadsWhole
<1>4. CASE \E s \in Session, k \in Key : JoinParty(s, k) \/ Challenge(s, k)
  BY <1>4, JoinPartyWhole, ChallengeWhole
<1>5. CASE \E s \in Session, n \in Sizes : SetSize(s, n)
  BY <1>5, LeadsWhole
<1>6. CASE \E s \in Session, i \in 2 .. Cardinality(Session) : ChangeLeader(s, i)
  BY <1>6, LeadsWhole
<1>7. CASE \E s \in Session : StartClanMatch(s) \/ EndClanMatch(s) \/ LeaveClanMatch(s)
  BY <1>7, ClanMatchWhole, LeavesWhole
<1>8. CASE \E s \in Session : LeaveClanRoom(s) \/ CloseClanRoom(s)
  BY <1>8, LeavesWhole, CloseClanRoomWhole
<1>9. QED
  BY <1>1, <1>2, <1>3, <1>4, <1>5, <1>6, <1>7, <1>8 DEF ClanNext

LEMMA GatheredTogether == Gathered => PartyTogether
<1> SUFFICES ASSUME Gathered, NEW k \in DOMAIN parties, NEW i \in DOMAIN parties[k].waiting
             PROVE  roomNum[parties[k].waiting[i].uid] = roomNum[LeaderOf(parties[k])]
  BY DEF PartyTogether
<1> DEFINE s == parties[k].waiting[i].uid
           h == LeaderOf(parties[k])
<1>1. /\ Sound(ClanNow) /\ Together(ClanNow) /\ ClanNow.parties = parties
      /\ ClanNow.num = roomNum /\ ClanNow.party = partyNum /\ PartiesAgreed
  BY ClanNowWhole, ClanNowFields DEF Gathered
<1>2. SoundParty(parties[k]) /\ k \in Key
  BY <1>1 DEF PartiesAgreed, Agreeing
<1>3. s \in Session /\ s \in LiveIn(parties[k].waiting)
  BY <1>2, LineFacts DEF SoundParty
<1>4. h \in Session /\ h \in LiveIn(parties[k].waiting)
  BY <1>1, Leaders
<1> HIDE DEF s, h
<1>5. KeyOf(ClanNow, s) = k /\ KeyOf(ClanNow, h) = k
  BY <1>1, <1>3, <1>4, WhoWaits
<1>6. partyNum[s] # NoParty
  BY <1>1, <1>2, <1>5 DEF KeyOf, Key, NoParty
<1>7. roomNum[s] = roomNum[h]
  BY <1>1, <1>3, <1>4, <1>5, <1>6 DEF Together
<1>8. QED
  BY <1>7 DEF s, h

\* On a server that never runs out of room numbers, and as long as nobody sits
\* in two rooms or keeps a seat without a party (what the code lets happen and
\* the property is not claimed of), the members of a party are in the room
\* its leader is in, or in none like the leader: whoever joins late is seated,
\* who leaves the one leaves the other, and a room that closes lets go of all.
THEOREM PartiesStayTogether ==
    ClanSpec /\ [](NumbersLeft /\ RoomsInOrder) => []PartyTogether
<1>1. Gathered /\ NumbersLeft' /\ RoomsInOrder /\ RoomsInOrder' /\ [ClanNext]_clanVars => Gathered'
  BY ClanStepsGather
<1>2. QED
  BY NobodyGathered, <1>1, GatheredTogether, PTL DEF ClanSpec
=============================================================================
