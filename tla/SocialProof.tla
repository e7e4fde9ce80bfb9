---------------------------- MODULE SocialProof -----------------------------
(***************************************************************************)
(* Lists, mails and gifts, proved for any number of players and gifts and  *)
(* every limit.                                                            *)
(*                                                                         *)
(* What a session shows and what the tables hold are sequences from which  *)
(* entries are picked; the first part says what a pick keeps.              *)
(***************************************************************************)
EXTENDS Social, FiniteSetTheorems, SequenceTheorems, WellFoundedInduction, TLAPS

-----------------------------------------------------------------------------
(* Picking entries of a sequence. *)

\* How many indices there are up to i.
Rank(keep, i) == Cardinality({j \in keep : j <= i})

\* Each place of the picked sequence has one of the indices, and each index one
\* place.
Places(s, keep, f) ==
    /\ f \in [1 .. Cardinality(keep) -> keep]
    /\ \A k, l \in 1 .. Cardinality(keep) : f[k] = f[l] => k = l
    /\ \A i \in keep : \E k \in 1 .. Cardinality(keep) : f[k] = i
    /\ \A k \in 1 .. Cardinality(keep) : Picked(s, keep)[k] = s[f[k]]

LEMMA RankFacts ==
    ASSUME NEW keep, IsFiniteSet(keep), keep \subseteq Nat
    PROVE  /\ Cardinality(keep) \in Nat
           /\ \A i \in keep : Rank(keep, i) \in 1 .. Cardinality(keep)
           /\ \A i, j \in keep : Rank(keep, i) = Rank(keep, j) => i = j
           /\ \A k \in 1 .. Cardinality(keep) : \E i \in keep : Rank(keep, i) = k
<1> DEFINE n == Cardinality(keep)
           upto(i) == {j \in keep : j <= i}
<1>1. n \in Nat
  BY FS_CardinalityType
<1>2. \A i \in keep : /\ IsFiniteSet(upto(i)) /\ Cardinality(upto(i)) \in Nat
                      /\ Cardinality(upto(i)) <= n
  <2>1. TAKE i \in keep
  <2>2. upto(i) \in SUBSET keep
    OBVIOUS
  <2> HIDE DEF upto
  <2>3. QED
    BY <2>2, FS_Subset, FS_CardinalityType
<1>3. \A i, j \in keep : i < j => Cardinality(upto(i)) < Cardinality(upto(j))
  <2>1. SUFFICES ASSUME NEW i \in keep, NEW j \in keep, i < j
                 PROVE  Cardinality(upto(i)) < Cardinality(upto(j))
    OBVIOUS
  <2>2. upto(i) \in SUBSET upto(j) /\ j \in upto(j) /\ j \notin upto(i)
    <3>1. i \in Nat /\ j \in Nat /\ \A k \in keep : k \in Nat
      OBVIOUS
    <3>2. \A k \in keep : k <= i => k <= j
      BY <2>1, <3>1
    <3>3. j <= j /\ ~(j <= i)
      BY <2>1, <3>1
    <3>4. QED
      BY <3>2, <3>3
  <2> HIDE DEF upto
  <2>. IsFiniteSet(upto(j))
    BY <1>2
  <2>3. /\ Cardinality(upto(i)) <= Cardinality(upto(j))
        /\ Cardinality(upto(j)) = Cardinality(upto(i)) => upto(j) = upto(i)
    BY <2>2, FS_Subset
  <2>4. QED
    BY <1>2, <2>2, <2>3
<1>4. \A i \in keep : Cardinality(upto(i)) # 0
  <2>1. TAKE i \in keep
  <2>2. i \in upto(i)
    <3>1. i \in Nat
      OBVIOUS
    <3>2. QED
      BY <3>1
  <2> HIDE DEF upto
  <2>3. QED
    BY <1>2, <2>2, FS_EmptySet
<1> HIDE DEF upto
<1>5. \A i \in keep : Cardinality(upto(i)) \in 1 .. n
  BY <1>1, <1>2, <1>4
<1>6. \A i, j \in keep : Cardinality(upto(i)) = Cardinality(upto(j)) => i = j
  <2>1. SUFFICES ASSUME NEW i \in keep, NEW j \in keep,
                        Cardinality(upto(i)) = Cardinality(upto(j)), i # j
                 PROVE  FALSE
    OBVIOUS
  <2>2. i < j \/ j < i
    BY <2>1
  <2>3. Cardinality(upto(i)) \in Nat
    BY <1>2
  <2>4. QED
    BY <1>3, <2>1, <2>2, <2>3
<1> DEFINE f == [i \in keep |-> Cardinality(upto(i))]
<1>7. f \in Injection(keep, 1 .. n)
  BY <1>5, <1>6 DEF Injection, IsInjective
<1>8. IsFiniteSet(1 .. n) /\ Cardinality(1 .. n) = n
  BY <1>1, FS_Interval
<1> HIDE DEF f, n
<1>9. f \in Surjection(keep, 1 .. n)
  BY <1>7, <1>8, FS_Injection DEF n
<1>10. \A k \in 1 .. n : \E i \in keep : Cardinality(upto(i)) = k
  BY <1>9 DEF Surjection, f
<1>11. QED
  BY <1>1, <1>5, <1>6, <1>10 DEF Rank, upto, n

LEMMA PickedFacts ==
    ASSUME NEW S, NEW s \in Seq(S), NEW keep \in SUBSET DOMAIN s
    PROVE  /\ Picked(s, keep) \in Seq(S) /\ Cardinality(keep) \in Nat
           /\ DOMAIN Picked(s, keep) = 1 .. Cardinality(keep)
           /\ \E f : Places(s, keep, f)
<1> DEFINE n == Cardinality(keep)
           nth(k) == CHOOSE i \in keep : Rank(keep, i) = k
           f == [k \in 1 .. n |-> nth(k)]
<1>1. IsFiniteSet(keep) /\ keep \subseteq Nat
  <2>1. DOMAIN s = 1 .. Len(s) /\ Len(s) \in Nat
    OBVIOUS
  <2>2. IsFiniteSet(1 .. Len(s))
    BY <2>1, FS_Interval
  <2>3. QED
    BY <2>1, <2>2, FS_Subset
<1>2. /\ n \in Nat
      /\ \A i \in keep : Rank(keep, i) \in 1 .. n
      /\ \A i, j \in keep : Rank(keep, i) = Rank(keep, j) => i = j
      /\ \A k \in 1 .. n : \E i \in keep : Rank(keep, i) = k
  BY <1>1, RankFacts
<1>3. Picked(s, keep) = [k \in 1 .. n |-> s[nth(k)]]
  BY DEF Picked, Rank
<1> HIDE DEF n
<1>4. \A k \in 1 .. n : nth(k) \in keep /\ Rank(keep, nth(k)) = k
  BY <1>2
<1> HIDE DEF nth
<1>5. \A k \in 1 .. n : s[nth(k)] \in S
  BY <1>4
<1>6. Picked(s, keep) \in Seq(S)
  BY <1>2, <1>3, <1>5
<1>7. f \in [1 .. n -> keep] /\ \A k, l \in 1 .. n : f[k] = f[l] => k = l
  BY <1>4
<1>8. \A i \in keep : \E k \in 1 .. n : f[k] = i
  <2>1. TAKE i \in keep
  <2>2. Rank(keep, i) \in 1 .. n /\ nth(Rank(keep, i)) = i
    BY <1>2, <1>4
  <2>3. QED
    BY <2>2
<1>9. \A k \in 1 .. n : Picked(s, keep)[k] = s[f[k]]
  BY <1>3
<1> HIDE DEF f
<1>10. Places(s, keep, f)
  BY <1>7, <1>8, <1>9 DEF Places, n
<1>11. QED
  BY <1>2, <1>3, <1>6, <1>10 DEF n

\* A list without an entry, with one more, and cut at the limit.
LEMMA RidRange ==
    ASSUME NEW S, NEW s \in Seq(S), NEW x
    PROVE  Rid(s, x) \in Seq(S) /\ Range(Rid(s, x)) = Range(s) \ {x}
<1> DEFINE keep == {i \in DOMAIN s : s[i] # x}
<1>1. keep \in SUBSET DOMAIN s
  OBVIOUS
<1>2. Rid(s, x) = Picked(s, keep)
  BY DEF Rid
<1> HIDE DEF keep
<1>3. /\ Picked(s, keep) \in Seq(S) /\ DOMAIN Picked(s, keep) = 1 .. Cardinality(keep)
      /\ \E f : Places(s, keep, f)
  BY <1>1, PickedFacts
<1>4. PICK f : Places(s, keep, f)
  BY <1>3
<1>5. \A y : (\E k \in 1 .. Cardinality(keep) : Picked(s, keep)[k] = y)
             <=> (\E i \in keep : s[i] = y)
  BY <1>4 DEF Places
<1>6. Range(Picked(s, keep)) = {s[i] : i \in keep}
  BY <1>3, <1>5 DEF Range
<1>7. {s[i] : i \in keep} = Range(s) \ {x}
  BY DEF keep, Range
<1>8. QED
  BY <1>2, <1>3, <1>6, <1>7

LEMMA AppendRange ==
    ASSUME NEW S, NEW s \in Seq(S), NEW x \in S
    PROVE  Append(s, x) \in Seq(S) /\ Range(Append(s, x)) = Range(s) \cup {x}
<1>1. /\ DOMAIN Append(s, x) = DOMAIN s \cup {Len(s) + 1}
      /\ \A i \in DOMAIN s : Append(s, x)[i] = s[i]
      /\ Append(s, x)[Len(s) + 1] = x
  OBVIOUS
<1>2. QED
  BY <1>1 DEF Range

LEMMA FirstOfFacts ==
    ASSUME NEW S, NEW s \in Seq(S)
    PROVE  /\ FirstOf(s) \in Seq(S) /\ Range(FirstOf(s)) \subseteq Range(s)
           /\ ~(Len(s) > MaxFriends) => FirstOf(s) = s
           /\ Range(s) \subseteq S /\ Range(FirstOf(s)) \subseteq S
<1> DEFINE n == IF Len(s) < MaxFriends THEN Len(s) ELSE MaxFriends
<1>1. n \in 0 .. Len(s) /\ (~(Len(s) > MaxFriends) => n = Len(s))
  BY SocialAssumption
<1>2. FirstOf(s) = SubSeq(s, 1, n)
  BY DEF FirstOf
<1> HIDE DEF n
<1>3. /\ SubSeq(s, 1, n) \in Seq(S) /\ DOMAIN SubSeq(s, 1, n) = 1 .. n
      /\ \A i \in 1 .. n : i \in DOMAIN s /\ SubSeq(s, 1, n)[i] = s[i]
      /\ n = Len(s) => SubSeq(s, 1, n) = s
  BY <1>1
<1>4. \A i \in DOMAIN s : s[i] \in S
  OBVIOUS
<1>5. QED
  BY <1>1, <1>2, <1>3, <1>4 DEF Range

-----------------------------------------------------------------------------
(* The lists. *)

\* A table of lists, as the sets of who is on them; q is on the list of p, and q
\* is not.
Listed(rows) == [p \in Player |-> Range(rows[p])]
With(f, p, q) == [f EXCEPT ![p] = @ \cup {q}]
But(f, p, q) == [f EXCEPT ![p] = @ \ {q}]

ListTables == [Player -> Seq(Player)]

LEMMA ListedFacts ==
    ASSUME NEW rows \in ListTables, NEW p \in Player, NEW q \in Player
    PROVE  /\ Listed(rows) \in [Player -> SUBSET Player]
           /\ Row(rows, p, q) \in ListTables
           /\ Listed(Row(rows, p, q)) = With(Listed(rows), p, q)
           /\ NoRow(rows, p, q) \in ListTables
           /\ Listed(NoRow(rows, p, q)) = But(Listed(rows), p, q)
<1>1. \A a \in Player : rows[a] \in Seq(Player)
  BY DEF ListTables
<1>2. \A a \in Player : Range(rows[a]) \subseteq Player
  BY <1>1, FirstOfFacts
<1>3. Append(rows[p], q) \in Seq(Player) /\ Range(Append(rows[p], q)) = Range(rows[p]) \cup {q}
  BY <1>1, AppendRange
<1>4. Rid(rows[p], q) \in Seq(Player) /\ Range(Rid(rows[p], q)) = Range(rows[p]) \ {q}
  BY <1>1, RidRange
<1>5. rows \in [Player -> Seq(Player)]
  BY DEF ListTables
<1>6. /\ Row(rows, p, q) \in ListTables
      /\ \A a \in Player : Row(rows, p, q)[a] = IF a = p THEN Append(rows[p], q) ELSE rows[a]
  BY <1>3, <1>5 DEF ListTables, Row
<1>7. /\ NoRow(rows, p, q) \in ListTables
      /\ \A a \in Player : NoRow(rows, p, q)[a] = IF a = p THEN Rid(rows[p], q) ELSE rows[a]
  BY <1>4, <1>5 DEF ListTables, NoRow
<1>8. Listed(Row(rows, p, q)) = With(Listed(rows), p, q)
  BY <1>3, <1>6 DEF Listed, With
<1>9. Listed(NoRow(rows, p, q)) = But(Listed(rows), p, q)
  BY <1>4, <1>7 DEF Listed, But
<1>10. Listed(rows) \in [Player -> SUBSET Player]
  BY <1>2 DEF Listed
<1>11. QED
  BY <1>6, <1>7, <1>8, <1>9, <1>10

\* Both ends of a pair, one after the other.
LEMMA BothEnds ==
    ASSUME NEW f \in [Player -> SUBSET Player], NEW p \in Player, NEW q \in Player
    PROVE  /\ AddOnlineFriend(f, p, q) = With(With(f, p, q), q, p)
           /\ DeleteFriend(f, p, q) = But(But(f, p, q), q, p)
BY DEF AddOnlineFriend, DeleteFriend, With, But

\* The rows of a new pair of friends, and of one that is none any more.
LEMMA PairFacts ==
    ASSUME NEW rows \in ListTables, NEW p \in Player, NEW q \in Player
    PROVE  /\ Row(Row(rows, p, q), q, p) \in ListTables
           /\ Listed(Row(Row(rows, p, q), q, p)) = AddOnlineFriend(Listed(rows), p, q)
           /\ NoRow(NoRow(rows, p, q), q, p) \in ListTables
           /\ Listed(NoRow(NoRow(rows, p, q), q, p)) = DeleteFriend(Listed(rows), p, q)
<1>1. /\ Row(rows, p, q) \in ListTables /\ NoRow(rows, p, q) \in ListTables
      /\ Listed(Row(rows, p, q)) = With(Listed(rows), p, q)
      /\ Listed(NoRow(rows, p, q)) = But(Listed(rows), p, q)
  BY ListedFacts
<1>2. /\ Row(Row(rows, p, q), q, p) \in ListTables
      /\ Listed(Row(Row(rows, p, q), q, p)) = With(Listed(Row(rows, p, q)), q, p)
      /\ NoRow(NoRow(rows, p, q), q, p) \in ListTables
      /\ Listed(NoRow(NoRow(rows, p, q), q, p)) = But(Listed(NoRow(rows, p, q)), q, p)
  BY <1>1, ListedFacts
<1>3. /\ AddOnlineFriend(Listed(rows), p, q) = With(With(Listed(rows), p, q), q, p)
      /\ DeleteFriend(Listed(rows), p, q) = But(But(Listed(rows), p, q), q, p)
  BY ListedFacts, BothEnds
<1>4. QED
  BY <1>1, <1>2, <1>3

-----------------------------------------------------------------------------
(* The lists of friends.                                                   *)
(*                                                                         *)
(* fr and se stand for the sessions' lists, F for the rows.  Friendship is *)
(* mutual in the rows and nobody's own; a session lists what the rows have *)
(* and sees friends who are online, of two sessions both or neither.  st   *)
(* has who is listed, and may be seen, although the rows have ended it.    *)

Tables == [Player -> SUBSET Player]

Friendly(on, fr, se, F, cu, st) ==
    /\ on \in SUBSET Player /\ fr \in Tables /\ se \in Tables /\ F \in Tables
    /\ \A p \in Player : p \notin F[p]
    /\ \A p, q \in Player : q \in F[p] => p \in F[q]
    /\ \A p \in on, q \in Player : q \in fr[p] => q \in F[p] \/ <<p, q>> \in st
    /\ \A p \in on : <<p, "friends">> \notin cu => F[p] \subseteq fr[p]
    /\ \A p \in on : se[p] \subseteq on /\ se[p] \subseteq fr[p]
    /\ \A p, q \in on : q \in se[p] => p \in se[q] \/ <<p, q>> \in st
    /\ \A p, q \in on : q \in fr[p] /\ p \in fr[q] => q \in se[p]

\* Everything but the lists of friends may change with a step that keeps them.
LEMMA Befriended ==
    ASSUME NEW on, NEW fr, NEW se, NEW F, NEW cu, NEW st, Friendly(on, fr, se, F, cu, st),
           NEW p \in on, NEW q \in on, p # q
    PROVE  Friendly(on, AddOnlineFriend(fr, p, q), AddOnlineFriend(se, p, q),
                    AddOnlineFriend(F, p, q), cu, st \ {<<p, q>>, <<q, p>>})
<1> USE DEF Tables
<1> DEFINE fr2 == AddOnlineFriend(fr, p, q)
           se2 == AddOnlineFriend(se, p, q)
           F2 == AddOnlineFriend(F, p, q)
<1>1. p \in Player /\ q \in Player /\ fr \in Tables /\ se \in Tables /\ F \in Tables
  BY DEF Friendly
<1>2. /\ fr2 \in Tables
      /\ \A a \in Player : fr2[a] = IF a = p THEN fr[a] \cup {q} ELSE IF a = q THEN fr[a] \cup {p} ELSE fr[a]
  BY <1>1 DEF AddOnlineFriend
<1>3. /\ se2 \in Tables
      /\ \A a \in Player : se2[a] = IF a = p THEN se[a] \cup {q} ELSE IF a = q THEN se[a] \cup {p} ELSE se[a]
  BY <1>1 DEF AddOnlineFriend
<1>4. /\ F2 \in Tables
      /\ \A a \in Player : F2[a] = IF a = p THEN F[a] \cup {q} ELSE IF a = q THEN F[a] \cup {p} ELSE F[a]
  BY <1>1 DEF AddOnlineFriend
<1> HIDE DEF fr2, se2, F2
<1>5. Friendly(on, fr2, se2, F2, cu, st \ {<<p, q>>, <<q, p>>})
  BY <1>1, <1>2, <1>3, <1>4 DEF Friendly
<1>6. QED
  BY <1>5 DEF fr2, se2, F2

LEMMA BefriendedAway ==
    ASSUME NEW on, NEW fr, NEW se, NEW F, NEW cu, NEW st, Friendly(on, fr, se, F, cu, st),
           NEW p \in on, NEW q \in Player, q \notin on
    PROVE  Friendly(on, [fr EXCEPT ![p] = @ \cup {q}], [se EXCEPT ![p] = @ \ {q}],
                    AddOnlineFriend(F, p, q), cu, st \ {<<p, q>>, <<q, p>>})
<1> USE DEF Tables
<1> DEFINE fr2 == [fr EXCEPT ![p] = @ \cup {q}]
           se2 == [se EXCEPT ![p] = @ \ {q}]
           F2 == AddOnlineFriend(F, p, q)
<1>1. p \in Player /\ fr \in Tables /\ se \in Tables /\ F \in Tables
  BY DEF Friendly
<1>2. /\ fr2 \in Tables
      /\ \A a \in Player : fr2[a] = IF a = p THEN fr[a] \cup {q} ELSE fr[a]
  BY <1>1
<1>3. /\ se2 \in Tables
      /\ \A a \in Player : se2[a] = IF a = p THEN se[a] \ {q} ELSE se[a]
  BY <1>1
<1>4. /\ F2 \in Tables
      /\ \A a \in Player : F2[a] = IF a = p THEN F[a] \cup {q} ELSE IF a = q THEN F[a] \cup {p} ELSE F[a]
  BY <1>1 DEF AddOnlineFriend
<1> HIDE DEF fr2, se2, F2
<1>5. Friendly(on, fr2, se2, F2, cu, st \ {<<p, q>>, <<q, p>>})
  BY <1>1, <1>2, <1>3, <1>4 DEF Friendly
<1>6. QED
  BY <1>5 DEF fr2, se2, F2

LEMMA Parted ==
    ASSUME NEW on, NEW fr, NEW se, NEW F, NEW cu, NEW st, Friendly(on, fr, se, F, cu, st),
           NEW p \in on, NEW q \in Player
    PROVE  Friendly(on, DeleteFriend(fr, p, q), DeleteFriend(se, p, q), DeleteFriend(F, p, q), cu,
                    st \ {<<p, q>>, <<q, p>>})
<1> USE DEF Tables
<1> DEFINE fr2 == DeleteFriend(fr, p, q)
           se2 == DeleteFriend(se, p, q)
           F2 == DeleteFriend(F, p, q)
<1>1. p \in Player /\ fr \in Tables /\ se \in Tables /\ F \in Tables
  BY DEF Friendly
<1>2. /\ fr2 \in Tables
      /\ \A a \in Player : fr2[a] = IF a = p THEN fr[a] \ {q} ELSE IF a = q THEN fr[a] \ {p} ELSE fr[a]
  BY <1>1 DEF DeleteFriend
<1>3. /\ se2 \in Tables
      /\ \A a \in Player : se2[a] = IF a = p THEN se[a] \ {q} ELSE IF a = q THEN se[a] \ {p} ELSE se[a]
  BY <1>1 DEF DeleteFriend
<1>4. /\ F2 \in Tables
      /\ \A a \in Player : F2[a] = IF a = p THEN F[a] \ {q} ELSE IF a = q THEN F[a] \ {p} ELSE F[a]
  BY <1>1 DEF DeleteFriend
<1> HIDE DEF fr2, se2, F2
<1>5. Friendly(on, fr2, se2, F2, cu, st \ {<<p, q>>, <<q, p>>})
  BY <1>1, <1>2, <1>3, <1>4 DEF Friendly
<1>6. QED
  BY <1>5 DEF fr2, se2, F2

\* The friendship ends in the rows and in the session of p only.
LEMMA PartedHere ==
    ASSUME NEW on, NEW fr, NEW se, NEW F, NEW cu, NEW st, Friendly(on, fr, se, F, cu, st),
           NEW p \in on, NEW q \in Player, p # q
    PROVE  Friendly(on, [fr EXCEPT ![p] = @ \ {q}], [se EXCEPT ![p] = @ \ {q}], DeleteFriend(F, p, q), cu,
                    (st \ {<<p, q>>}) \cup (IF q \in on /\ p \in fr[q] THEN {<<q, p>>} ELSE {}))
<1> USE DEF Tables
<1> DEFINE fr2 == [fr EXCEPT ![p] = @ \ {q}]
           se2 == [se EXCEPT ![p] = @ \ {q}]
           F2 == DeleteFriend(F, p, q)
           st2 == (st \ {<<p, q>>}) \cup (IF q \in on /\ p \in fr[q] THEN {<<q, p>>} ELSE {})
<1>1. p \in Player /\ fr \in Tables /\ se \in Tables /\ F \in Tables
  BY DEF Friendly
<1>2. /\ fr2 \in Tables
      /\ \A a \in Player : fr2[a] = IF a = p THEN fr[a] \ {q} ELSE fr[a]
  BY <1>1
<1>3. /\ se2 \in Tables
      /\ \A a \in Player : se2[a] = IF a = p THEN se[a] \ {q} ELSE se[a]
  BY <1>1
<1>4. /\ F2 \in Tables
      /\ \A a \in Player : F2[a] = IF a = p THEN F[a] \ {q} ELSE IF a = q THEN F[a] \ {p} ELSE F[a]
  BY <1>1 DEF DeleteFriend
<1>5. /\ \A a, b \in Player : <<a, b>> \in st /\ ~(a = p /\ b = q) => <<a, b>> \in st2
      /\ q \in on /\ p \in fr[q] => <<q, p>> \in st2
  OBVIOUS
<1> HIDE DEF fr2, se2, F2, st2
<1>6. Friendly(on, fr2, se2, F2, cu, st2)
  BY <1>1, <1>2, <1>3, <1>4, <1>5 DEF Friendly
<1>7. QED
  BY <1>6 DEF fr2, se2, F2, st2

\* The list of p is replaced; p and the sessions of qs that list p.
Replaced(f, p, x) == [f EXCEPT ![p] = x]
Told(fr, qs, p, mine) == Replaced([q \in Player |-> IF q \in qs THEN fr[q] \cup {p} ELSE fr[q]], p, mine)
SeesOnline(se, qs, p) == [q \in Player |-> IF q = p THEN qs ELSE IF q \in qs THEN se[q] \cup {p} ELSE se[q]]
SeesNone(se, p) == [q \in Player |-> IF q = p THEN {} ELSE se[q] \ {p}]
ToldStale(st, se, p) == {f \in st : f[1] # p} \cup {<<q, p>> : q \in {q \in se[p] : <<p, q>> \in st}}

\* A login with the first rows of its list, of which it has all or is cut.
LEMMA CameIn ==
    ASSUME NEW on, NEW fr, NEW se, NEW F, NEW cu, NEW st, Friendly(on, fr, se, F, cu, st),
           NEW p \in Player, p \notin on, NEW mine, mine \subseteq F[p],
           NEW cu2, cu \subseteq cu2, <<p, "friends">> \notin cu2 => F[p] \subseteq mine
    PROVE  Friendly(on \cup {p}, Told(fr, mine \cap on, p, mine), SeesOnline(se, mine \cap on, p), F, cu2, st)
<1> USE DEF Tables
<1> DEFINE fr2 == Told(fr, mine \cap on, p, mine)
           se2 == SeesOnline(se, mine \cap on, p)
<1>1. fr \in Tables /\ se \in Tables /\ F \in Tables /\ on \subseteq Player /\ mine \subseteq Player
  BY DEF Friendly
<1>2. /\ fr2 \in Tables
      /\ \A a \in Player : fr2[a] = IF a = p THEN mine
                                    ELSE IF a \in mine /\ a \in on THEN fr[a] \cup {p} ELSE fr[a]
  BY <1>1 DEF Told, Replaced
<1>3. /\ se2 \in Tables
      /\ \A a \in Player : se2[a] = IF a = p THEN mine \cap on
                                    ELSE IF a \in mine /\ a \in on THEN se[a] \cup {p} ELSE se[a]
  BY <1>1 DEF SeesOnline
<1> HIDE DEF fr2, se2
<1>5. Friendly(on \cup {p}, fr2, se2, F, cu2, st)
  BY <1>1, <1>2, <1>3 DEF Friendly
<1>6. QED
  BY <1>5 DEF fr2, se2

\* The end of a session, whose friends are told.
LEMMA WentOut ==
    ASSUME NEW on, NEW fr, NEW se, NEW F, NEW cu, NEW st, Friendly(on, fr, se, F, cu, st),
           NEW p \in on, NEW cu2, \A a \in Player \ {p} : <<a, "friends">> \in cu => <<a, "friends">> \in cu2
    PROVE  Friendly(on \ {p}, Told(fr, se[p], p, {}), SeesNone(se, p), F, cu2, ToldStale(st, se, p))
<1> USE DEF Tables
<1> DEFINE fr2 == Told(fr, se[p], p, {})
           se2 == SeesNone(se, p)
           st2 == ToldStale(st, se, p)
<1>1. fr \in Tables /\ se \in Tables /\ F \in Tables /\ on \subseteq Player /\ p \in Player
  BY DEF Friendly
<1>2. /\ fr2 \in Tables
      /\ \A a \in Player : fr2[a] = IF a = p THEN {}
                                    ELSE IF a \in se[p] THEN fr[a] \cup {p} ELSE fr[a]
  BY <1>1 DEF Told, Replaced
<1>3. /\ se2 \in Tables
      /\ \A a \in Player : se2[a] = IF a = p THEN {} ELSE se[a] \ {p}
  BY <1>1 DEF SeesNone
<1>4. \A a, b \in Player : a # p /\ <<a, b>> \in st => <<a, b>> \in st2
  BY DEF ToldStale
<1>5. \A a \in on : a \in se[p] /\ <<p, a>> \in st => <<a, p>> \in st2
  BY DEF ToldStale
<1>6. \A a \in on \ {p} : a \in se[p] => p \in fr[a] \/ <<a, p>> \in st2
  BY <1>5 DEF Friendly
<1> HIDE DEF fr2, se2, st2
<1>7. Friendly(on \ {p}, fr2, se2, F, cu2, st2)
  BY <1>1, <1>2, <1>3, <1>4, <1>6 DEF Friendly
<1>8. QED
  BY <1>7 DEF fr2, se2, st2

-----------------------------------------------------------------------------
(* The block lists.                                                        *)
(*                                                                         *)
(* K stands for the sessions' lists, B for the rows: who was told to be    *)
(* kept out is in the rows, and in a session that has loaded all of them.  *)

Keeping(on, K, B, wi, cu) ==
    /\ on \in SUBSET Player /\ K \in Tables /\ B \in Tables
    /\ wi \in SUBSET (Player \X Player)
    /\ \A p \in on : K[p] \subseteq B[p]
    /\ \A w \in wi : w[2] \in B[w[1]]
    /\ \A w \in wi : w[1] \in on /\ <<w[1], "blocked">> \notin cu => w[2] \in K[w[1]]

\* A block: the session's list and the rows get the player, the rows perhaps twice.
LEMMA Blocked ==
    ASSUME NEW on, NEW K, NEW B, NEW wi, NEW cu, Keeping(on, K, B, wi, cu),
           NEW p \in on, NEW q \in Player
    PROVE  /\ Keeping(on, With(K, p, q), With(B, p, q), wi \cup {<<p, q>>}, cu)
           /\ With(With(B, p, q), p, q) = With(B, p, q)
           /\ Keeping(on, K, With(B, p, q), wi, cu)
<1> USE DEF Tables
<1>1. K \in Tables /\ B \in Tables /\ p \in Player
  BY DEF Keeping
<1>2. /\ With(K, p, q) \in Tables
      /\ \A a \in Player : With(K, p, q)[a] = IF a = p THEN K[a] \cup {q} ELSE K[a]
  BY <1>1 DEF With
<1>3. /\ With(B, p, q) \in Tables
      /\ \A a \in Player : With(B, p, q)[a] = IF a = p THEN B[a] \cup {q} ELSE B[a]
  BY <1>1 DEF With
<1>4. With(With(B, p, q), p, q) = With(B, p, q)
  BY <1>1 DEF With
<1>5. Keeping(on, With(K, p, q), With(B, p, q), wi \cup {<<p, q>>}, cu)
  BY <1>1, <1>2, <1>3 DEF Keeping
<1>6. Keeping(on, K, With(B, p, q), wi, cu)
  BY <1>1, <1>3 DEF Keeping
<1>7. QED
  BY <1>4, <1>5, <1>6

LEMMA Unblocked ==
    ASSUME NEW on, NEW K, NEW B, NEW wi, NEW cu, Keeping(on, K, B, wi, cu),
           NEW p \in on, NEW q \in Player
    PROVE  Keeping(on, But(K, p, q), But(B, p, q), wi \ {<<p, q>>}, cu)
<1> USE DEF Tables
<1>1. K \in Tables /\ B \in Tables /\ p \in Player
  BY DEF Keeping
<1>2. /\ But(K, p, q) \in Tables
      /\ \A a \in Player : But(K, p, q)[a] = IF a = p THEN K[a] \ {q} ELSE K[a]
  BY <1>1 DEF But
<1>3. /\ But(B, p, q) \in Tables
      /\ \A a \in Player : But(B, p, q)[a] = IF a = p THEN B[a] \ {q} ELSE B[a]
  BY <1>1 DEF But
<1>4. \A w \in wi \ {<<p, q>>} : w[1] \in Player /\ w[2] \in Player /\ (w[1] = p => w[2] # q)
  BY DEF Keeping
<1>5. QED
  BY <1>1, <1>2, <1>3, <1>4 DEF Keeping

\* A login and the end of a session.
LEMMA BlocksLoaded ==
    ASSUME NEW on, NEW K, NEW B, NEW wi, NEW cu, Keeping(on, K, B, wi, cu),
           NEW p \in Player, p \notin on, NEW mine, mine \subseteq B[p],
           NEW cu2, cu \subseteq cu2, <<p, "blocked">> \notin cu2 => B[p] \subseteq mine
    PROVE  Keeping(on \cup {p}, Replaced(K, p, mine), B, wi, cu2)
<1> USE DEF Tables
<1>1. K \in Tables /\ B \in Tables
  BY DEF Keeping
<1>2. /\ Replaced(K, p, mine) \in Tables
      /\ \A a \in Player : Replaced(K, p, mine)[a] = IF a = p THEN mine ELSE K[a]
  BY <1>1 DEF Replaced
<1>3. QED
  BY <1>1, <1>2 DEF Keeping

LEMMA BlocksDropped ==
    ASSUME NEW on, NEW K, NEW B, NEW wi, NEW cu, Keeping(on, K, B, wi, cu),
           NEW p \in on, NEW cu2,
           \A a \in Player \ {p} : <<a, "blocked">> \in cu => <<a, "blocked">> \in cu2
    PROVE  Keeping(on \ {p}, Replaced(K, p, {}), B, wi, cu2)
<1> USE DEF Tables
<1>1. K \in Tables /\ B \in Tables /\ p \in Player /\ \A w \in wi : w[1] \in Player
  BY DEF Keeping
<1>2. /\ Replaced(K, p, {}) \in Tables
      /\ \A a \in Player : Replaced(K, p, {})[a] = IF a = p THEN {} ELSE K[a]
  BY <1>1 DEF Replaced
<1>3. QED
  BY <1>1, <1>2 DEF Keeping

-----------------------------------------------------------------------------
(* The invariant of the lists. *)

ListsInv ==
    /\ blocked \in ListTables /\ frows \in ListTables /\ brows \in ListTables
    /\ asked \in SUBSET (Player \X Player) /\ pending \in SUBSET (Player \X Player)
    /\ \A a \in asked \cup pending : a[1] # a[2]
    /\ \A a \in asked : a[2] \in online
    /\ Friendly(online, friends, seen, Listed(frows), cut, stale)
    /\ Keeping(online, Listed(blocked), Listed(brows), wish, cut)

LEMMA ListsInit == Init => ListsInv
<1>1. SUFFICES ASSUME Init PROVE ListsInv
  OBVIOUS
<1>2. \A t \in {frows, brows, blocked} : t \in ListTables /\ Listed(t) = [p \in Player |-> {}]
  <2> DEFINE none == [p \in Player |-> <<>>]
  <2>1. frows = none /\ brows = none /\ blocked = none
    BY <1>1 DEF Init
  <2>2. Range(<<>>) = {}
    BY DEF Range
  <2>3. \A p \in Player : none[p] = <<>>
    OBVIOUS
  <2>4. none \in ListTables
    BY DEF ListTables
  <2> HIDE DEF none
  <2>5. Listed(none) = [p \in Player |-> {}]
    BY <2>2, <2>3 DEF Listed
  <2>6. QED
    BY <2>1, <2>4, <2>5
<1>3. Friendly(online, friends, seen, Listed(frows), cut, stale)
  BY <1>1, <1>2 DEF Init, Friendly, Tables
<1>4. Keeping(online, Listed(blocked), Listed(brows), wish, cut)
  BY <1>1, <1>2 DEF Init, Keeping, Tables
<1>5. QED
  BY <1>1, <1>2, <1>3, <1>4 DEF Init, ListsInv

\* What a step leaves of the lists, if it changes none of them.
LEMMA ListsStay == ListsInv /\ UNCHANGED <<online, asked, pending, lists>> => ListsInv'
BY DEF ListsInv, lists

LEMMA RequestKeeps ==
    ASSUME ListsInv, NEW p \in Player, NEW q \in Player, Request(p, q) \/ RequestOffline(p, q)
    PROVE  ListsInv'
<1>1. /\ UNCHANGED <<online, lists>>
      /\ \/ asked' = asked \cup {<<p, q>>} /\ q \in online /\ pending' = pending
         \/ pending' = pending \cup {<<p, q>>} /\ asked' = asked
  BY DEF Request, RequestOffline, AddPendingFriendRequest
<1>2. p # q
  BY DEF Request, RequestOffline
<1>3. QED
  BY <1>1, <1>2 DEF ListsInv, lists

LEMMA ShowRequestsKeeps ==
    ASSUME ListsInv, NEW p \in Player, ShowRequests(p)
    PROVE  ListsInv'
BY DEF ListsInv, lists, ShowRequests, PendingOf

LEMMA AcceptKeeps ==
    ASSUME ListsInv, NEW p \in Player, NEW q \in Player, Accept(p, q)
    PROVE  ListsInv'
<1>1. /\ UNCHANGED <<online, blocked, brows, cut, wish, pending>>
      /\ stale' = stale \ {<<p, q>>, <<q, p>>}
      /\ frows' = Row(Row(frows, p, q), q, p) /\ asked' = asked \ {<<q, p>>}
      /\ p \in online /\ p # q /\ frows \in ListTables
  BY DEF Accept, AddFriend, Settled, ListsInv
<1>2. frows' \in ListTables /\ Listed(frows') = AddOnlineFriend(Listed(frows), p, q)
  BY <1>1, PairFacts
<1>3. Friendly(online, friends, seen, Listed(frows), cut, stale)
  BY DEF ListsInv
<1>4. Friendly(online', friends', seen', Listed(frows'), cut', stale')
  <2>1. CASE q \in online
    <3>1. friends' = AddOnlineFriend(friends, p, q) /\ seen' = AddOnlineFriend(seen, p, q)
      BY <2>1 DEF Accept
    <3>2. Friendly(online, AddOnlineFriend(friends, p, q), AddOnlineFriend(seen, p, q),
                   AddOnlineFriend(Listed(frows), p, q), cut, stale \ {<<p, q>>, <<q, p>>})
      BY <1>1, <1>3, <2>1, Befriended
    <3>3. QED
      BY <1>1, <1>2, <3>1, <3>2
  <2>2. CASE q \notin online
    <3>1. friends' = [friends EXCEPT ![p] = @ \cup {q}] /\ seen' = [seen EXCEPT ![p] = @ \ {q}]
      BY <2>2 DEF Accept, AddOfflineFriend
    <3>2. Friendly(online, [friends EXCEPT ![p] = @ \cup {q}], [seen EXCEPT ![p] = @ \ {q}],
                   AddOnlineFriend(Listed(frows), p, q), cut, stale \ {<<p, q>>, <<q, p>>})
      BY <1>1, <1>3, <2>2, BefriendedAway
    <3>3. QED
      BY <1>1, <1>2, <3>1, <3>2
  <2>3. QED
    BY <2>1, <2>2
<1>5. QED
  BY <1>1, <1>2, <1>4 DEF ListsInv

\* Of two friends, or of a block.
LEMMA UnfriendedKeeps ==
    ASSUME ListsInv, NEW p \in online, NEW q \in Player, Unfriended(p, q)
    PROVE  /\ frows' \in ListTables
           /\ Friendly(online, friends', seen', Listed(frows'), cut, stale')
<1>1. frows' = NoRow(NoRow(frows, p, q), q, p) /\ frows \in ListTables /\ p \in Player
  BY DEF Unfriended, RemoveFriend, ListsInv, Friendly
<1>2. frows' \in ListTables /\ Listed(frows') = DeleteFriend(Listed(frows), p, q)
  BY <1>1, PairFacts
<1>3. Friendly(online, friends, seen, Listed(frows), cut, stale)
  BY DEF ListsInv
<1>4. Friendly(online, DeleteFriend(friends, p, q), DeleteFriend(seen, p, q),
               DeleteFriend(Listed(frows), p, q), cut, stale \ {<<p, q>>, <<q, p>>})
  BY <1>3, Parted
<1>5. QED
  BY <1>2, <1>4 DEF Unfriended, Settled

LEMMA UnfriendedHereKeeps ==
    ASSUME ListsInv, NEW p \in online, NEW q \in Player, p # q, UnfriendedHere(p, q)
    PROVE  /\ frows' \in ListTables
           /\ Friendly(online, friends', seen', Listed(frows'), cut, stale')
<1> DEFINE st2 == (stale \ {<<p, q>>}) \cup (IF q \in online /\ p \in friends[q] THEN {<<q, p>>} ELSE {})
<1>1. /\ frows' = NoRow(NoRow(frows, p, q), q, p) /\ frows \in ListTables /\ p \in Player
      /\ friends' = [friends EXCEPT ![p] = @ \ {q}] /\ seen' = [seen EXCEPT ![p] = @ \ {q}]
      /\ stale' = st2
  BY DEF UnfriendedHere, RemoveFriend, ListsInv, Friendly
<1>2. frows' \in ListTables /\ Listed(frows') = DeleteFriend(Listed(frows), p, q)
  BY <1>1, PairFacts
<1>3. Friendly(online, friends, seen, Listed(frows), cut, stale)
  BY DEF ListsInv
<1>4. Friendly(online, [friends EXCEPT ![p] = @ \ {q}], [seen EXCEPT ![p] = @ \ {q}],
               DeleteFriend(Listed(frows), p, q), cut, st2)
  BY <1>3, PartedHere
<1>5. QED
  BY <1>1, <1>2, <1>4

LEMMA UnfriendKeeps ==
    ASSUME ListsInv, NEW p \in Player, NEW q \in Player, Unfriend(p, q)
    PROVE  ListsInv'
<1>1. p \in online /\ Unfriended(p, q) /\ UNCHANGED <<online, asked, blocked, brows, cut, wish, pending>>
  BY DEF Unfriend
<1>2. frows' \in ListTables /\ Friendly(online, friends', seen', Listed(frows'), cut, stale')
  BY <1>1, UnfriendedKeeps
<1>3. QED
  BY <1>1, <1>2 DEF ListsInv

\* Session::blockAccount, on the rows there are or with a row more.
LEMMA BlockKeeps ==
    ASSUME ListsInv, NEW p \in Player, NEW q \in Player, Block(p, q) \/ BlockOffline(p, q)
    PROVE  ListsInv'
<1> DEFINE K == Listed(blocked)
           B == Listed(brows)
<1>1. /\ p \in online /\ p # q /\ UNCHANGED <<online, asked, cut, pending>>
      /\ blocked \in ListTables /\ brows \in ListTables /\ frows \in ListTables
      /\ Keeping(online, K, B, wish, cut) /\ Friendly(online, friends, seen, Listed(frows), cut, stale)
  BY DEF Block, BlockOffline, ListsInv
<1>2. /\ Row(brows, p, q) \in ListTables /\ Listed(Row(brows, p, q)) = With(B, p, q)
      /\ Row(blocked, p, q) \in ListTables /\ Listed(Row(blocked, p, q)) = With(K, p, q)
  BY <1>1, ListedFacts
<1>3. /\ Row(Row(brows, p, q), p, q) \in ListTables
      /\ Listed(Row(Row(brows, p, q), p, q)) = With(With(B, p, q), p, q)
  BY <1>2, ListedFacts
<1> HIDE DEF K, B
<1>4. /\ Keeping(online, With(K, p, q), With(B, p, q), wish \cup {<<p, q>>}, cut)
      /\ With(With(B, p, q), p, q) = With(B, p, q)
      /\ Keeping(online, K, With(B, p, q), wish, cut)
  BY <1>1, Blocked
<1>5. ASSUME NEW rows, rows \in {brows, Row(brows, p, q)}, BlockAccount(p, q, rows),
             \/ Unfriended(p, q) \/ UnfriendedHere(p, q)
             \/ UNCHANGED <<friends, seen, frows, stale>>
      PROVE  ListsInv'
  <2>1. /\ blocked' = Row(blocked, p, q) /\ brows' = Row(rows, p, q)
        /\ wish' = wish \cup {<<p, q>>}
    BY <1>5 DEF BlockAccount, BlockPlayer, Row
  <2>2. brows' \in ListTables /\ Listed(brows') = With(B, p, q)
    BY <1>2, <1>3, <1>4, <1>5, <2>1
  <2>3. frows' \in ListTables /\ Friendly(online, friends', seen', Listed(frows'), cut, stale')
    <3>1. CASE Unfriended(p, q)
      BY <1>1, <3>1, UnfriendedKeeps
    <3>2. CASE UnfriendedHere(p, q)
      BY <1>1, <3>2, UnfriendedHereKeeps
    <3>3. CASE UNCHANGED <<friends, seen, frows, stale>>
      BY <1>1, <3>3
    <3>4. QED
      BY <1>5, <3>1, <3>2, <3>3
  <2>4. blocked' \in ListTables /\ Listed(blocked') = With(K, p, q)
    BY <1>2, <2>1
  <2>5. QED
    BY <1>1, <1>4, <2>1, <2>2, <2>3, <2>4 DEF ListsInv
<1>6. CASE Block(p, q)
  <2>1. /\ BlockAccount(p, q, brows)
        /\ Unfriended(p, q) \/ UNCHANGED <<friends, seen, frows, stale>>
    BY <1>6 DEF Block
  <2>2. QED
    BY <1>5, <2>1
<1>7. BlockPlayerByNickname(p, q) \in {brows, Row(brows, p, q)}
  BY DEF BlockPlayerByNickname
<1>8. CASE BlockOffline(p, q) /\ HasRoomToBlock(p)
  <2>1. /\ BlockAccount(p, q, BlockPlayerByNickname(p, q))
        /\ UnfriendedHere(p, q) \/ UNCHANGED <<friends, seen, frows, stale>>
    BY <1>8 DEF BlockOffline
  <2>2. QED
    BY <1>5, <1>7, <2>1
<1>9. CASE BlockOffline(p, q) /\ ~HasRoomToBlock(p)
  <2>1. /\ brows' \in {brows, Row(brows, p, q)}
        /\ UNCHANGED <<blocked, wish, friends, seen, frows, stale>>
    BY <1>7, <1>9 DEF BlockOffline
  <2>2. brows' \in ListTables /\ Keeping(online, K, Listed(brows'), wish, cut)
    BY <1>1, <1>2, <1>4, <2>1 DEF B
  <2>3. QED
    BY <1>1, <2>1, <2>2 DEF ListsInv, K
<1>10. QED
  BY <1>6, <1>8, <1>9

LEMMA UnblockKeeps ==
    ASSUME ListsInv, NEW p \in Player, NEW q \in Player, Unblock(p, q)
    PROVE  ListsInv'
<1> DEFINE K == Listed(blocked)
           B == Listed(brows)
<1>1. /\ p \in online /\ UNCHANGED <<online, asked, friends, seen, frows, cut, stale, pending>>
      /\ blocked' = NoRow(blocked, p, q) /\ brows' = NoRow(brows, p, q)
      /\ wish' = wish \ {<<p, q>>}
      /\ blocked \in ListTables /\ brows \in ListTables /\ Keeping(online, K, B, wish, cut)
  BY DEF Unblock, UnblockPlayer, NoRow, ListsInv
<1>2. /\ brows' \in ListTables /\ Listed(brows') = But(B, p, q)
      /\ blocked' \in ListTables /\ Listed(blocked') = But(K, p, q)
  BY <1>1, ListedFacts
<1> HIDE DEF K, B
<1>3. Keeping(online, But(K, p, q), But(B, p, q), wish \ {<<p, q>>}, cut)
  BY <1>1, Unblocked
<1>4. QED
  BY <1>1, <1>2, <1>3 DEF ListsInv

LEMMA ReplacedList ==
    ASSUME NEW rows \in ListTables, NEW p \in Player, NEW s \in Seq(Player)
    PROVE  /\ Replaced(rows, p, s) \in ListTables
           /\ Listed(Replaced(rows, p, s)) = Replaced(Listed(rows), p, Range(s))
<1>1. rows \in [Player -> Seq(Player)]
  BY DEF ListTables
<1> DEFINE new == Replaced(rows, p, s)
<1>2. new \in ListTables /\ \A a \in Player : new[a] = IF a = p THEN s ELSE rows[a]
  BY <1>1 DEF ListTables, Replaced
<1> HIDE DEF new
<1>3. Listed(new) = Replaced(Listed(rows), p, Range(s))
  BY <1>2 DEF Listed, Replaced
<1>4. QED
  BY <1>2, <1>3 DEF new

LEMMA LoginKeeps ==
    ASSUME ListsInv, NEW p \in Player, Login(p)
    PROVE  ListsInv'
<1> DEFINE F == Listed(frows)
           B == Listed(brows)
           mine == LoadFriends(p)
           blocks == FirstOf(brows[p])
<1>1. /\ p \notin online /\ online' = online \cup {p}
      /\ friends' = Told(friends, mine \cap online, p, mine)
      /\ seen' = SeesOnline(seen, mine \cap online, p)
      /\ blocked' = Replaced(blocked, p, blocks)
      /\ UNCHANGED <<asked, frows, brows, pending, wish, stale>>
  BY DEF Login, Listing, LoadBlockedPlayers, Told, Replaced, SeesOnline
<1>2. /\ cut \subseteq cut'
      /\ <<p, "friends">> \notin cut' => ~(Len(frows[p]) > MaxFriends)
      /\ <<p, "blocked">> \notin cut' => ~(Len(brows[p]) > MaxFriends)
  BY DEF Login
<1>3. /\ blocked \in ListTables /\ frows[p] \in Seq(Player) /\ brows[p] \in Seq(Player)
      /\ F[p] = Range(frows[p]) /\ B[p] = Range(brows[p])
  BY DEF ListsInv, ListTables, Listed
<1>4. /\ mine \subseteq F[p] /\ (<<p, "friends">> \notin cut' => F[p] \subseteq mine)
      /\ Range(blocks) \subseteq B[p] /\ (<<p, "blocked">> \notin cut' => B[p] \subseteq Range(blocks))
      /\ blocks \in Seq(Player)
  BY <1>2, <1>3, FirstOfFacts DEF LoadFriends
<1>5. /\ Friendly(online, friends, seen, F, cut, stale) /\ Keeping(online, Listed(blocked), B, wish, cut)
  BY DEF ListsInv
<1>6. blocked' \in ListTables /\ Listed(blocked') = Replaced(Listed(blocked), p, Range(blocks))
  BY <1>1, <1>3, <1>4, ReplacedList
<1> HIDE DEF F, B, mine, blocks
<1>7. Friendly(online', friends', seen', F, cut', stale')
  BY <1>1, <1>2, <1>4, <1>5, CameIn
<1>8. Keeping(online', Listed(blocked'), B, wish, cut')
  BY <1>1, <1>2, <1>4, <1>5, <1>6, BlocksLoaded
<1>9. QED
  BY <1>1, <1>6, <1>7, <1>8 DEF ListsInv, F, B

LEMMA LogoutKeeps ==
    ASSUME ListsInv, NEW p \in Player, Logout(p)
    PROVE  ListsInv'
<1>1. /\ p \in online /\ online' = online \ {p}
      /\ friends' = Told(friends, seen[p], p, {}) /\ seen' = SeesNone(seen, p)
      /\ stale' = ToldStale(stale, seen, p)
      /\ blocked' = Replaced(blocked, p, <<>>)
      /\ asked' = {a \in asked : a[2] # p} /\ cut' = {c \in cut : c[1] # p}
      /\ UNCHANGED <<frows, brows, pending, wish>>
  BY DEF Logout, Listing, Told, Replaced, SeesNone, ToldStale
<1>2. /\ Friendly(online, friends, seen, Listed(frows), cut, stale)
      /\ Keeping(online, Listed(blocked), Listed(brows), wish, cut) /\ blocked \in ListTables
  BY DEF ListsInv
<1>3. \A a \in Player \ {p}, l \in {"friends", "blocked"} : <<a, l>> \in cut => <<a, l>> \in cut'
  BY <1>1
<1>4. Range(<<>>) = {} /\ <<>> \in Seq(Player)
  BY DEF Range
<1>5. blocked' \in ListTables /\ Listed(blocked') = Replaced(Listed(blocked), p, {})
  BY <1>1, <1>2, <1>4, ReplacedList
<1>6. Friendly(online', friends', seen', Listed(frows), cut', stale')
  BY <1>1, <1>2, <1>3, WentOut
<1>7. Keeping(online', Listed(blocked'), Listed(brows), wish, cut')
  BY <1>1, <1>2, <1>3, <1>5, BlocksDropped
<1>8. QED
  BY <1>1, <1>5, <1>6, <1>7 DEF ListsInv

LEMMA PersistKeeps ==
    ASSUME ListsInv, NEW p \in Player, Persist(p)
    PROVE  ListsInv'
<1>1. UNCHANGED <<online, asked, pending, friends, seen, blocked, frows, brows, cut, stale, wish>>
  BY DEF Persist
<1>2. QED
  BY <1>1 DEF ListsInv

LEMMA ListsStep == ListsInv /\ [Next]_vars => ListsInv'
<1>1. SUFFICES ASSUME ListsInv, [Next]_vars PROVE ListsInv'
  OBVIOUS
<1>2. CASE Tick \/ UNCHANGED vars
  <2>1. UNCHANGED <<online, asked, pending, lists>>
    BY <1>2 DEF Tick, vars, lists
  <2>2. QED
    BY <1>1, <2>1, ListsStay
<1>3. ASSUME NEW p \in Player, Login(p) \/ Logout(p) \/ Persist(p) \/ ShowRequests(p)
      PROVE  ListsInv'
  BY <1>1, <1>3, LoginKeeps, LogoutKeeps, PersistKeeps, ShowRequestsKeeps
<1>4. ASSUME NEW p \in Player, NEW q \in Player,
             \/ Request(p, q) \/ RequestOffline(p, q) \/ Accept(p, q) \/ Unfriend(p, q)
             \/ Block(p, q) \/ BlockOffline(p, q) \/ Unblock(p, q)
      PROVE  ListsInv'
  BY <1>1, <1>4, RequestKeeps, AcceptKeeps, UnfriendKeeps, BlockKeeps, UnblockKeeps
<1>5. ASSUME NEW p \in Player, NEW q \in Player, SendMail(p, q) \/ SendOfflineMail(p, q)
      PROVE  ListsInv'
  BY <1>1, <1>5, ListsStay DEF SendMail, SendOfflineMail
<1>6. ASSUME NEW p \in Player, NEW t, NEW b, OpenGift(p, t) \/ DeleteMail(p, b, t)
      PROVE  ListsInv'
  <2>1. UNCHANGED <<online, asked, pending, lists>>
    BY <1>6 DEF OpenGift, DeleteMail
  <2>2. QED
    BY <1>1, <2>1, ListsStay
<1>7. ASSUME NEW g \in Gift, NEW q \in Player, SendGift(g, q) \/ Reward(g, q)
      PROVE  ListsInv'
  <2>1. UNCHANGED <<online, asked, pending, lists>>
    BY <1>7 DEF SendGift, Reward
  <2>2. QED
    BY <1>1, <2>1, ListsStay
<1>8. QED
  BY <1>1, <1>2, <1>3, <1>4, <1>5, <1>6, <1>7 DEF Next

LEMMA ListsAgreeFollows == ListsInv => ListsAgree
<1>1. SUFFICES ASSUME ListsInv PROVE ListsAgree
  OBVIOUS
<1>2. /\ Friendly(online, friends, seen, Listed(frows), cut, stale)
      /\ Keeping(online, Listed(blocked), Listed(brows), wish, cut)
  BY <1>1 DEF ListsInv
<1>3. online \subseteq Player /\ friends \in Tables
  BY <1>2 DEF Friendly
<1>4. \A p \in Player : /\ Listed(frows)[p] = Range(frows[p])
                        /\ Listed(brows)[p] = Range(brows[p])
                        /\ Listed(blocked)[p] = Range(blocked[p])
  BY DEF Listed
<1> HIDE DEF Listed
<1>5. \A p, q \in Player : q \in Range(frows[p]) <=> p \in Range(frows[q])
  BY <1>2, <1>4 DEF Friendly
<1>6. \A p \in online : /\ \A q \in friends[p] : <<p, q>> \notin stale => q \in Range(frows[p])
                        /\ <<p, "friends">> \notin cut => Range(frows[p]) \subseteq friends[p]
                        /\ seen[p] \subseteq online
  <2>1. TAKE p \in online
  <2>2. p \in Player /\ Listed(frows)[p] = Range(frows[p]) /\ friends[p] \subseteq Player
    BY <1>3, <1>4 DEF Tables
  <2>3. /\ seen[p] \subseteq online
        /\ \A q \in Player : q \in friends[p] => q \in Listed(frows)[p] \/ <<p, q>> \in stale
        /\ <<p, "friends">> \notin cut => Listed(frows)[p] \subseteq friends[p]
    BY <1>2 DEF Friendly
  <2>4. QED
    BY <2>2, <2>3
<1>7. \A p \in online : \A q \in friends[p] \cap online : p \in friends[q] => q \in seen[p]
  BY <1>2 DEF Friendly
<1>8. \A p \in online : Range(blocked[p]) \subseteq Range(brows[p])
  BY <1>2, <1>3, <1>4 DEF Keeping
<1>9. QED
  BY <1>5, <1>6, <1>7, <1>8 DEF ListsAgree

\* Friends are friends in the table, in both sessions and see each other, but for who
\* was blocked without the session being found; a session blocks no one the table
\* does not (ListsAgree), for any number of players, limits and histories.
THEOREM ListsAlwaysAgree == Spec => []ListsAgree
BY ListsInit, ListsStep, ListsAgreeFollows, PTL DEF Spec

-----------------------------------------------------------------------------
(* The entries of a second in a box. *)

Mail == [with : Player \cup Gift, time : Nat]

\* There is at most one of second t, and what it is.
Once(t, es) == \A i, j \in Dated(t, es) : i = j
At(t, es) == {es[i] : i \in Dated(t, es)}

LEMMA AppendedAt ==
    ASSUME NEW es \in Seq(Mail), NEW e \in Mail, NEW t
    PROVE  /\ Append(es, e) \in Seq(Mail)
           /\ At(t, Append(es, e)) = At(t, es) \cup (IF e.time = t THEN {e} ELSE {})
           /\ Once(t, es) /\ (e.time = t => At(t, es) = {}) => Once(t, Append(es, e))
<1> DEFINE new == Append(es, e)
<1>1. /\ new \in Seq(Mail) /\ DOMAIN new = DOMAIN es \cup {Len(es) + 1}
      /\ \A i \in DOMAIN es : new[i] = es[i] /\ i # Len(es) + 1
      /\ new[Len(es) + 1] = e
  OBVIOUS
<1> HIDE DEF new
<1>2. Dated(t, new) = Dated(t, es) \cup (IF e.time = t THEN {Len(es) + 1} ELSE {})
  BY <1>1 DEF Dated
<1>3. \A i \in Dated(t, es) : new[i] = es[i]
  BY <1>1 DEF Dated
<1>4. At(t, new) = At(t, es) \cup (IF e.time = t THEN {e} ELSE {})
  BY <1>1, <1>2, <1>3 DEF At
<1>5. Once(t, es) /\ (e.time = t => At(t, es) = {}) => Once(t, new)
  <2>1. At(t, es) = {} => Dated(t, es) = {}
    BY DEF At
  <2>2. QED
    BY <1>2, <2>1 DEF Once
<1>6. QED
  BY <1>1, <1>4, <1>5 DEF new

LEMMA PickedAt ==
    ASSUME NEW es \in Seq(Mail), NEW keep \in SUBSET DOMAIN es, NEW t
    PROVE  /\ Picked(es, keep) \in Seq(Mail)
           /\ Range(Picked(es, keep)) = {es[i] : i \in keep}
           /\ Once(t, es) => Once(t, Picked(es, keep))
           /\ keep \cap Dated(t, es) = {} => Once(t, Picked(es, keep)) /\ At(t, Picked(es, keep)) = {}
           /\ Dated(t, es) \subseteq keep => At(t, Picked(es, keep)) = At(t, es)
<1> DEFINE new == Picked(es, keep)
<1>1. /\ new \in Seq(Mail) /\ DOMAIN new = 1 .. Cardinality(keep)
      /\ \E f : Places(es, keep, f)
  BY PickedFacts
<1>2. PICK f : Places(es, keep, f)
  BY <1>1
<1> HIDE DEF new
<1>3. /\ \A k \in DOMAIN new : f[k] \in keep /\ new[k] = es[f[k]]
      /\ \A k, l \in DOMAIN new : f[k] = f[l] => k = l
      /\ \A i \in keep : \E k \in DOMAIN new : f[k] = i
  BY <1>1, <1>2 DEF Places, new
<1>4. /\ \A k \in Dated(t, new) : k \in DOMAIN new /\ f[k] \in Dated(t, es) \cap keep
      /\ \A i \in Dated(t, es) \cap keep : \E k \in Dated(t, new) : f[k] = i
  BY <1>3 DEF Dated
<1>5. Range(new) = {es[i] : i \in keep}
  BY <1>3 DEF Range
<1>6. At(t, new) = {es[i] : i \in Dated(t, es) \cap keep}
  BY <1>3, <1>4 DEF At
<1>7. Once(t, es) => Once(t, new)
  BY <1>3, <1>4 DEF Once
<1>8. keep \cap Dated(t, es) = {} => Once(t, new) /\ At(t, new) = {}
  BY <1>4 DEF Once, At
<1>9. Dated(t, es) \subseteq keep => At(t, new) = At(t, es)
  BY <1>6 DEF At
<1>10. QED
  BY <1>1, <1>5, <1>7, <1>8, <1>9 DEF new

\* No entry, or the one there is.
LEMMA OfFacts ==
    ASSUME NEW es \in Seq(Mail), NEW t
    PROVE  /\ Of(t, es) = <<>> <=> At(t, es) = {}
           /\ Of(t, es) # <<>> => Head(Of(t, es)) \in At(t, es)
           /\ Once(t, es) /\ At(t, es) # {} => Of(t, es) = <<Head(Of(t, es))>>
<1> DEFINE keep == Dated(t, es)
           of == Picked(es, keep)
<1>1. keep \in SUBSET DOMAIN es
  BY DEF Dated
<1> HIDE DEF keep
<1>2. /\ of \in Seq(Mail) /\ DOMAIN of = 1 .. Cardinality(keep) /\ Cardinality(keep) \in Nat
      /\ \E f : Places(es, keep, f)
  BY <1>1, PickedFacts
<1>3. PICK f : Places(es, keep, f)
  BY <1>2
<1> HIDE DEF of
<1>4. /\ \A k \in DOMAIN of : f[k] \in keep /\ of[k] = es[f[k]]
      /\ \A k, l \in DOMAIN of : f[k] = f[l] => k = l
      /\ \A i \in keep : \E k \in DOMAIN of : f[k] = i
  BY <1>2, <1>3 DEF Places, of
<1>5. Len(of) = Cardinality(keep) /\ DOMAIN of = 1 .. Len(of) /\ Len(of) \in Nat
  BY <1>2
<1>6. of = <<>> => keep = {}
  BY <1>4, <1>5
<1>7. of # <<>> => 1 \in DOMAIN of /\ Head(of) = of[1]
  BY <1>2, <1>5
<1>8. of # <<>> => Head(of) \in At(t, es)
  BY <1>4, <1>7 DEF At, keep
<1>9. of = <<>> <=> At(t, es) = {}
  BY <1>6, <1>8 DEF At, keep
<1>10. Once(t, es) /\ of # <<>> => of = <<Head(of)>>
  <2>1. SUFFICES ASSUME Once(t, es), of # <<>> PROVE of = <<Head(of)>>
    OBVIOUS
  <2>2. \A k, l \in DOMAIN of : k = l
    BY <1>4, <2>1 DEF Once, keep
  <2>3. Len(of) = 1
    BY <1>5, <1>7, <2>1, <2>2
  <2>4. ASSUME NEW s \in Seq(Mail), Len(s) = 1 PROVE s = <<s[1]>>
    <3>1. s[1] \in Mail
      <4>1. 1 \in 1 .. Len(s)
        BY <2>4
      <4>2. QED
        BY <2>4, <4>1, ElementOfSeq
    <3>2. <<s[1]>> \in Seq(Mail)
      BY <3>1
    <3>3. Len(<<s[1]>>) = 1 /\ <<s[1]>>[1] = s[1]
      OBVIOUS
    <3>4. \A i \in 1 .. Len(s) : s[i] = <<s[1]>>[i]
      BY <2>4, <3>3
    <3>5. QED
      BY <2>4, <3>2, <3>3, <3>4, SeqEqual
  <2>5. QED
    BY <1>2, <1>7, <2>1, <2>3, <2>4
<1>11. QED
  BY <1>8, <1>9, <1>10 DEF Of, of, keep

\* What is taken out of a box leaves what there was.
LEMMA WithoutRange ==
    ASSUME NEW es \in Seq(Mail), NEW t
    PROVE  /\ Without(t, es) \in Seq(Mail)
           /\ Range(Without(t, es)) = {e \in Range(es) : e.time # t}
<1> DEFINE kept == DOMAIN es \ Dated(t, es)
<1>1. kept \in SUBSET DOMAIN es /\ Without(t, es) = Picked(es, kept)
  BY DEF Without
<1>2. {es[i] : i \in kept} = {e \in Range(es) : e.time # t}
  BY DEF Dated, Range
<1> HIDE DEF kept
<1>3. Picked(es, kept) \in Seq(Mail) /\ Range(Picked(es, kept)) = {es[i] : i \in kept}
  BY <1>1, PickedAt
<1>4. QED
  BY <1>1, <1>2, <1>3

LEMMA AtRange ==
    ASSUME NEW es, NEW t
    PROVE  At(t, es) = {e \in Range(es) : e.time = t}
BY DEF At, Dated, Range

LEMMA SameOf ==
    ASSUME NEW es \in Seq(Mail), NEW fs \in Seq(Mail), NEW t,
           Once(t, es), Once(t, fs), At(t, es) = At(t, fs)
    PROVE  Of(t, es) = Of(t, fs)
<1>1. CASE At(t, es) = {}
  <2>1. Of(t, es) = <<>> /\ Of(t, fs) = <<>>
    BY <1>1, OfFacts
  <2>2. QED
    BY <2>1
<1>2. CASE At(t, es) # {}
  <2>1. /\ Of(t, es) = <<Head(Of(t, es))>> /\ Head(Of(t, es)) \in At(t, es)
        /\ Of(t, fs) = <<Head(Of(t, fs))>> /\ Head(Of(t, fs)) \in At(t, fs)
    BY <1>2, OfFacts
  <2>2. \A x, y \in At(t, es) : x = y
    BY DEF Once, At
  <2>3. Head(Of(t, es)) = Head(Of(t, fs))
    BY <2>1, <2>2
  <2>4. QED
    BY <2>1, <2>3
<1>3. QED
  BY <1>1, <1>2

-----------------------------------------------------------------------------
(* Sessions' boxes and their rows.                                         *)
(*                                                                         *)
(* bx stands for the boxes, rows for the tables.  Where a second of a box  *)
(* is not marked as having twins (tw), the rows have at most one entry of  *)
(* it and a session has the same, or none if it was not told (un).         *)

BoxTables == [Player -> [Boxes -> Seq(Mail)]]

\* Box b of p is replaced.
Reboxed(bs, p, b, s) == [bs EXCEPT ![p][b] = s]

LEMMA ReboxedFacts ==
    ASSUME NEW bs \in BoxTables, NEW p \in Player, NEW b \in Boxes, NEW s \in Seq(Mail)
    PROVE  /\ Reboxed(bs, p, b, s) \in BoxTables
           /\ \A a \in Player, c \in Boxes :
                 Reboxed(bs, p, b, s)[a][c] = IF a = p /\ c = b THEN s ELSE bs[a][c]
           /\ bs[p][b] \in Seq(Mail)
<1> DEFINE own == [bs[p] EXCEPT ![b] = s]
           new == [bs EXCEPT ![p] = own]
<1>1. bs \in [Player -> [Boxes -> Seq(Mail)]] /\ bs[p] \in [Boxes -> Seq(Mail)]
  BY DEF BoxTables
<1>2. own \in [Boxes -> Seq(Mail)] /\ \A c \in Boxes : own[c] = IF c = b THEN s ELSE bs[p][c]
  BY <1>1
<1>3. Reboxed(bs, p, b, s) = new
  BY DEF Reboxed
<1> HIDE DEF own
<1>4. new \in [Player -> [Boxes -> Seq(Mail)]] /\ \A a \in Player : new[a] = IF a = p THEN own ELSE bs[a]
  BY <1>1, <1>2
<1> HIDE DEF new
<1>5. QED
  BY <1>1, <1>2, <1>3, <1>4 DEF BoxTables

\* An entry more leaves the other boxes alone.
LEMMA PutElsewhere ==
    ASSUME NEW bs \in BoxTables, NEW p \in Player, NEW b \in Boxes, NEW e,
           NEW a \in Player, NEW c \in Boxes, a # p \/ c # b
    PROVE  Put(bs, p, b, e)[a][c] = bs[a][c]
<1>1. bs \in [Player -> [Boxes -> Seq(Mail)]]
  BY DEF BoxTables
<1>2. QED
  BY <1>1 DEF Put

Alike(t, es, fs, missed) ==
    Once(t, es) /\ (At(t, es) = At(t, fs) \/ (missed /\ At(t, es) = {}))

Same(on, bx, rows, tw, un) ==
    \A p \in Player, b \in Boxes, t \in Nat : <<p, b, t>> \notin tw =>
        /\ Once(t, rows[p][b])
        /\ p \in on => Alike(t, bx[p][b], rows[p][b], <<p, b, t>> \in un)

\* Boxes of the same kind in both, after a step that replaces one of them.
LEMMA SameReplaced ==
    ASSUME NEW on, NEW bx \in BoxTables, NEW rows \in BoxTables, NEW tw, NEW un, Same(on, bx, rows, tw, un),
           NEW p \in Player, NEW b \in Boxes, NEW es \in Seq(Mail), NEW fs \in Seq(Mail),
           NEW tw2, tw \subseteq tw2, NEW un2, un \subseteq un2,
           \A t \in Nat : <<p, b, t>> \notin tw2 =>
              /\ Once(t, fs)
              /\ p \in on => Alike(t, es, fs, <<p, b, t>> \in un2)
    PROVE  Same(on, Reboxed(bx, p, b, es), Reboxed(rows, p, b, fs), tw2, un2)
<1>1. /\ \A a \in Player, c \in Boxes :
            Reboxed(bx, p, b, es)[a][c] = IF a = p /\ c = b THEN es ELSE bx[a][c]
      /\ \A a \in Player, c \in Boxes :
            Reboxed(rows, p, b, fs)[a][c] = IF a = p /\ c = b THEN fs ELSE rows[a][c]
  BY ReboxedFacts
<1>2. SUFFICES ASSUME NEW a \in Player, NEW c \in Boxes, NEW t \in Nat, <<a, c, t>> \notin tw2
               PROVE  /\ Once(t, Reboxed(rows, p, b, fs)[a][c])
                      /\ a \in on => Alike(t, Reboxed(bx, p, b, es)[a][c], Reboxed(rows, p, b, fs)[a][c],
                                           <<a, c, t>> \in un2)
  BY DEF Same
<1>3. CASE a = p /\ c = b
  BY <1>1, <1>2, <1>3
<1>4. CASE ~(a = p /\ c = b)
  <2>1. /\ Once(t, rows[a][c])
        /\ a \in on => Alike(t, bx[a][c], rows[a][c], <<a, c, t>> \in un)
    BY <1>2 DEF Same
  <2>2. a \in on => Alike(t, bx[a][c], rows[a][c], <<a, c, t>> \in un2)
    BY <2>1 DEF Alike
  <2>3. QED
    BY <1>1, <1>4, <2>1, <2>2
<1>5. QED
  BY <1>3, <1>4

\* An entry more: in the rows and in the session there is, or in the rows only, of
\* which no session is told.
LEMMA Posted ==
    ASSUME NEW on, NEW bx \in BoxTables, NEW rows \in BoxTables, NEW tw, NEW un, Same(on, bx, rows, tw, un),
           NEW p \in Player, NEW b \in Boxes, NEW e \in Mail,
           NEW tw2, tw \subseteq tw2, Of(e.time, rows[p][b]) # <<>> => <<p, b, e.time>> \in tw2,
           NEW un2, un \subseteq un2
    PROVE  /\ Put(rows, p, b, e) \in BoxTables /\ Put(bx, p, b, e) \in BoxTables
           /\ Same(on, Put(bx, p, b, e), Put(rows, p, b, e), tw2, un2)
           /\ p \notin on \/ <<p, b, e.time>> \in un2 => Same(on, bx, Put(rows, p, b, e), tw2, un2)
<1> DEFINE bs == bx[p][b]
           rs == rows[p][b]
           es == Append(bx[p][b], e)
           fs == Append(rows[p][b], e)
<1>1. rs \in Seq(Mail) /\ bs \in Seq(Mail) /\ e.time \in Nat
  BY DEF BoxTables, Mail
<1>2. \A t \in Nat :
         /\ At(t, fs) = At(t, rs) \cup (IF e.time = t THEN {e} ELSE {})
         /\ Once(t, rs) /\ (e.time = t => At(t, rs) = {}) => Once(t, fs)
         /\ At(t, es) = At(t, bs) \cup (IF e.time = t THEN {e} ELSE {})
         /\ Once(t, bs) /\ (e.time = t => At(t, bs) = {}) => Once(t, es)
  BY <1>1, AppendedAt
<1>3. es \in Seq(Mail) /\ fs \in Seq(Mail)
  BY <1>1
<1>4. /\ Put(rows, p, b, e) = Reboxed(rows, p, b, fs) /\ Put(bx, p, b, e) = Reboxed(bx, p, b, es)
      /\ bx = Reboxed(bx, p, b, bs)
  <2>1. bx \in [Player -> [Boxes -> Seq(Mail)]]
    BY DEF BoxTables
  <2>2. bx = Reboxed(bx, p, b, bs)
    BY <2>1 DEF Reboxed
  <2>3. QED
    BY <2>2 DEF Put, Reboxed
<1>5. Of(e.time, rs) = <<>> => At(e.time, rs) = {}
  BY <1>1, OfFacts
<1>6. ASSUME NEW t \in Nat, <<p, b, t>> \notin tw2
      PROVE  /\ Once(t, rs) /\ (e.time = t => At(t, rs) = {})
             /\ p \in on => Alike(t, bs, rs, <<p, b, t>> \in un)
  <2>1. /\ Once(t, rs)
        /\ p \in on => Alike(t, bs, rs, <<p, b, t>> \in un)
    BY <1>6 DEF Same
  <2>2. e.time = t => At(t, rs) = {}
    BY <1>5, <1>6
  <2>3. QED
    BY <2>1, <2>2
<1> HIDE DEF es, fs, bs, rs
<1>7. \A t \in Nat : <<p, b, t>> \notin tw2 =>
         /\ Once(t, fs)
         /\ p \in on => Alike(t, es, fs, <<p, b, t>> \in un2)
  <2>1. SUFFICES ASSUME NEW t \in Nat, <<p, b, t>> \notin tw2
                 PROVE  /\ Once(t, fs)
                        /\ p \in on => Alike(t, es, fs, <<p, b, t>> \in un2)
    OBVIOUS
  <2>2. /\ Once(t, rs) /\ (e.time = t => At(t, rs) = {})
        /\ p \in on => Alike(t, bs, rs, <<p, b, t>> \in un)
    BY <1>6, <2>1
  <2>3. Once(t, fs)
    BY <1>2, <2>2
  <2>4. ASSUME p \in on PROVE Alike(t, es, fs, <<p, b, t>> \in un2)
    <3>1. Once(t, bs) /\ (At(t, bs) = At(t, rs) \/ (<<p, b, t>> \in un /\ At(t, bs) = {}))
      BY <2>2, <2>4 DEF Alike
    <3>2. CASE e.time = t
      BY <1>2, <2>2, <3>1, <3>2 DEF Alike
    <3>3. CASE e.time # t
      BY <1>2, <3>1, <3>3 DEF Alike
    <3>4. QED
      BY <3>2, <3>3
  <2>5. QED
    BY <2>3, <2>4
<1>8. Same(on, Reboxed(bx, p, b, es), Reboxed(rows, p, b, fs), tw2, un2)
  BY <1>3, <1>7, SameReplaced
<1>9. Reboxed(rows, p, b, fs) \in BoxTables /\ Reboxed(bx, p, b, es) \in BoxTables
  BY <1>3, ReboxedFacts
<1>10. ASSUME p \notin on \/ <<p, b, e.time>> \in un2
       PROVE  Same(on, bx, Reboxed(rows, p, b, fs), tw2, un2)
  <2>1. \A t \in Nat : <<p, b, t>> \notin tw2 =>
           /\ Once(t, fs)
           /\ p \in on => Alike(t, bs, fs, <<p, b, t>> \in un2)
    <3>1. SUFFICES ASSUME NEW t \in Nat, <<p, b, t>> \notin tw2
                   PROVE  /\ Once(t, fs)
                          /\ p \in on => Alike(t, bs, fs, <<p, b, t>> \in un2)
      OBVIOUS
    <3>2. /\ Once(t, fs) /\ (e.time = t => At(t, rs) = {})
          /\ p \in on => Alike(t, bs, rs, <<p, b, t>> \in un)
      BY <1>6, <1>7, <3>1
    <3>3. ASSUME p \in on PROVE Alike(t, bs, fs, <<p, b, t>> \in un2)
      <4>1. Once(t, bs) /\ (At(t, bs) = At(t, rs) \/ (<<p, b, t>> \in un /\ At(t, bs) = {}))
        BY <3>2, <3>3 DEF Alike
      <4>2. CASE e.time = t
        BY <1>10, <3>2, <3>3, <4>1, <4>2 DEF Alike
      <4>3. CASE e.time # t
        BY <1>2, <4>1, <4>3 DEF Alike
      <4>4. QED
        BY <4>2, <4>3
    <3>4. QED
      BY <3>2, <3>3
  <2>2. Same(on, Reboxed(bx, p, b, bs), Reboxed(rows, p, b, fs), tw2, un2)
    BY <1>1, <1>3, <2>1, SameReplaced
  <2>3. QED
    BY <1>4, <2>2
<1>11. QED
  BY <1>4, <1>8, <1>9, <1>10

\* The entries of a second are taken out, in the rows all of them and in the
\* session all or one of them.
LEMMA TakenOut ==
    ASSUME NEW on, NEW bx \in BoxTables, NEW rows \in BoxTables, NEW tw, NEW un, Same(on, bx, rows, tw, un),
           NEW p \in on, p \in Player, NEW b \in Boxes, NEW t \in Nat,
           NEW keep \in SUBSET DOMAIN bx[p][b],
           \A i \in DOMAIN bx[p][b] \ keep : i \in Dated(t, bx[p][b]),
           Once(t, bx[p][b]) => keep \cap Dated(t, bx[p][b]) = {}
    PROVE  /\ Picked(bx[p][b], keep) \in Seq(Mail) /\ Without(t, rows[p][b]) \in Seq(Mail)
           /\ Same(on, Reboxed(bx, p, b, Picked(bx[p][b], keep)),
                   Reboxed(rows, p, b, Without(t, rows[p][b])), tw, un)
<1> DEFINE es == bx[p][b]
           fs == rows[p][b]
           kept == DOMAIN fs \ Dated(t, fs)
<1>1. es \in Seq(Mail) /\ fs \in Seq(Mail)
  BY DEF BoxTables
<1>2. kept \in SUBSET DOMAIN fs /\ Without(t, fs) = Picked(fs, kept)
  BY DEF Without
<1>3. \A u \in Nat : u # t =>
         Dated(u, fs) \subseteq kept /\ Dated(u, es) \subseteq keep
  BY DEF Dated
<1>4. kept \cap Dated(t, fs) = {}
  OBVIOUS
<1> HIDE DEF kept
<1>5. /\ Picked(es, keep) \in Seq(Mail) /\ Picked(fs, kept) \in Seq(Mail)
      /\ \A u \in Nat :
            /\ Once(u, es) => Once(u, Picked(es, keep))
            /\ keep \cap Dated(u, es) = {} => Once(u, Picked(es, keep)) /\ At(u, Picked(es, keep)) = {}
            /\ Dated(u, es) \subseteq keep => At(u, Picked(es, keep)) = At(u, es)
            /\ Once(u, fs) => Once(u, Picked(fs, kept))
            /\ kept \cap Dated(u, fs) = {} => Once(u, Picked(fs, kept)) /\ At(u, Picked(fs, kept)) = {}
            /\ Dated(u, fs) \subseteq kept => At(u, Picked(fs, kept)) = At(u, fs)
  BY <1>1, <1>2, PickedAt
<1>6. \A u \in Nat : <<p, b, u>> \notin tw =>
         Once(u, fs) /\ Alike(u, es, fs, <<p, b, u>> \in un)
  BY DEF Same
<1>7. \A u \in Nat : <<p, b, u>> \notin tw =>
         /\ Once(u, Picked(fs, kept))
         /\ p \in on => Alike(u, Picked(es, keep), Picked(fs, kept), <<p, b, u>> \in un)
  <2>1. SUFFICES ASSUME NEW u \in Nat, <<p, b, u>> \notin tw
                 PROVE  /\ Once(u, Picked(fs, kept))
                        /\ Alike(u, Picked(es, keep), Picked(fs, kept), <<p, b, u>> \in un)
    OBVIOUS
  <2>2. /\ Once(u, fs) /\ Once(u, es)
        /\ At(u, es) = At(u, fs) \/ (<<p, b, u>> \in un /\ At(u, es) = {})
    BY <1>6, <2>1 DEF Alike
  <2>3. CASE u = t
    BY <1>4, <1>5, <2>2, <2>3 DEF Alike
  <2>4. CASE u # t
    BY <1>3, <1>5, <2>2, <2>4 DEF Alike
  <2>5. QED
    BY <2>3, <2>4
<1> HIDE DEF es, fs
<1>8. Same(on, Reboxed(bx, p, b, Picked(es, keep)), Reboxed(rows, p, b, Picked(fs, kept)), tw, un)
  BY <1>5, <1>7, SameReplaced
<1>9. QED
  BY <1>2, <1>5, <1>8 DEF es, fs

-----------------------------------------------------------------------------
(* The invariant of the boxes. *)

BoxesInv ==
    /\ online \subseteq Player /\ now \in Nat
    /\ box \in BoxTables /\ boxrows \in BoxTables
    /\ Same(online, box, boxrows, twins, unheard)

LEMMA BoxesInit == Init => BoxesInv
<1>1. SUFFICES ASSUME Init PROVE BoxesInv
  OBVIOUS
<1>2. box \in BoxTables /\ boxrows \in BoxTables
  BY <1>1 DEF Init, BoxTables, NoMail
<1>3. \A p \in Player, b \in Boxes : boxrows[p][b] = <<>>
  BY <1>1 DEF Init, NoMail
<1>4. \A t \in Nat : Once(t, <<>>)
  BY DEF Once, Dated
<1>5. Same(online, box, boxrows, twins, unheard)
  BY <1>1, <1>3, <1>4 DEF Same, Init
<1>6. QED
  BY <1>1, <1>2, <1>5 DEF Init, BoxesInv

LEMMA BoxesStay ==
    ASSUME BoxesInv, UNCHANGED <<online, box, boxrows, twins, unheard>>, now' \in Nat
    PROVE  BoxesInv'
BY DEF BoxesInv

LEMMA LoginKeepsBoxes ==
    ASSUME BoxesInv, NEW p \in Player, Login(p)
    PROVE  BoxesInv'
<1> DEFINE own == [b \in Boxes |-> IF b = "gift" THEN LoadReceivedGiftboxes(p) ELSE LoadMailboxes(p, b)]
<1>1. /\ online' = online \cup {p} /\ box' = [box EXCEPT ![p] = own]
      /\ UNCHANGED <<now, boxrows, twins, unheard>> /\ p \notin online
  BY DEF Login
<1>2. /\ box \in [Player -> [Boxes -> Seq(Mail)]] /\ boxrows \in [Player -> [Boxes -> Seq(Mail)]]
      /\ Same(online, box, boxrows, twins, unheard) /\ online \subseteq Player /\ now \in Nat
  BY DEF BoxesInv, BoxTables
<1>3. own \in [Boxes -> Seq(Mail)] /\ \A b \in Boxes : own[b] = boxrows[p][b]
  BY <1>2 DEF LoadReceivedGiftboxes, LoadMailboxes
<1> HIDE DEF own
<1>4. box' \in BoxTables /\ \A a \in Player : box'[a] = IF a = p THEN own ELSE box[a]
  BY <1>1, <1>2, <1>3 DEF BoxTables
<1>5. Same(online', box', boxrows', twins', unheard')
  BY <1>1, <1>2, <1>3, <1>4 DEF Same, Alike
<1>6. QED
  BY <1>1, <1>2, <1>4, <1>5 DEF BoxesInv, BoxTables

LEMMA LogoutKeepsBoxes ==
    ASSUME BoxesInv, NEW p \in Player, Logout(p)
    PROVE  BoxesInv'
<1>1. /\ online' = online \ {p} /\ box' = [box EXCEPT ![p] = NoMail]
      /\ unheard' = {u \in unheard : u[1] # p}
      /\ UNCHANGED <<now, boxrows, twins>>
  BY DEF Logout
<1>2. /\ box \in [Player -> [Boxes -> Seq(Mail)]] /\ boxrows \in BoxTables
      /\ Same(online, box, boxrows, twins, unheard) /\ online \subseteq Player /\ now \in Nat
  BY DEF BoxesInv, BoxTables
<1>3. NoMail \in [Boxes -> Seq(Mail)]
  BY DEF NoMail
<1>4. box' \in BoxTables /\ \A a \in Player : box'[a] = IF a = p THEN NoMail ELSE box[a]
  BY <1>1, <1>2, <1>3 DEF BoxTables
<1>5. Same(online', box', boxrows', twins', unheard')
  <2>1. \A a \in Player \ {p}, b \in Boxes, t \in Nat : <<a, b, t>> \in unheard => <<a, b, t>> \in unheard'
    BY <1>1
  <2>2. QED
    BY <1>1, <1>2, <1>4, <2>1 DEF Same, Alike
<1>6. QED
  BY <1>1, <1>2, <1>4, <1>5 DEF BoxesInv

LEMMA NewIsMail ==
    ASSUME now \in Nat, NEW w \in Player \cup Gift
    PROVE  New(w) \in Mail /\ New(w).time = now /\ New(w).with = w
BY DEF New, Mail

\* The two rows of a mail, of which the second may be deleted by what waits in the
\* queue, and the copies of the sessions that are told.
\* What a mail does: the sender keeps a copy in both places; the receiver gets it
\* in both, or in neither, or in the rows only, of which no session is told.
LEMMA MailCases ==
    ASSUME NEW p \in Player, NEW q \in Player, SendMail(p, q) \/ SendOfflineMail(p, q)
    PROVE  /\ UNCHANGED <<online, now, asked, pending, sent, opened>> /\ p # q
           /\ twins' = twins \cup Twin(p, "out") \cup Twin(q, "in") /\ unheard \subseteq unheard'
           /\ \/ /\ boxrows' = Put(Kept(boxrows, p, q), q, "in", New(p))
                 /\ box' = Put(Kept(box, p, q), q, "in", New(p))
                 /\ q \in online /\ p \notin Range(blocked[q])
              \/ /\ boxrows' = Kept(boxrows, p, q) /\ box' = Kept(box, p, q)
              \/ /\ boxrows' = Put(Kept(boxrows, p, q), q, "in", New(p)) /\ box' = Kept(box, p, q)
                 /\ q \notin online \/ <<q, "in", now>> \in unheard'
                 /\ <<q, p>> \notin tabled
<1>1. CASE SendMail(p, q)
  BY <1>1 DEF SendMail, HasBlocked
<1>2. CASE SendOfflineMail(p, q)
  <2>1. /\ boxrows' = PutAtOnce(Kept(boxrows, p, q), q, "in", New(p)) /\ box' = Kept(box, p, q)
        /\ UNCHANGED <<online, now, asked, pending, sent, opened>> /\ p # q /\ <<q, p>> \notin tabled
        /\ twins' = twins \cup Twin(p, "out") \cup Twin(q, "in")
        /\ unheard' = unheard \cup Unheard(q, "in")
    BY <1>2 DEF SendOfflineMail, StoreOfflineMailbox
  <2>2. CASE Doomed(q, "in")
    BY <2>1, <2>2 DEF PutAtOnce
  <2>3. CASE ~Doomed(q, "in")
    BY <2>1, <2>3 DEF PutAtOnce, Unheard
  <2>4. QED
    BY <2>2, <2>3
<1>3. QED
  BY <1>1, <1>2

LEMMA MailedKeepsBoxes ==
    ASSUME BoxesInv, NEW p \in Player, NEW q \in Player, SendMail(p, q) \/ SendOfflineMail(p, q)
    PROVE  BoxesInv'
<1>1. /\ box \in BoxTables /\ boxrows \in BoxTables /\ now \in Nat
      /\ Same(online, box, boxrows, twins, unheard) /\ online \subseteq Player
  BY DEF BoxesInv
<1>2. /\ New(q) \in Mail /\ New(q).time = now /\ New(p) \in Mail /\ New(p).time = now
  BY <1>1, NewIsMail
<1> DEFINE rows1 == Put(boxrows, p, "out", New(q))
           box1 == Put(box, p, "out", New(q))
           rows2 == Put(rows1, q, "in", New(p))
           box2 == Put(box1, q, "in", New(p))
<1>3. /\ UNCHANGED <<online, now>> /\ p # q
      /\ twins' = twins \cup Twin(p, "out") \cup Twin(q, "in") /\ unheard \subseteq unheard'
      /\ \/ boxrows' = rows2 /\ box' = box2
         \/ boxrows' = rows1 /\ box' = box1
         \/ /\ boxrows' = rows2 /\ box' = box1
            /\ q \notin online \/ <<q, "in", now>> \in unheard'
  BY MailCases DEF Kept
<1>4. /\ Of(now, boxrows[p]["out"]) # <<>> => <<p, "out", now>> \in twins'
      /\ Of(now, boxrows[q]["in"]) # <<>> => <<q, "in", now>> \in twins'
      /\ twins \subseteq twins' /\ "out" \in Boxes /\ "in" \in Boxes
  BY <1>3 DEF Twin, Boxes
<1>5. rows1 \in BoxTables /\ box1 \in BoxTables /\ Same(online, box1, rows1, twins', unheard')
  <2>1. /\ Of(New(q).time, boxrows[p]["out"]) # <<>> => <<p, "out", New(q).time>> \in twins'
        /\ twins \subseteq twins' /\ unheard \subseteq unheard' /\ New(q) \in Mail /\ "out" \in Boxes
        /\ box \in BoxTables /\ boxrows \in BoxTables /\ Same(online, box, boxrows, twins, unheard)
    BY <1>1, <1>2, <1>3, <1>4
  <2>2. /\ rows1 \in BoxTables /\ box1 \in BoxTables
        /\ Same(online, box1, rows1, twins', unheard')
        /\ p \notin online \/ <<p, "out", New(q).time>> \in unheard' =>
              Same(online, box, rows1, twins', unheard')
    BY <2>1, Posted
  <2>3. QED
    BY <2>2
<1>6. rows1[q]["in"] = boxrows[q]["in"]
  BY <1>1, <1>3, <1>4, PutElsewhere
<1> HIDE DEF rows1, box1
<1>7. /\ Of(New(p).time, rows1[q]["in"]) # <<>> => <<q, "in", New(p).time>> \in twins'
      /\ twins' \subseteq twins' /\ unheard' \subseteq unheard'
  BY <1>2, <1>4, <1>6
<1>8. /\ rows2 \in BoxTables /\ box2 \in BoxTables /\ Same(online, box2, rows2, twins', unheard')
      /\ q \notin online \/ <<q, "in", New(p).time>> \in unheard' =>
            Same(online, box1, rows2, twins', unheard')
  BY <1>2, <1>4, <1>5, <1>7, Posted
<1> HIDE DEF rows2, box2
<1>9. box' \in BoxTables /\ boxrows' \in BoxTables /\ Same(online, box', boxrows', twins', unheard')
  BY <1>2, <1>3, <1>5, <1>8
<1>10. QED
  BY <1>1, <1>3, <1>9 DEF BoxesInv

\* What a gift does: to the rows, if no deletion waits for it, and to the session if
\* it is told.
LEMMA GiftCases ==
    ASSUME NEW g \in Gift, NEW q \in Player, SendGift(g, q) \/ Reward(g, q)
    PROVE  /\ UNCHANGED <<online, now, opened>> /\ g \notin sent /\ sent' = sent \cup {g}
           /\ twins \subseteq twins' /\ unheard \subseteq unheard'
           /\ \/ /\ boxrows' = Put(boxrows, q, "gift", New(g))
                 /\ Of(now, boxrows[q]["gift"]) # <<>> => <<q, "gift", now>> \in twins'
                 /\ \/ q \in online /\ box' = Put(box, q, "gift", New(g))
                    \/ box' = box /\ (q \notin online \/ <<q, "gift", now>> \in unheard')
              \/ UNCHANGED <<box, boxrows>> /\ <<q, "gift", now>> \in twins'
<1>1. /\ ReceiveGift(g, q) \/ StoreGiftbox(g, q)
      /\ UNCHANGED <<online, now, opened>> /\ g \notin sent /\ sent' = sent \cup {g}
  BY DEF SendGift, Reward
<1>2. CASE ReceiveGift(g, q)
  BY <1>1, <1>2 DEF ReceiveGift, Twin
<1>3. CASE StoreGiftbox(g, q) /\ Doomed(q, "gift")
  BY <1>1, <1>3 DEF StoreGiftbox, PutAtOnce, Unheard
<1>4. CASE StoreGiftbox(g, q) /\ ~Doomed(q, "gift")
  BY <1>1, <1>4 DEF StoreGiftbox, PutAtOnce, Unheard, Twin
<1>5. QED
  BY <1>1, <1>2, <1>3, <1>4

LEMMA GiftKeepsBoxes ==
    ASSUME BoxesInv, NEW g \in Gift, NEW q \in Player, SendGift(g, q) \/ Reward(g, q)
    PROVE  BoxesInv'
<1>1. /\ box \in BoxTables /\ boxrows \in BoxTables /\ now \in Nat
      /\ Same(online, box, boxrows, twins, unheard) /\ online \subseteq Player
  BY DEF BoxesInv
<1>2. /\ UNCHANGED <<online, now>> /\ twins \subseteq twins' /\ unheard \subseteq unheard'
      /\ \/ /\ boxrows' = Put(boxrows, q, "gift", New(g))
            /\ Of(now, boxrows[q]["gift"]) # <<>> => <<q, "gift", now>> \in twins'
            /\ \/ box' = Put(box, q, "gift", New(g))
               \/ box' = box /\ (q \notin online \/ <<q, "gift", now>> \in unheard')
         \/ UNCHANGED <<box, boxrows>>
  BY GiftCases
<1>3. New(g) \in Mail /\ New(g).time = now /\ "gift" \in Boxes
  BY <1>1, NewIsMail DEF Boxes
<1>4. CASE UNCHANGED <<box, boxrows>>
  <2>1. Same(online, box, boxrows, twins', unheard')
    BY <1>1, <1>2 DEF Same, Alike
  <2>2. QED
    BY <1>1, <1>2, <1>4, <2>1 DEF BoxesInv
<1>5. CASE /\ boxrows' = Put(boxrows, q, "gift", New(g))
           /\ Of(now, boxrows[q]["gift"]) # <<>> => <<q, "gift", now>> \in twins'
           /\ \/ box' = Put(box, q, "gift", New(g))
              \/ box' = box /\ (q \notin online \/ <<q, "gift", now>> \in unheard')
  <2>1. /\ twins \subseteq twins' /\ unheard \subseteq unheard'
        /\ Of(New(g).time, boxrows[q]["gift"]) # <<>> => <<q, "gift", New(g).time>> \in twins'
    BY <1>2, <1>3, <1>5
  <2>2. /\ Put(boxrows, q, "gift", New(g)) \in BoxTables /\ Put(box, q, "gift", New(g)) \in BoxTables
        /\ Same(online, Put(box, q, "gift", New(g)), Put(boxrows, q, "gift", New(g)), twins', unheard')
        /\ q \notin online \/ <<q, "gift", New(g).time>> \in unheard' =>
              Same(online, box, Put(boxrows, q, "gift", New(g)), twins', unheard')
    BY <1>1, <1>3, <2>1, Posted
  <2>3. box' \in BoxTables /\ boxrows' \in BoxTables /\ Same(online, box', boxrows', twins', unheard')
    BY <1>1, <1>3, <1>5, <2>2
  <2>4. QED
    BY <1>1, <1>2, <2>3 DEF BoxesInv
<1>6. QED
  BY <1>2, <1>4, <1>5

LEMMA LeastNatural ==
    ASSUME NEW T \in SUBSET Nat, T # {}
    PROVE  \E x \in T : \A y \in T : x <= y
<1>1. \A m, n \in Nat : m < n => <<m, n>> \in OpToRel(<, Nat)
  BY DEF OpToRel
<1>2. PICK R : IsWellFoundedOn(R, Nat) /\ \A m, n \in Nat : m < n => <<m, n>> \in R
  BY <1>1, NatLessThanWellFounded
<1>3. T \subseteq Nat /\ T # {} /\ IsWellFoundedOn(R, Nat)
  BY <1>2
<1>4. PICK x \in T : \A y \in T : ~ (<<y, x>> \in R)
  BY ONLY <1>3, WFMin
<1>5. ASSUME NEW y \in T PROVE x <= y
  <2>1. x \in Nat /\ y \in Nat /\ ~ (<<y, x>> \in R)
    BY <1>4
  <2>2. ~ (y < x)
    BY <1>2, <2>1
  <2>3. QED
    BY <2>1, <2>2
<1>6. QED
  BY <1>4, <1>5

\* What deleteSentMailbox and deleteReceivedMailbox leave out.
LEMMA FirstDeletedFacts ==
    ASSUME NEW es \in Seq(Mail), NEW t, Of(t, es) # <<>>
    PROVE  \E keep \in SUBSET DOMAIN es :
              /\ FirstDeleted(es, t) = Picked(es, keep)
              /\ \A i \in DOMAIN es \ keep : i \in Dated(t, es)
              /\ Once(t, es) => keep \cap Dated(t, es) = {}
<1> DEFINE first == CHOOSE i \in Dated(t, es) : \A j \in Dated(t, es) : i <= j
           keep == DOMAIN es \ {first}
<1>1. Dated(t, es) \in SUBSET Nat /\ Dated(t, es) # {}
  <2>1. At(t, es) # {}
    BY OfFacts
  <2>2. QED
    BY <2>1 DEF At, Dated
<1>2. \E i \in Dated(t, es) : \A j \in Dated(t, es) : i <= j
  BY <1>1, LeastNatural
<1>3. first \in Dated(t, es)
  BY <1>2
<1>4. FirstDeleted(es, t) = Picked(es, keep)
  BY DEF FirstDeleted
<1> HIDE DEF first
<1>5. /\ keep \in SUBSET DOMAIN es
      /\ \A i \in DOMAIN es \ keep : i \in Dated(t, es)
      /\ Once(t, es) => keep \cap Dated(t, es) = {}
  BY <1>3 DEF Once
<1>6. QED
  BY <1>4, <1>5

LEMMA DeleteMailKeepsBoxes ==
    ASSUME BoxesInv, NEW p \in Player, NEW t \in Nat, NEW b \in {"in", "out"}, DeleteMail(p, b, t)
    PROVE  BoxesInv'
<1>1. /\ box \in BoxTables /\ boxrows \in BoxTables /\ now \in Nat
      /\ Same(online, box, boxrows, twins, unheard) /\ online \subseteq Player
  BY DEF BoxesInv
<1>2. /\ p \in online /\ Of(t, box[p][b]) # <<>> /\ b \in Boxes
      /\ UNCHANGED <<online, now, twins, unheard>>
      /\ box' = Reboxed(box, p, b, FirstDeleted(box[p][b], t))
      /\ boxrows' = Reboxed(boxrows, p, b, Without(t, boxrows[p][b]))
  BY DEF DeleteMail, DeleteMailbox, Reboxed, Boxes
<1>3. box[p][b] \in Seq(Mail)
  BY <1>1, <1>2 DEF BoxTables
<1>4. PICK keep \in SUBSET DOMAIN box[p][b] :
         /\ FirstDeleted(box[p][b], t) = Picked(box[p][b], keep)
         /\ \A i \in DOMAIN box[p][b] \ keep : i \in Dated(t, box[p][b])
         /\ Once(t, box[p][b]) => keep \cap Dated(t, box[p][b]) = {}
  BY <1>2, <1>3, FirstDeletedFacts
<1>5. /\ Picked(box[p][b], keep) \in Seq(Mail) /\ Without(t, boxrows[p][b]) \in Seq(Mail)
      /\ Same(online, Reboxed(box, p, b, Picked(box[p][b], keep)),
              Reboxed(boxrows, p, b, Without(t, boxrows[p][b])), twins, unheard)
  BY <1>1, <1>2, <1>4, TakenOut
<1>6. box' \in BoxTables /\ boxrows' \in BoxTables
  BY <1>1, <1>2, <1>4, <1>5, ReboxedFacts
<1>7. QED
  BY <1>1, <1>2, <1>4, <1>5, <1>6 DEF BoxesInv

LEMMA OpenGiftKeepsBoxes ==
    ASSUME BoxesInv, NEW p \in Player, NEW t \in Nat, OpenGift(p, t)
    PROVE  BoxesInv'
<1>1. /\ box \in BoxTables /\ boxrows \in BoxTables /\ now \in Nat
      /\ Same(online, box, boxrows, twins, unheard) /\ online \subseteq Player
  BY DEF BoxesInv
<1> DEFINE es == box[p]["gift"]
           fs == boxrows[p]["gift"]
           keep == DOMAIN es \ Dated(t, es)
<1>2. /\ p \in online /\ "gift" \in Boxes
      /\ UNCHANGED <<online, now, twins, unheard>>
      /\ box' = Reboxed(box, p, "gift", Without(t, es))
      /\ boxrows' = Reboxed(boxrows, p, "gift", Without(t, fs))
  BY DEF OpenGift, DeleteReceivedGiftbox, GiftsDeleted, Reboxed, Boxes
<1>3. Without(t, es) = Picked(es, keep)
  BY DEF Without
<1>4. /\ keep \in SUBSET DOMAIN es /\ \A i \in DOMAIN es \ keep : i \in Dated(t, es)
      /\ keep \cap Dated(t, es) = {}
  OBVIOUS
<1> HIDE DEF keep
<1>5. /\ Picked(es, keep) \in Seq(Mail) /\ Without(t, fs) \in Seq(Mail)
      /\ Same(online, Reboxed(box, p, "gift", Picked(es, keep)),
              Reboxed(boxrows, p, "gift", Without(t, fs)), twins, unheard)
  BY <1>1, <1>2, <1>4, TakenOut
<1>6. box' \in BoxTables /\ boxrows' \in BoxTables
  BY <1>1, <1>2, <1>3, <1>5, ReboxedFacts
<1>7. QED
  BY <1>1, <1>2, <1>3, <1>5, <1>6 DEF BoxesInv

LEMMA BoxesStep == BoxesInv /\ [Next]_vars => BoxesInv'
<1>1. SUFFICES ASSUME BoxesInv, [Next]_vars PROVE BoxesInv'
  OBVIOUS
<1>2. CASE Tick
  <2>1. UNCHANGED <<online, box, boxrows, twins, unheard>> /\ now' \in Nat
    BY <1>1, <1>2 DEF Tick, boxes, BoxesInv
  <2>2. QED
    BY <1>1, <2>1, BoxesStay
<1>3. CASE UNCHANGED vars
  BY <1>1, <1>3, BoxesStay DEF vars, boxes, BoxesInv
<1>4. ASSUME NEW p \in Player, Login(p) \/ Logout(p) \/ Persist(p) \/ ShowRequests(p)
      PROVE  BoxesInv'
  <2>1. CASE ShowRequests(p) \/ Persist(p)
    BY <1>1, <2>1, BoxesStay DEF ShowRequests, Persist, boxes, BoxesInv
  <2>2. QED
    BY <1>1, <1>4, <2>1, LoginKeepsBoxes, LogoutKeepsBoxes
<1>5. ASSUME NEW p \in Player, NEW q \in Player,
             \/ Request(p, q) \/ RequestOffline(p, q) \/ Accept(p, q) \/ Unfriend(p, q)
             \/ Block(p, q) \/ BlockOffline(p, q) \/ Unblock(p, q)
      PROVE  BoxesInv'
  <2>1. UNCHANGED <<online, box, boxrows, twins, unheard, now>>
    BY <1>5 DEF Request, RequestOffline, Accept, Unfriend, Block, BlockOffline, Unblock, boxes
  <2>2. QED
    BY <1>1, <2>1, BoxesStay DEF BoxesInv
<1>6. ASSUME NEW p \in Player, NEW q \in Player, SendMail(p, q) \/ SendOfflineMail(p, q)
      PROVE  BoxesInv'
  BY <1>1, <1>6, MailedKeepsBoxes
<1>7. ASSUME NEW p \in Player, NEW t \in 1 .. MaxTime,
             OpenGift(p, t) \/ \E b \in {"in", "out"} : DeleteMail(p, b, t)
      PROVE  BoxesInv'
  BY <1>1, <1>7, OpenGiftKeepsBoxes, DeleteMailKeepsBoxes
<1>8. ASSUME NEW g \in Gift, NEW q \in Player, SendGift(g, q) \/ Reward(g, q)
      PROVE  BoxesInv'
  BY <1>1, <1>8, GiftKeepsBoxes
<1>9. QED
  BY <1>1, <1>2, <1>3, <1>4, <1>5, <1>6, <1>7, <1>8 DEF Next

LEMMA BoxesAgreeFollows == BoxesInv => BoxesAgree
<1>1. SUFFICES ASSUME BoxesInv, NEW p \in online, NEW b \in Boxes, NEW t \in 1 .. MaxTime,
                      <<p, b, t>> \notin twins \cup unheard
               PROVE  Of(t, box[p][b]) = Of(t, boxrows[p][b])
  BY DEF BoxesAgree
<1>2. /\ p \in Player /\ t \in Nat /\ box[p][b] \in Seq(Mail) /\ boxrows[p][b] \in Seq(Mail)
  BY <1>1 DEF BoxesInv, BoxTables
<1>3. /\ Once(t, boxrows[p][b]) /\ Once(t, box[p][b])
      /\ At(t, box[p][b]) = At(t, boxrows[p][b])
  BY <1>1, <1>2 DEF BoxesInv, Same, Alike
<1>4. QED
  BY <1>2, <1>3, SameOf

\* A session's mails and gifts are those of the tables, but for those of one
\* second that a box got two of, or that the session was not told of (BoxesAgree).
THEOREM BoxesAlwaysAgree == Spec => []BoxesAgree
BY BoxesInit, BoxesStep, BoxesAgreeFollows, PTL DEF Spec

-----------------------------------------------------------------------------
(* Gifts.                                                                  *)
(*                                                                         *)
(* G stands for the gifts of the tables: no two entries are of the same    *)
(* gift, none is of an opened one, and a gift that no entry is of has gone *)
(* with another of the same second.                                        *)

GiftLists == [Player -> Seq(Mail)]
Gifts(rows) == [p \in Player |-> rows[p]["gift"]]
Has(G, p, g) == \E i \in DOMAIN G[p] : G[p][i].with = g

Safe(G, se, op, tw) ==
    /\ op \subseteq se
    /\ \A p, q \in Player : \A i \in DOMAIN G[p], j \in DOMAIN G[q] :
          G[p][i].with = G[q][j].with => p = q /\ i = j
    /\ \A p \in Player : \A i \in DOMAIN G[p] : G[p][i].with \in se /\ G[p][i].with \notin op
    /\ \A g \in se \ op : (\E p \in Player : Has(G, p, g)) \/ \E w \in tw : w[2] = "gift"

LEMMA GiftStays ==
    ASSUME NEW G, NEW se, NEW op, NEW tw, Safe(G, se, op, tw), NEW tw2, tw \subseteq tw2
    PROVE  Safe(G, se, op, tw2)
BY DEF Safe

\* A gift that has not been sent goes to q.
LEMMA GiftGiven ==
    ASSUME NEW G \in GiftLists, NEW se, NEW op, NEW tw, Safe(G, se, op, tw),
           NEW q \in Player, NEW e \in Mail, e.with \notin se, NEW tw2, tw \subseteq tw2,
           NEW H \in GiftLists,
           \A p \in Player : H[p] = IF p = q THEN Append(G[p], e) ELSE G[p]
    PROVE  Safe(H, se \cup {e.with}, op, tw2)
<1>1. G[q] \in Seq(Mail)
  BY DEF GiftLists
<1> DEFINE n == Len(G[q]) + 1
<1>2. /\ DOMAIN H[q] = DOMAIN G[q] \cup {n} /\ n \notin DOMAIN G[q] /\ H[q][n] = e
      /\ \A i \in DOMAIN G[q] : H[q][i] = G[q][i]
  <2>1. H[q] = Append(G[q], e)
    OBVIOUS
  <2>2. QED
    BY <1>1, <2>1
<1>3. \A p \in Player : p # q => H[p] = G[p]
  OBVIOUS
<1> HIDE DEF n
<1>4. \A p \in Player : \A i \in DOMAIN H[p] :
         \/ p = q /\ i = n /\ H[p][i].with = e.with
         \/ i \in DOMAIN G[p] /\ H[p][i] = G[p][i] /\ G[p][i].with \in se
  BY <1>2, <1>3 DEF Safe
<1>5. \A p, r \in Player : \A i \in DOMAIN H[p], j \in DOMAIN H[r] :
         H[p][i].with = H[r][j].with => p = r /\ i = j
  BY <1>4 DEF Safe
<1>6. \A p \in Player : \A i \in DOMAIN H[p] :
         H[p][i].with \in se \cup {e.with} /\ H[p][i].with \notin op
  BY <1>4 DEF Safe
<1>7. \A p \in Player : \A g : Has(G, p, g) => Has(H, p, g)
  BY <1>2, <1>3 DEF Has
<1>8. Has(H, q, e.with)
  BY <1>2 DEF Has
<1>9. op \subseteq se /\ \A g \in se \ op : (\E p \in Player : Has(G, p, g)) \/ \E w \in tw : w[2] = "gift"
  BY DEF Safe
<1>10. \A g \in (se \cup {e.with}) \ op : (\E p \in Player : Has(H, p, g)) \/ \E w \in tw2 : w[2] = "gift"
  BY <1>7, <1>8, <1>9
<1>11. QED
  BY <1>5, <1>6, <1>9, <1>10 DEF Safe

\* A gift that has not been sent goes with others of its second.
LEMMA GiftLost ==
    ASSUME NEW G, NEW se, NEW op, NEW tw, Safe(G, se, op, tw), NEW g, g \notin se,
           NEW tw2, \E w \in tw2 : w[2] = "gift"
    PROVE  Safe(G, se \cup {g}, op, tw2)
BY DEF Safe

\* The gifts of p of one second go, and one of them is opened.
LEMMA GiftTaken ==
    ASSUME NEW G \in GiftLists, NEW se, NEW op, NEW tw, Safe(G, se, op, tw),
           NEW p \in Player, NEW t, NEW m, m \in At(t, G[p]),
           ~Once(t, G[p]) => \E w \in tw : w[2] = "gift",
           NEW H \in GiftLists,
           \A q \in Player : H[q] = IF q = p THEN Without(t, G[q]) ELSE G[q]
    PROVE  Safe(H, se, op \cup {m.with}, tw)
<1> DEFINE es == G[p]
           x == m.with
           kept == DOMAIN es \ Dated(t, es)
<1>1. es \in Seq(Mail)
  BY DEF GiftLists
<1>3. PICK first \in Dated(t, es) : es[first].with = x
  BY DEF At
<1>4. /\ DOMAIN Picked(es, kept) = 1 .. Cardinality(kept)
      /\ \E f : Places(es, kept, f)
  BY <1>1, PickedFacts
<1>5. PICK f : Places(es, kept, f)
  BY <1>4
<1>6. H[p] = Picked(es, kept)
  BY DEF Without
<1>7. /\ \A k \in DOMAIN H[p] : f[k] \in DOMAIN es /\ f[k] \notin Dated(t, es) /\ H[p][k] = es[f[k]]
      /\ \A k, l \in DOMAIN H[p] : f[k] = f[l] => k = l
      /\ \A i \in DOMAIN es : i \notin Dated(t, es) => \E k \in DOMAIN H[p] : f[k] = i
  BY <1>4, <1>5, <1>6 DEF Places
<1>8. first \in DOMAIN es
  BY DEF Dated
<1>9. \A q \in Player : q # p => H[q] = G[q]
  OBVIOUS
<1> HIDE DEF x, kept
<1>10. \A q, r \in Player : \A i \in DOMAIN H[q], j \in DOMAIN H[r] :
          H[q][i].with = H[r][j].with => q = r /\ i = j
  BY <1>7, <1>9 DEF Safe
<1>11. \A q \in Player : \A i \in DOMAIN H[q] : H[q][i].with \in se /\ H[q][i].with \notin op \cup {x}
  <2>1. TAKE q \in Player
  <2>2. CASE q = p
    BY <1>3, <1>7, <1>8, <2>2 DEF Safe
  <2>3. CASE q # p
    BY <1>3, <1>8, <1>9, <2>3 DEF Safe
  <2>4. QED
    BY <2>2, <2>3
<1>12. x \in se
  BY <1>3, <1>8 DEF Safe
<1>13. ASSUME NEW g \in se \ (op \cup {x}), ~ \E w \in tw : w[2] = "gift"
       PROVE  \E q \in Player : Has(H, q, g)
  <2>1. PICK q \in Player : Has(G, q, g)
    BY <1>13 DEF Safe
  <2>2. CASE q # p
    BY <1>9, <2>1, <2>2 DEF Has
  <2>3. CASE q = p
    <3>1. PICK i \in DOMAIN es : es[i].with = g
      BY <2>1, <2>3 DEF Has
    <3>2. i \notin Dated(t, es)
      BY <1>3, <1>13, <3>1 DEF Once
    <3>3. QED
      BY <1>7, <3>1, <3>2 DEF Has
  <2>4. QED
    BY <2>2, <2>3
<1>14. op \cup {x} \subseteq se
  BY <1>12 DEF Safe
<1>15. Safe(H, se, op \cup {x}, tw)
  BY <1>10, <1>11, <1>13, <1>14 DEF Safe
<1>16. QED
  BY <1>15 DEF x

-----------------------------------------------------------------------------
(* The invariant of the gifts. *)

GiftsInv ==
    /\ Safe(Gifts(boxrows), sent, opened, twins)
    /\ \A p \in online : Range(box[p]["gift"]) \subseteq Range(boxrows[p]["gift"])

LEMMA GiftsTyped ==
    ASSUME NEW rows \in BoxTables
    PROVE  Gifts(rows) \in GiftLists /\ \A p \in Player : Gifts(rows)[p] = rows[p]["gift"]
BY DEF BoxTables, Gifts, GiftLists, Boxes

LEMMA GiftsInit == Init => GiftsInv
<1>1. SUFFICES ASSUME Init PROVE GiftsInv
  OBVIOUS
<1>2. \A p \in Player : DOMAIN Gifts(boxrows)[p] = {}
  BY <1>1 DEF Init, Gifts, NoMail, Boxes
<1>3. Safe(Gifts(boxrows), sent, opened, twins)
  BY <1>1, <1>2 DEF Safe, Init
<1>4. QED
  BY <1>1, <1>3 DEF Init, GiftsInv

\* A step that leaves the gifts in the tables alone, and gives a session no other.
LEMMA GiftsStay ==
    ASSUME BoxesInv, BoxesInv', GiftsInv, UNCHANGED <<sent, opened>>, twins \subseteq twins',
           \A p \in Player : boxrows'[p]["gift"] = boxrows[p]["gift"],
           \A p \in online' : \/ p \in online /\ box'[p]["gift"] = box[p]["gift"]
                              \/ box'[p]["gift"] = boxrows'[p]["gift"]
    PROVE  GiftsInv'
<1>1. Gifts(boxrows') = Gifts(boxrows)
  BY DEF Gifts
<1>2. Safe(Gifts(boxrows), sent, opened, twins')
  BY GiftStays DEF GiftsInv
<1>3. online' \subseteq Player
  BY DEF BoxesInv
<1>4. \A p \in online' : Range(box'[p]["gift"]) \subseteq Range(boxrows'[p]["gift"])
  BY <1>3 DEF GiftsInv
<1>5. QED
  BY <1>1, <1>2, <1>4 DEF GiftsInv

LEMMA MailsKeepGifts ==
    ASSUME BoxesInv, BoxesInv', GiftsInv, NEW p \in Player, NEW q \in Player,
           SendMail(p, q) \/ SendOfflineMail(p, q)
    PROVE  GiftsInv'
<1>1. box \in BoxTables /\ boxrows \in BoxTables /\ p \in Player /\ now \in Nat /\ "gift" \in Boxes
      /\ "out" \in Boxes /\ "in" \in Boxes
  BY DEF BoxesInv, Boxes
<1>2. New(q) \in Mail /\ New(p) \in Mail
  BY <1>1, NewIsMail
<1>3. ASSUME NEW bs \in BoxTables
      PROVE  /\ \A a \in Player : Kept(bs, p, q)[a]["gift"] = bs[a]["gift"]
             /\ \A a \in Player : Put(Kept(bs, p, q), q, "in", New(p))[a]["gift"] = bs[a]["gift"]
  <2> DEFINE one == Put(bs, p, "out", New(q))
  <2>1. one \in BoxTables
    <3>1. bs \in [Player -> [Boxes -> Seq(Mail)]] /\ bs[p]["out"] \in Seq(Mail)
      BY <1>1, <1>3 DEF BoxTables
    <3>2. Append(bs[p]["out"], New(q)) \in Seq(Mail)
      BY <1>2, <3>1
    <3>3. QED
      BY <1>1, <3>1, <3>2 DEF Put, BoxTables
  <2>2. \A a \in Player : one[a]["gift"] = bs[a]["gift"]
    BY <1>1, PutElsewhere
  <2> HIDE DEF one
  <2>3. \A a \in Player : Put(one, q, "in", New(p))[a]["gift"] = one[a]["gift"]
    BY <1>1, <2>1, PutElsewhere
  <2>4. QED
    BY <2>2, <2>3 DEF one, Kept
<1>4. /\ boxrows' = Put(Kept(boxrows, p, q), q, "in", New(p)) \/ boxrows' = Kept(boxrows, p, q)
      /\ box' = Put(Kept(box, p, q), q, "in", New(p)) \/ box' = Kept(box, p, q)
      /\ twins \subseteq twins' /\ UNCHANGED <<online, sent, opened>>
  BY MailCases
<1>5. \A a \in Player : boxrows'[a]["gift"] = boxrows[a]["gift"] /\ box'[a]["gift"] = box[a]["gift"]
  BY <1>1, <1>3, <1>4
<1>6. online' \subseteq Player
  BY DEF BoxesInv
<1>7. QED
  BY <1>4, <1>5, <1>6, GiftsStay

LEMMA SendingKeepsGifts ==
    ASSUME BoxesInv, BoxesInv', GiftsInv, NEW g \in Gift, NEW q \in Player,
           SendGift(g, q) \/ Reward(g, q)
    PROVE  GiftsInv'
<1>1. /\ box \in BoxTables /\ boxrows \in BoxTables /\ boxrows' \in BoxTables
      /\ now \in Nat /\ online \subseteq Player /\ "gift" \in Boxes
      /\ Safe(Gifts(boxrows), sent, opened, twins)
      /\ \A a \in online : Range(box[a]["gift"]) \subseteq Range(boxrows[a]["gift"])
  BY DEF BoxesInv, Boxes, GiftsInv
<1>2. /\ UNCHANGED <<online, opened>>
      /\ g \notin sent /\ sent' = sent \cup {g} /\ twins \subseteq twins'
      /\ \/ /\ boxrows' = Put(boxrows, q, "gift", New(g))
            /\ box' = Put(box, q, "gift", New(g)) \/ box' = box
         \/ UNCHANGED <<box, boxrows>> /\ <<q, "gift", now>> \in twins'
  BY GiftCases
<1>3. New(g) \in Mail /\ New(g).with = g
  BY <1>1, NewIsMail
<1>4. ASSUME NEW bs \in BoxTables
      PROVE  \A a \in Player : Put(bs, q, "gift", New(g))[a]["gift"]
                = IF a = q THEN Append(bs[a]["gift"], New(g)) ELSE bs[a]["gift"]
  <2>1. bs \in [Player -> [Boxes -> Seq(Mail)]]
    BY <1>4 DEF BoxTables
  <2>2. QED
    BY <1>1, <2>1 DEF Put
<1>5. /\ Gifts(boxrows) \in GiftLists /\ Gifts(boxrows') \in GiftLists
      /\ \A a \in Player : /\ Gifts(boxrows)[a] = boxrows[a]["gift"]
                           /\ Gifts(boxrows')[a] = boxrows'[a]["gift"]
  BY <1>1, GiftsTyped
<1>6. CASE UNCHANGED <<box, boxrows>> /\ <<q, "gift", now>> \in twins'
  <2>1. \E w \in twins' : w[2] = "gift"
    <3>1. <<q, "gift", now>>[2] = "gift"
      OBVIOUS
    <3>2. QED
      BY <1>6, <3>1
  <2>2. Safe(Gifts(boxrows), sent \cup {g}, opened, twins')
    BY <1>1, <1>2, <2>1, GiftLost
  <2>3. Gifts(boxrows') = Gifts(boxrows)
    BY <1>6 DEF Gifts
  <2>4. QED
    BY <1>1, <1>2, <1>6, <2>2, <2>3 DEF GiftsInv
<1>7. CASE /\ boxrows' = Put(boxrows, q, "gift", New(g))
           /\ box' = Put(box, q, "gift", New(g)) \/ box' = box
  <2> DEFINE G == Gifts(boxrows)
             H == Gifts(boxrows')
             e == New(g)
  <2>1. \A a \in Player : H[a] = IF a = q THEN Append(G[a], e) ELSE G[a]
    BY <1>1, <1>4, <1>5, <1>7
  <2>2. /\ G \in GiftLists /\ H \in GiftLists /\ e \in Mail /\ e.with \notin sent
        /\ Safe(G, sent, opened, twins) /\ twins \subseteq twins'
    BY <1>1, <1>2, <1>3, <1>5
  <2> HIDE DEF G, H, e
  <2>3. Safe(H, sent \cup {e.with}, opened, twins')
    BY <2>1, <2>2, GiftGiven
  <2>4. Safe(Gifts(boxrows'), sent', opened', twins')
    BY <1>2, <1>3, <2>3 DEF H, e
  <2>5. ASSUME NEW a \in online
        PROVE  Range(box'[a]["gift"]) \subseteq Range(boxrows'[a]["gift"])
    <3>1. /\ box[a]["gift"] \in Seq(Mail) /\ boxrows[a]["gift"] \in Seq(Mail) /\ a \in Player
          /\ Range(box[a]["gift"]) \subseteq Range(boxrows[a]["gift"])
      BY <1>1, <2>5 DEF BoxTables
    <3>2. /\ Range(Append(box[a]["gift"], New(g))) = Range(box[a]["gift"]) \cup {New(g)}
          /\ Range(Append(boxrows[a]["gift"], New(g))) = Range(boxrows[a]["gift"]) \cup {New(g)}
      BY <1>3, <3>1, AppendRange
    <3>3. /\ boxrows'[a]["gift"] = IF a = q THEN Append(boxrows[a]["gift"], New(g)) ELSE boxrows[a]["gift"]
          /\ \/ box'[a]["gift"] = IF a = q THEN Append(box[a]["gift"], New(g)) ELSE box[a]["gift"]
             \/ box'[a]["gift"] = box[a]["gift"]
      BY <1>1, <1>4, <1>7, <3>1
    <3>4. QED
      BY <3>1, <3>2, <3>3
  <2>6. QED
    BY <1>2, <2>4, <2>5 DEF GiftsInv
<1>8. QED
  BY <1>2, <1>6, <1>7

LEMMA OpeningKeepsGifts ==
    ASSUME BoxesInv, BoxesInv', GiftsInv, NEW p \in Player, NEW t \in Nat, OpenGift(p, t)
    PROVE  GiftsInv'
<1>1. /\ box \in BoxTables /\ boxrows \in BoxTables /\ boxrows' \in BoxTables
      /\ Same(online, box, boxrows, twins, unheard) /\ online \subseteq Player /\ "gift" \in Boxes
      /\ Safe(Gifts(boxrows), sent, opened, twins)
      /\ \A a \in online : Range(box[a]["gift"]) \subseteq Range(boxrows[a]["gift"])
  BY DEF BoxesInv, Boxes, GiftsInv
<1>2. /\ p \in online /\ UNCHANGED <<online, sent, twins>>
      /\ Of(t, box[p]["gift"]) # <<>>
      /\ opened' = opened \cup {Head(Of(t, box[p]["gift"])).with}
      /\ box' = [box EXCEPT ![p]["gift"] = Without(t, @)]
      /\ boxrows' = [boxrows EXCEPT ![p]["gift"] = Without(t, @)]
  BY DEF OpenGift, DeleteReceivedGiftbox, GiftsDeleted, GiftOf
<1>3. /\ box \in [Player -> [Boxes -> Seq(Mail)]] /\ boxrows \in [Player -> [Boxes -> Seq(Mail)]]
  BY <1>1 DEF BoxTables
<1>4. \A a \in Player : box'[a]["gift"] = IF a = p THEN Without(t, box[a]["gift"]) ELSE box[a]["gift"]
  BY <1>1, <1>2, <1>3
<1>5. \A a \in Player : boxrows'[a]["gift"]
         = IF a = p THEN Without(t, boxrows[a]["gift"]) ELSE boxrows[a]["gift"]
  BY <1>1, <1>2, <1>3
<1>6. /\ Gifts(boxrows) \in GiftLists /\ Gifts(boxrows') \in GiftLists
      /\ \A a \in Player : /\ Gifts(boxrows)[a] = boxrows[a]["gift"]
                           /\ Gifts(boxrows')[a] = boxrows'[a]["gift"]
  BY <1>1, GiftsTyped
<1>7. ~Once(t, boxrows[p]["gift"]) => \E w \in twins : w[2] = "gift"
  <2>1. <<p, "gift", t>> \in twins \/ Once(t, boxrows[p]["gift"])
    BY <1>1 DEF Same
  <2>2. <<p, "gift", t>>[2] = "gift"
    OBVIOUS
  <2>3. QED
    BY <2>1, <2>2
<1>8. PICK m : m = Head(Of(t, box[p]["gift"]))
  OBVIOUS
<1>9. m \in At(t, boxrows[p]["gift"])
  <2>1. box[p]["gift"] \in Seq(Mail)
    BY <1>1, <1>3
  <2>2. m \in At(t, box[p]["gift"])
    BY <1>2, <1>8, <2>1, OfFacts
  <2>3. m \in Range(box[p]["gift"]) /\ m.time = t
    BY <2>2, AtRange
  <2>4. m \in Range(boxrows[p]["gift"])
    BY <1>1, <1>2, <2>3
  <2>5. QED
    BY <2>3, <2>4, AtRange
<1>10. Safe(Gifts(boxrows'), sent, opened', twins)
  <2> DEFINE G == Gifts(boxrows)
             H == Gifts(boxrows')
  <2>1. /\ p \in Player /\ G \in GiftLists /\ H \in GiftLists /\ m \in At(t, G[p])
        /\ Safe(G, sent, opened, twins)
        /\ ~Once(t, G[p]) => \E w \in twins : w[2] = "gift"
        /\ \A a \in Player : H[a] = IF a = p THEN Without(t, G[a]) ELSE G[a]
    BY <1>1, <1>5, <1>6, <1>7, <1>9
  <2> HIDE DEF G, H
  <2>2. Safe(H, sent, opened \cup {m.with}, twins)
    BY ONLY <2>1, GiftTaken, ZenonT(40)
  <2>3. QED
    BY <1>2, <1>8, <2>2 DEF H
<1>11. ASSUME NEW a \in online
       PROVE  Range(box'[a]["gift"]) \subseteq Range(boxrows'[a]["gift"])
  <2>1. /\ box[a]["gift"] \in Seq(Mail) /\ boxrows[a]["gift"] \in Seq(Mail) /\ a \in Player
    BY <1>1, <1>3
  <2>2. /\ Range(Without(t, box[a]["gift"])) = {e \in Range(box[a]["gift"]) : e.time # t}
        /\ Range(Without(t, boxrows[a]["gift"])) = {e \in Range(boxrows[a]["gift"]) : e.time # t}
    BY <2>1, WithoutRange
  <2>3. QED
    BY <1>1, <1>4, <1>5, <2>1, <2>2
<1>12. QED
  BY <1>2, <1>10, <1>11 DEF GiftsInv

LEMMA GiftsStep == BoxesInv /\ BoxesInv' /\ GiftsInv /\ [Next]_vars => GiftsInv'
<1>1. SUFFICES ASSUME BoxesInv, BoxesInv', GiftsInv, [Next]_vars PROVE GiftsInv'
  OBVIOUS
<1>2. ASSUME UNCHANGED <<online, box, boxrows, twins, sent, opened>> PROVE GiftsInv'
  BY <1>1, <1>2, GiftsStay
<1>3. CASE Tick \/ UNCHANGED vars
  BY <1>2, <1>3 DEF Tick, vars, boxes
<1>4. ASSUME NEW p \in Player, Login(p) \/ Logout(p) \/ Persist(p) \/ ShowRequests(p)
      PROVE  GiftsInv'
  <2>0. box \in [Player -> [Boxes -> Seq(Mail)]] /\ online \subseteq Player /\ "gift" \in Boxes
    BY <1>1 DEF BoxesInv, BoxTables, Boxes
  <2>1. CASE ShowRequests(p) \/ Persist(p)
    BY <1>2, <2>1 DEF ShowRequests, Persist, boxes
  <2>2. CASE Login(p)
    <3>1. /\ online' = online \cup {p} /\ UNCHANGED <<boxrows, sent, opened, twins>>
          /\ box' = [box EXCEPT ![p] = [b \in Boxes |-> IF b = "gift" THEN LoadReceivedGiftboxes(p)
                                                        ELSE LoadMailboxes(p, b)]]
      BY <2>2 DEF Login
    <3>2. box'[p]["gift"] = boxrows[p]["gift"] /\ \A a \in Player : a # p => box'[a] = box[a]
      BY <2>0, <3>1 DEF LoadReceivedGiftboxes
    <3>3. QED
      BY <1>1, <2>0, <3>1, <3>2, GiftsStay
  <2>3. CASE Logout(p)
    <3>1. /\ online' = online \ {p} /\ UNCHANGED <<boxrows, sent, opened, twins>>
          /\ box' = [box EXCEPT ![p] = NoMail]
      BY <2>3 DEF Logout
    <3>2. \A a \in Player : a # p => box'[a] = box[a]
      BY <2>0, <3>1
    <3>3. QED
      BY <1>1, <2>0, <3>1, <3>2, GiftsStay
  <2>4. QED
    BY <1>4, <2>1, <2>2, <2>3
<1>5. ASSUME NEW p \in Player, NEW q \in Player,
             \/ Request(p, q) \/ RequestOffline(p, q) \/ Accept(p, q) \/ Unfriend(p, q)
             \/ Block(p, q) \/ BlockOffline(p, q) \/ Unblock(p, q)
      PROVE  GiftsInv'
  BY <1>2, <1>5 DEF Request, RequestOffline, Accept, Unfriend, Block, BlockOffline, Unblock, boxes
<1>6. ASSUME NEW p \in Player, NEW q \in Player, SendMail(p, q) \/ SendOfflineMail(p, q)
      PROVE  GiftsInv'
  BY <1>1, <1>6, MailsKeepGifts
<1>7. ASSUME NEW p \in Player, NEW t \in 1 .. MaxTime, NEW b \in {"in", "out"}, DeleteMail(p, b, t)
      PROVE  GiftsInv'
  <2>1. /\ UNCHANGED <<online, sent, opened, twins>>
        /\ box' = [box EXCEPT ![p][b] = FirstDeleted(@, t)]
        /\ boxrows' = [boxrows EXCEPT ![p][b] = Without(t, @)]
    BY <1>7 DEF DeleteMail, DeleteMailbox
  <2>2. /\ box \in [Player -> [Boxes -> Seq(Mail)]] /\ boxrows \in [Player -> [Boxes -> Seq(Mail)]]
        /\ "gift" \in Boxes /\ b # "gift" /\ online \subseteq Player
    BY <1>1 DEF BoxesInv, BoxTables, Boxes
  <2>3. \A a \in Player : boxrows'[a]["gift"] = boxrows[a]["gift"] /\ box'[a]["gift"] = box[a]["gift"]
    BY <2>1, <2>2
  <2>4. QED
    BY <1>1, <2>1, <2>2, <2>3, GiftsStay
<1>8. ASSUME NEW p \in Player, NEW t \in 1 .. MaxTime, OpenGift(p, t)
      PROVE  GiftsInv'
  BY <1>1, <1>8, OpeningKeepsGifts
<1>9. ASSUME NEW g \in Gift, NEW q \in Player, SendGift(g, q) \/ Reward(g, q)
      PROVE  GiftsInv'
  BY <1>1, <1>9, SendingKeepsGifts
<1>10. QED
  BY <1>1, <1>3, <1>4, <1>5, <1>6, <1>7, <1>8, <1>9 DEF Next

LEMMA GiftsKeptFollows == BoxesInv /\ GiftsInv => GiftsKept
<1>1. SUFFICES ASSUME BoxesInv, GiftsInv, NEW g \in sent
               PROVE  LET holders == {p \in Player : \E e \in Range(boxrows[p]["gift"]) : e.with = g}
                      IN  /\ Cardinality(holders) <= (IF g \in opened THEN 0 ELSE 1)
                          /\ g \notin opened /\ holders = {} => \E w \in twins : w[2] = "gift"
  BY DEF GiftsKept
<1> DEFINE holders == {p \in Player : \E e \in Range(boxrows[p]["gift"]) : e.with = g}
           G == Gifts(boxrows)
<1>2. /\ \A p \in Player : G[p] = boxrows[p]["gift"]
      /\ Safe(G, sent, opened, twins)
  BY <1>1, GiftsTyped DEF GiftsInv, BoxesInv
<1> HIDE DEF G
<1>3. \A p \in Player : p \in holders <=> Has(G, p, g)
  BY <1>2 DEF Has, Range
<1>4. holders \subseteq Player
  OBVIOUS
<1> HIDE DEF holders
<1>5. \A p, q \in holders : p = q
  BY <1>2, <1>3, <1>4 DEF Safe, Has
<1>6. g \in opened => holders = {}
  BY <1>2, <1>3, <1>4 DEF Safe, Has
<1>7. g \notin opened /\ holders = {} => \E w \in twins : w[2] = "gift"
  BY <1>1, <1>2, <1>3 DEF Safe
<1>8. Cardinality(holders) = 0 \/ (Cardinality(holders) = 1 /\ holders # {})
  <2>1. CASE holders = {}
    BY <2>1, FS_EmptySet
  <2>2. CASE holders # {}
    <3>1. PICK p : holders = {p}
      BY <1>5, <2>2
    <3>2. Cardinality({p}) = 1
      BY FS_Singleton
    <3>3. QED
      BY <2>2, <3>1, <3>2
  <2>3. QED
    BY <2>1, <2>2
<1>9. Cardinality(holders) <= (IF g \in opened THEN 0 ELSE 1)
  <2>1. CASE g \in opened
    BY <1>6, <2>1, FS_EmptySet
  <2>2. CASE g \notin opened
    BY <1>8, <2>2
  <2>3. QED
    BY <2>1, <2>2
<1>10. QED
  BY <1>7, <1>9 DEF holders

\* A gift is opened at most once, two players never have the same, and one that is
\* lost was lost to another of the same second (GiftsKept).
THEOREM GiftsAlwaysKept == Spec => []GiftsKept
<1>1. BoxesInv /\ BoxesInv' /\ GiftsInv /\ [Next]_vars => GiftsInv'
  BY GiftsStep
<1>2. Spec => [](BoxesInv /\ GiftsInv)
  BY <1>1, BoxesInit, BoxesStep, GiftsInit, PTL DEF Spec
<1>3. QED
  BY <1>2, GiftsKeptFollows, PTL

-----------------------------------------------------------------------------
(* Who is kept out. *)

\* The blocks of an account that is not online are written.
BlocksWritten == \A p \in Player \ online : \A q \in Range(brows[p]) : <<p, q>> \in tabled

\* A step of somebody who is online and whose blocks alone change.
LEMMA OwnBlocks ==
    ASSUME ListsInv, BlocksWritten, UNCHANGED online, NEW p \in online,
           \A a \in Player : a # p => brows'[a] = brows[a],
           \A d \in tabled : d[1] # p => d \in tabled'
    PROVE  BlocksWritten'
<1>1. SUFFICES ASSUME NEW a \in Player \ online, NEW q \in Range(brows'[a])
               PROVE  <<a, q>> \in tabled'
  BY DEF BlocksWritten
<1>2. a # p /\ brows'[a] = brows[a] /\ <<a, q>>[1] = a
  OBVIOUS
<1>3. <<a, q>> \in tabled
  BY <1>2 DEF BlocksWritten
<1>4. QED
  BY <1>2, <1>3

LEMMA BlocksStep == ListsInv /\ BlocksWritten /\ [Next]_vars => BlocksWritten'
<1>1. SUFFICES ASSUME ListsInv, BlocksWritten, [Next]_vars PROVE BlocksWritten'
  OBVIOUS
<1>2. brows \in [Player -> Seq(Player)] /\ online \subseteq Player
  BY <1>1 DEF ListsInv, ListTables, Friendly
<1>3. UNCHANGED <<online, brows, tabled>> => BlocksWritten'
  BY <1>1 DEF BlocksWritten
<1>4. CASE Tick \/ UNCHANGED vars
  BY <1>3, <1>4 DEF Tick, vars, lists
<1>5. ASSUME NEW p \in Player, Login(p) \/ Logout(p) \/ Persist(p) \/ ShowRequests(p)
      PROVE  BlocksWritten'
  <2>1. CASE ShowRequests(p)
    BY <1>3, <2>1 DEF ShowRequests, lists
  <2>2. CASE Login(p)
    <3>1. online' = online \cup {p} /\ UNCHANGED <<brows, tabled>>
      BY <2>2 DEF Login
    <3>2. QED
      BY <1>1, <3>1 DEF BlocksWritten
  <2>3. CASE Persist(p)
    <3>1. /\ p \in online /\ UNCHANGED <<online, brows>>
          /\ tabled' = {b \in tabled : b[1] # p} \cup ({p} \X Range(brows[p]))
      BY <2>3 DEF Persist, Written
    <3>2. QED
      BY <1>1, <3>1, OwnBlocks
  <2>4. CASE Logout(p)
    <3>1. /\ online' = online \ {p} /\ UNCHANGED brows
          /\ tabled' = {b \in tabled : b[1] # p} \cup ({p} \X Range(brows[p]))
      BY <2>4 DEF Logout, Written
    <3>2. SUFFICES ASSUME NEW a \in Player \ online', NEW q \in Range(brows[a])
                   PROVE  <<a, q>> \in tabled'
      BY <3>1 DEF BlocksWritten
    <3>3. CASE a = p
      BY <3>1, <3>2, <3>3
    <3>4. CASE a # p
      <4>1. <<a, q>> \in tabled /\ <<a, q>>[1] = a
        BY <1>1, <3>1, <3>2, <3>4 DEF BlocksWritten
      <4>2. QED
        BY <3>1, <3>4, <4>1
    <3>5. QED
      BY <3>3, <3>4
  <2>5. QED
    BY <1>5, <2>1, <2>2, <2>3, <2>4
<1>6. ASSUME NEW p \in Player, NEW q \in Player,
             Request(p, q) \/ RequestOffline(p, q) \/ Accept(p, q) \/ Unfriend(p, q)
      PROVE  BlocksWritten'
  BY <1>3, <1>6 DEF Request, RequestOffline, Accept, Unfriend, lists
<1>7. ASSUME NEW p \in Player, NEW q \in Player, Block(p, q) \/ BlockOffline(p, q) \/ Unblock(p, q)
      PROVE  BlocksWritten'
  <2>1. p \in online /\ UNCHANGED online
    BY <1>7 DEF Block, BlockOffline, Unblock
  <2>2. tabled \subseteq tabled'
    BY <1>7 DEF Block, BlockOffline, Unblock
  <2>3. \A a \in Player : a # p => brows'[a] = brows[a]
    <3>1. CASE Block(p, q)
      BY <1>2, <3>1 DEF Block, BlockAccount, BlockPlayer, Row
    <3>2. CASE BlockOffline(p, q)
      BY <1>2, <3>2 DEF BlockOffline, BlockAccount, BlockPlayerByNickname, BlockPlayer, Row
    <3>3. CASE Unblock(p, q)
      BY <1>2, <3>3 DEF Unblock, UnblockPlayer, NoRow
    <3>4. QED
      BY <1>7, <3>1, <3>2, <3>3
  <2>4. QED
    BY <1>1, <2>1, <2>2, <2>3, OwnBlocks
<1>8. ASSUME NEW p \in Player, NEW q \in Player, SendMail(p, q) \/ SendOfflineMail(p, q)
      PROVE  BlocksWritten'
  BY <1>3, <1>8 DEF SendMail, SendOfflineMail, lists
<1>9. ASSUME NEW p \in Player, NEW t \in 1 .. MaxTime,
             OpenGift(p, t) \/ \E b \in {"in", "out"} : DeleteMail(p, b, t)
      PROVE  BlocksWritten'
  BY <1>3, <1>9 DEF OpenGift, DeleteMail, lists
<1>10. ASSUME NEW g \in Gift, NEW q \in Player, SendGift(g, q) \/ Reward(g, q)
       PROVE  BlocksWritten'
  BY <1>3, <1>10 DEF SendGift, Reward, lists
<1>11. QED
  BY <1>1, <1>4, <1>5, <1>6, <1>7, <1>8, <1>9, <1>10 DEF Next

LEMMA BlocksInit == Init => BlocksWritten
BY DEF Init, BlocksWritten, Range

\* What KeptOut says of a step.
Barred ==
    \A w \in wish :
       \/ <<w[1], "blocked">> \in cut
       \/ LET request == <<w[2], w[1]>>
              Mails(bs) == {m \in Range(bs[w[1]]["in"]) : m.with = w[2]}
          IN  /\ request \in asked' => request \in asked \cup pending
              /\ Mails(box') \subseteq Mails(box) \cup Mails(boxrows)
              /\ (w[1] \in online => w \in tabled) =>
                    /\ request \in pending' => request \in asked \cup pending
                    /\ Mails(boxrows') \subseteq Mails(boxrows)

\* Two parts of it: requests and mails.
NoRequest == asked' \cup pending' \subseteq asked \cup pending
NoMailIn == \A p \in Player :
    /\ Range(box'[p]["in"]) \subseteq Range(box[p]["in"]) \cup Range(boxrows[p]["in"])
    /\ Range(boxrows'[p]["in"]) \subseteq Range(boxrows[p]["in"])

\* A player whose list is loaded in whole has who should be kept out on it, and so
\* has the table when the player is not online.
LEMMA WhoIsListed ==
    ASSUME ListsInv, BlocksWritten, NEW w \in wish, <<w[1], "blocked">> \notin cut
    PROVE  /\ w[1] \in Player /\ w[2] \in Player /\ w = <<w[1], w[2]>>
           /\ w[1] \in online => w[2] \in Range(blocked[w[1]])
           /\ w[1] \notin online => w \in tabled
<1>1. Keeping(online, Listed(blocked), Listed(brows), wish, cut)
  BY DEF ListsInv
<1>2. w[1] \in Player /\ w[2] \in Player /\ w = <<w[1], w[2]>>
  BY <1>1 DEF Keeping
<1>3. Listed(brows)[w[1]] = Range(brows[w[1]]) /\ Listed(blocked)[w[1]] = Range(blocked[w[1]])
  BY <1>2 DEF Listed
<1> HIDE DEF Listed
<1>4. w[2] \in Listed(brows)[w[1]] /\ (w[1] \in online => w[2] \in Listed(blocked)[w[1]])
  BY <1>1 DEF Keeping
<1>5. w[1] \notin online => <<w[1], w[2]>> \in tabled
  BY <1>2, <1>3, <1>4 DEF BlocksWritten
<1>6. QED
  BY <1>2, <1>3, <1>4, <1>5

LEMMA NothingComesIn == ListsInv /\ NoRequest /\ NoMailIn => Barred
<1>1. SUFFICES ASSUME ListsInv, NoRequest, NoMailIn PROVE Barred
  OBVIOUS
<1>2. \A w \in wish : w[1] \in Player
  BY <1>1 DEF ListsInv, Keeping
<1>3. QED
  BY <1>1, <1>2 DEF NoRequest, NoMailIn, Barred

\* A friend request.
LEMMA RequestBarred ==
    ASSUME ListsInv, BlocksWritten, NEW p \in Player, NEW q \in Player,
           Request(p, q) \/ RequestOffline(p, q)
    PROVE  Barred
<1>1. /\ UNCHANGED <<box, boxrows>>
      /\ \/ /\ asked' = asked \cup {<<p, q>>} /\ pending' = pending
            /\ q \in online /\ p \notin Range(blocked[q])
         \/ asked' = asked /\ pending' = pending \cup {<<p, q>>} /\ <<q, p>> \notin tabled
  BY DEF Request, RequestOffline, AddPendingFriendRequest, HasBlocked, boxes
<1>2. ASSUME NEW w \in wish, <<w[1], "blocked">> \notin cut
      PROVE  /\ <<w[2], w[1]>> \in asked' => <<w[2], w[1]>> \in asked \cup pending
             /\ (w[1] \in online => w \in tabled) =>
                   (<<w[2], w[1]>> \in pending' => <<w[2], w[1]>> \in asked \cup pending)
  <2>1. /\ w = <<w[1], w[2]>>
        /\ w[1] \in online => w[2] \in Range(blocked[w[1]])
        /\ w[1] \notin online => w \in tabled
    BY <1>2, WhoIsListed
  <2>2. CASE <<w[2], w[1]>> # <<p, q>>
    BY <1>1, <2>2
  <2>3. CASE w[2] = p /\ w[1] = q
    <3>1. w = <<q, p>>
      BY <2>1, <2>3
    <3>2. QED
      BY <1>1, <2>1, <2>3, <3>1
  <2>4. <<w[2], w[1]>> # <<p, q>> \/ (w[2] = p /\ w[1] = q)
    OBVIOUS
  <2>5. QED
    BY <2>2, <2>3, <2>4
<1>3. QED
  BY <1>1, <1>2 DEF Barred

\* A mail.
LEMMA MailBarred ==
    ASSUME ListsInv, BoxesInv, BlocksWritten, NEW p \in Player, NEW q \in Player,
           SendMail(p, q) \/ SendOfflineMail(p, q)
    PROVE  Barred
<1>1. /\ box \in BoxTables /\ boxrows \in BoxTables /\ now \in Nat
      /\ "in" \in Boxes /\ "out" \in Boxes
  BY DEF BoxesInv, Boxes
<1>2. New(p) \in Mail /\ New(p).with = p /\ New(q) \in Mail
  BY <1>1, NewIsMail
<1>3. ASSUME NEW bs \in BoxTables
      PROVE  \A a \in Player :
                /\ Range(Kept(bs, p, q)[a]["in"]) = Range(bs[a]["in"])
                /\ Range(Put(Kept(bs, p, q), q, "in", New(p))[a]["in"])
                      = Range(bs[a]["in"]) \cup (IF a = q THEN {New(p)} ELSE {})
  <2> DEFINE one == Put(bs, p, "out", New(q))
  <2>1. bs \in [Player -> [Boxes -> Seq(Mail)]]
    BY <1>3 DEF BoxTables
  <2>2. one \in [Player -> [Boxes -> Seq(Mail)]] /\ \A a \in Player : one[a]["in"] = bs[a]["in"]
    <3>1. Append(bs[p]["out"], New(q)) \in Seq(Mail)
      BY <1>1, <1>2, <2>1
    <3>2. QED
      BY <1>1, <2>1, <3>1 DEF Put
  <2> HIDE DEF one
  <2>3. \A a \in Player : Put(one, q, "in", New(p))[a]["in"]
           = IF a = q THEN Append(bs[a]["in"], New(p)) ELSE bs[a]["in"]
    BY <1>1, <2>2 DEF Put
  <2>4. Range(Append(bs[q]["in"], New(p))) = Range(bs[q]["in"]) \cup {New(p)}
    BY <1>1, <1>2, <2>1, AppendRange
  <2>5. QED
    BY <2>2, <2>3, <2>4 DEF one, Kept
<1>4. UNCHANGED <<asked, pending>>
  BY MailCases
<1>5. CASE boxrows' = Kept(boxrows, p, q) /\ box' = Kept(box, p, q)
  BY <1>1, <1>3, <1>4, <1>5, NothingComesIn DEF NoRequest, NoMailIn
<1>6. ASSUME NEW w \in wish, <<w[1], "blocked">> \notin cut,
             \/ /\ boxrows' = Put(Kept(boxrows, p, q), q, "in", New(p))
                /\ box' = Put(Kept(box, p, q), q, "in", New(p))
                /\ q \in online /\ p \notin Range(blocked[q])
             \/ /\ boxrows' = Put(Kept(boxrows, p, q), q, "in", New(p)) /\ box' = Kept(box, p, q)
                /\ <<q, p>> \notin tabled,
             NEW m, m.with = w[2]
      PROVE  /\ m \in Range(box'[w[1]]["in"]) => m \in Range(box[w[1]]["in"])
             /\ (w[1] \in online => w \in tabled) =>
                   (m \in Range(boxrows'[w[1]]["in"]) => m \in Range(boxrows[w[1]]["in"]))
  <2>1. /\ w = <<w[1], w[2]>> /\ w[1] \in Player
        /\ w[1] \in online => w[2] \in Range(blocked[w[1]])
        /\ w[1] \notin online => w \in tabled
    BY <1>6, WhoIsListed
  <2>2. m # New(p) \/ w[2] = p
    BY <1>2, <1>6
  <2>3. CASE w[1] # q \/ w[2] # p
    <3>1. /\ Range(Kept(box, p, q)[w[1]]["in"]) = Range(box[w[1]]["in"])
          /\ Range(Put(Kept(box, p, q), q, "in", New(p))[w[1]]["in"])
                = Range(box[w[1]]["in"]) \cup (IF w[1] = q THEN {New(p)} ELSE {})
      BY <1>1, <1>3, <2>1
    <3>2. Range(Put(Kept(boxrows, p, q), q, "in", New(p))[w[1]]["in"])
             = Range(boxrows[w[1]]["in"]) \cup (IF w[1] = q THEN {New(p)} ELSE {})
      BY <1>1, <1>3, <2>1
    <3>3. m \notin (IF w[1] = q THEN {New(p)} ELSE {})
      BY <2>2, <2>3
    <3>4. m \in Range(box'[w[1]]["in"]) => m \in Range(box[w[1]]["in"])
      BY <1>6, <3>1, <3>3
    <3>5. m \in Range(boxrows'[w[1]]["in"]) => m \in Range(boxrows[w[1]]["in"])
      BY <1>6, <3>2, <3>3
    <3>6. QED
      BY <3>4, <3>5
  <2>4. CASE w[1] = q /\ w[2] = p
    <3>1. w = <<q, p>>
      BY <2>1, <2>4
    <3>2. box' = Kept(box, p, q) /\ ~(w[1] \in online => w \in tabled)
      BY <1>6, <2>1, <2>4, <3>1
    <3>3. QED
      BY <1>1, <1>3, <2>1, <3>2
  <2>5. QED
    BY <2>3, <2>4
<1>7. CASE ~(boxrows' = Kept(boxrows, p, q) /\ box' = Kept(box, p, q))
  <2>1. \/ /\ boxrows' = Put(Kept(boxrows, p, q), q, "in", New(p))
           /\ box' = Put(Kept(box, p, q), q, "in", New(p))
           /\ q \in online /\ p \notin Range(blocked[q])
        \/ /\ boxrows' = Put(Kept(boxrows, p, q), q, "in", New(p)) /\ box' = Kept(box, p, q)
           /\ <<q, p>> \notin tabled
    BY <1>7, MailCases
  <2>2. QED
    BY <1>4, <1>6, <2>1 DEF Barred
<1>8. QED
  BY <1>5, <1>7

\* Gifts and deletions bring no mail.
LEMMA LessMail ==
    ASSUME BoxesInv, NEW p \in Player, NEW t, NEW b \in Boxes, NEW es, NEW fs,
           Range(es) \subseteq Range(box[p][b]), Range(fs) \subseteq Range(boxrows[p][b]),
           box' = [box EXCEPT ![p][b] = es], boxrows' = [boxrows EXCEPT ![p][b] = fs]
    PROVE  NoMailIn
<1>1. /\ box \in [Player -> [Boxes -> Seq(Mail)]] /\ boxrows \in [Player -> [Boxes -> Seq(Mail)]]
      /\ "in" \in Boxes
  BY DEF BoxesInv, BoxTables, Boxes
<1>2. \A a \in Player :
         /\ box'[a]["in"] = IF a = p /\ b = "in" THEN es ELSE box[a]["in"]
         /\ boxrows'[a]["in"] = IF a = p /\ b = "in" THEN fs ELSE boxrows[a]["in"]
  BY <1>1
<1>3. QED
  BY <1>2 DEF NoMailIn

LEMMA GiftIsNoMail ==
    ASSUME BoxesInv, NEW q \in Player, NEW e,
           boxrows' = Put(boxrows, q, "gift", e) \/ boxrows' = boxrows,
           box' = Put(box, q, "gift", e) \/ box' = box
    PROVE  NoMailIn
<1>1. box \in BoxTables /\ boxrows \in BoxTables /\ "in" \in Boxes /\ "gift" \in Boxes
  BY DEF BoxesInv, Boxes
<1>2. \A a \in Player : /\ Put(box, q, "gift", e)[a]["in"] = box[a]["in"]
                        /\ Put(boxrows, q, "gift", e)[a]["in"] = boxrows[a]["in"]
  BY <1>1, PutElsewhere
<1>3. QED
  BY <1>2 DEF NoMailIn

LEMMA StepsBarred == ListsInv /\ BoxesInv /\ BlocksWritten /\ [Next]_vars => Barred
<1>1. SUFFICES ASSUME ListsInv, BoxesInv, BlocksWritten, [Next]_vars PROVE Barred
  OBVIOUS
<1>2. NoRequest /\ NoMailIn => Barred
  BY <1>1, NothingComesIn
<1>3. UNCHANGED <<box, boxrows>> => NoMailIn
  BY DEF NoMailIn
<1>4. CASE Tick \/ UNCHANGED vars
  BY <1>2, <1>3, <1>4 DEF Tick, vars, boxes, NoRequest
<1>5. ASSUME NEW p \in Player, Login(p) \/ Logout(p) \/ Persist(p) \/ ShowRequests(p)
      PROVE  Barred
  <2>1. NoRequest /\ boxrows' = boxrows
    BY <1>5 DEF Login, Logout, Persist, ShowRequests, PendingOf, boxes, NoRequest
  <2>2. box \in [Player -> [Boxes -> Seq(Mail)]] /\ "in" \in Boxes
    BY <1>1 DEF BoxesInv, BoxTables, Boxes
  <2>3. CASE ShowRequests(p) \/ Persist(p)
    BY <1>2, <1>3, <2>1, <2>3 DEF ShowRequests, Persist, boxes
  <2>4. CASE Login(p)
    <3>1. \A a \in Player : box'[a]["in"] = IF a = p THEN boxrows[a]["in"] ELSE box[a]["in"]
      BY <2>2, <2>4 DEF Login, LoadMailboxes
    <3>2. QED
      BY <1>2, <2>1, <3>1 DEF NoMailIn
  <2>5. CASE Logout(p)
    <3>1. \A a \in Player : box'[a]["in"] = IF a = p THEN <<>> ELSE box[a]["in"]
      BY <2>2, <2>5 DEF Logout, NoMail
    <3>2. Range(<<>>) = {}
      BY DEF Range
    <3>3. QED
      BY <1>2, <2>1, <3>1, <3>2 DEF NoMailIn
  <2>6. QED
    BY <1>5, <2>3, <2>4, <2>5
<1>6. ASSUME NEW p \in Player, NEW q \in Player,
             \/ Accept(p, q) \/ Unfriend(p, q)
             \/ Block(p, q) \/ BlockOffline(p, q) \/ Unblock(p, q)
      PROVE  Barred
  <2>1. UNCHANGED <<box, boxrows>> /\ NoRequest
    BY <1>6 DEF Accept, Unfriend, Block, BlockOffline, Unblock, boxes, NoRequest
  <2>2. QED
    BY <1>2, <1>3, <2>1
<1>7. ASSUME NEW p \in Player, NEW q \in Player,
             Request(p, q) \/ RequestOffline(p, q) \/ SendMail(p, q) \/ SendOfflineMail(p, q)
      PROVE  Barred
  BY <1>1, <1>7, RequestBarred, MailBarred
<1>8. ASSUME NEW p \in Player, NEW t \in 1 .. MaxTime,
             OpenGift(p, t) \/ \E b \in {"in", "out"} : DeleteMail(p, b, t)
      PROVE  Barred
  <2>1. PICK b \in Boxes :
           /\ UNCHANGED <<asked, pending>> /\ Of(t, box[p][b]) # <<>>
           /\ \/ box' = [box EXCEPT ![p][b] = Without(t, box[p][b])]
              \/ box' = [box EXCEPT ![p][b] = FirstDeleted(box[p][b], t)]
           /\ boxrows' = [boxrows EXCEPT ![p][b] = Without(t, boxrows[p][b])]
    BY <1>8 DEF OpenGift, DeleteReceivedGiftbox, GiftsDeleted, DeleteMail, DeleteMailbox, Boxes
  <2>2. box[p][b] \in Seq(Mail) /\ boxrows[p][b] \in Seq(Mail)
    BY <1>1 DEF BoxesInv, BoxTables
  <2>3. /\ Range(Without(t, box[p][b])) \subseteq Range(box[p][b])
        /\ Range(Without(t, boxrows[p][b])) \subseteq Range(boxrows[p][b])
    BY <2>2, WithoutRange
  <2>4. Range(FirstDeleted(box[p][b], t)) \subseteq Range(box[p][b])
    <3>1. PICK keep \in SUBSET DOMAIN box[p][b] : FirstDeleted(box[p][b], t) = Picked(box[p][b], keep)
      BY <2>1, <2>2, FirstDeletedFacts
    <3>2. Range(FirstDeleted(box[p][b], t)) = {box[p][b][i] : i \in keep}
      BY <2>2, <3>1, PickedAt
    <3>3. QED
      BY <3>2 DEF Range
  <2>5. NoMailIn
    BY <1>1, <2>1, <2>3, <2>4, LessMail
  <2>6. QED
    BY <1>2, <2>1, <2>5 DEF NoRequest
<1>9. ASSUME NEW g \in Gift, NEW q \in Player, SendGift(g, q) \/ Reward(g, q)
      PROVE  Barred
  <2>1. UNCHANGED <<asked, pending>>
    BY <1>9 DEF SendGift, Reward
  <2>2. /\ boxrows' = Put(boxrows, q, "gift", New(g)) \/ boxrows' = boxrows
        /\ box' = Put(box, q, "gift", New(g)) \/ box' = box
    BY <1>9, GiftCases
  <2>3. NoMailIn
    BY <1>1, <2>2, GiftIsNoMail
  <2>4. QED
    BY <1>2, <2>1, <2>3 DEF NoRequest
<1>10. QED
  BY <1>1, <1>4, <1>5, <1>6, <1>7, <1>8, <1>9 DEF Next

\* Who was told to keep out sends nothing that arrives (KeptOut), of any number of
\* players and through every login and end of a session, once the block is written
\* where the tables are asked.
THEOREM AlwaysKeptOut == Spec => KeptOut
<1>1. ListsInv /\ BoxesInv /\ BlocksWritten /\ [Next]_vars => Barred
  BY StepsBarred
<1>2. ListsInv /\ BlocksWritten /\ [Next]_vars => BlocksWritten'
  BY BlocksStep
<1>3. Spec => [](ListsInv /\ BoxesInv /\ BlocksWritten)
  BY <1>2, ListsInit, ListsStep, BoxesInit, BoxesStep, BlocksInit, PTL DEF Spec
<1>4. KeptOut <=> [][Barred]_vars
  BY DEF KeptOut, Barred
<1>5. QED
  BY <1>1, <1>3, <1>4, PTL DEF Spec
=============================================================================
