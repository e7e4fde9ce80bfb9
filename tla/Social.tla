------------------------------- MODULE Social --------------------------------
(***************************************************************************)
(* Friend lists, block lists, mails and gifts (Handlers/Player).  Each     *)
(* operation has two paths: a player who is found online is reached        *)
(* through the session's copy of a list, one who is not through the rows   *)
(* of the database, with checks of their own; a login copies rows into a   *)
(* session.  A session is found by the name as it is written (strcmp), a   *)
(* row by the name in any case (the collation of the tables): named in     *)
(* another case, a player who is online is reached through the rows.       *)
(*                                                                         *)
(* Rows are what the tables hold once the account's queue is written,      *)
(* which a login waits for (OfflineIsWritten of module Accounts).  The     *)
(* tables have no unique key, so rows are sequences.  Mutes, the mark of   *)
(* mails that were read, the space for a gift's item, and mails to and     *)
(* blocks of oneself are left out.                                         *)
(***************************************************************************)
EXTENDS Naturals, Sequences, FiniteSets, Functions

CONSTANTS
    Player,       \* accounts
    Protected,    \* accounts of staff, whose sessions cannot be blocked ...
    Moderators,   \* ... and those of them whose rows cannot either
    Gift,         \* gifts: each is sent once
    MaxFriends,   \* the limit of friend and block lists (maxFriends, 59)
    MaxMail,      \* the limit of a mailbox (maxMailbox, 100)
    MaxTime       \* bound: seconds that are told apart

ASSUME SocialAssumption ==
    /\ Moderators \subseteq Protected /\ Protected \subseteq Player
    /\ MaxFriends \in Nat /\ MaxMail \in Nat /\ MaxTime \in Nat

VARIABLES
    online,    \* accounts with a session in the table
    friends,   \* the keys of m_friends ...
    seen,      \* ... and those of them with a live session
    blocked,   \* m_blockedAccounts
    box,       \* m_mailboxReceived ("in"), m_mailboxSent ("out"), m_giftboxReceived ("gift")
    asked,     \* friend requests a client is showing: <<from, to>>
    now,       \* the time in seconds, by which mails and gifts are named
    \* the tables:
    frows,     \* Friendlist
    brows,     \* BlockedPlayers
    boxrows,   \* Mailbox and Giftbox
    pending,   \* PendingFriendRequests: <<from, to>>
    \* what waits in the queues of those who are online:
    tabled,    \* the pairs BlockedPlayers has until then: <<by, whom>>
    freed,     \* pairs to be deleted from it
    wiped,     \* entries to be deleted from a box: <<account, box, time>>
    \* history:
    cut,       \* lists a login has loaded in part only: <<account, list>>
    stale,     \* friends a session lists and the table has deleted: <<account, friend>>
    wish,      \* who was told to be kept out by whom: <<by, whom>>
    twins,     \* boxes with two entries of the same second: <<account, box, time>>
    unheard,   \* boxes of sessions that were not told of a row: <<account, box, time>>
    sent, opened   \* gifts

lists == <<friends, seen, blocked, frows, brows, tabled, freed, cut, stale, wish>>
boxes == <<box, boxrows, wiped, twins, unheard, sent, opened>>
vars == <<online, asked, pending, now, lists, boxes>>

Boxes == {"in", "out", "gift"}
NoMail == [b \in Boxes |-> <<>>]

-----------------------------------------------------------------------------
Init ==
    /\ online = {}
    /\ friends = [p \in Player |-> {}] /\ seen = [p \in Player |-> {}]
    /\ blocked = [p \in Player |-> <<>>] /\ box = [p \in Player |-> NoMail]
    /\ frows = [p \in Player |-> <<>>] /\ brows = [p \in Player |-> <<>>]
    /\ boxrows = [p \in Player |-> NoMail]
    /\ asked = {} /\ pending = {}
    /\ now = 1
    /\ tabled = {} /\ freed = {} /\ wiped = {}
    /\ cut = {} /\ stale = {} /\ wish = {} /\ twins = {} /\ unheard = {}
    /\ sent = {} /\ opened = {}

Tick == now < MaxTime /\ now' = now + 1 /\ UNCHANGED <<online, asked, pending, lists, boxes>>

\* The queue of an account is written ...
Written(p) ==
    /\ tabled' = {b \in tabled : b[1] # p} \cup ({p} \X Range(brows[p]))
    /\ freed' = {b \in freed : b[1] # p}
    /\ wiped' = {d \in wiped : d[1] # p}

\* ... in a round of its timer, or when the session ends.
Persist(p) ==
    /\ p \in online
    /\ Written(p)
    /\ UNCHANGED <<online, asked, pending, now, friends, seen, blocked, frows, brows, cut, stale, wish,
                   box, boxrows, twins, unheard, sent, opened>>

FirstOf(rows) == SubSeq(rows, 1, IF Len(rows) < MaxFriends THEN Len(rows) ELSE MaxFriends)

\* loadFriends and loadBlockedPlayers stop at the limit.
LoadFriends(p) == Range(FirstOf(frows[p]))
LoadBlockedPlayers(p) == FirstOf(brows[p])

\* loadMailboxes, loadReceivedGiftboxes
LoadMailboxes(p, b) == boxrows[p][b]
LoadReceivedGiftboxes(p) == boxrows[p]["gift"]

\* updateFriendSession of the sessions of qs: with or without a live session, they
\* list p.
Listing(qs, p) == [q \in Player |-> IF q \in qs THEN friends[q] \cup {p} ELSE friends[q]]

\* handleAccountInformation: the lists are loaded, and the friends who are
\* online see the account, whether they still list it or not.
Login(p) ==
    LET mine == LoadFriends(p)
    IN  /\ p \notin online
        /\ online' = online \cup {p}
        /\ friends' = [Listing(mine \cap online, p) EXCEPT ![p] = mine]
        /\ seen' = [q \in Player |-> IF q = p THEN mine \cap online
                                     ELSE IF q \in mine \cap online THEN seen[q] \cup {p}
                                     ELSE seen[q]]
        /\ blocked' = [blocked EXCEPT ![p] = LoadBlockedPlayers(p)]
        /\ box' = [box EXCEPT ![p] =
               [b \in Boxes |-> IF b = "gift" THEN LoadReceivedGiftboxes(p) ELSE LoadMailboxes(p, b)]]
        /\ cut' = cut \cup (IF Len(frows[p]) > MaxFriends THEN {<<p, "friends">>} ELSE {})
                       \cup (IF Len(brows[p]) > MaxFriends THEN {<<p, "blocked">>} ELSE {})
        /\ UNCHANGED <<asked, now, frows, brows, boxrows, pending, tabled, freed, wiped, stale, wish,
                       twins, unheard, sent, opened>>

\* removeSession: the friends whose sessions the account has are told, and
\* with that they list it; nobody's reference to the session is live any more.
Logout(p) ==
    /\ p \in online
    /\ online' = online \ {p}
    /\ friends' = [Listing(seen[p], p) EXCEPT ![p] = {}]
    /\ seen' = [q \in Player |-> IF q = p THEN {} ELSE seen[q] \ {p}]
    /\ stale' = {f \in stale : f[1] # p} \cup {<<q, p>> : q \in {q \in seen[p] : <<p, q>> \in stale}}
    /\ blocked' = [blocked EXCEPT ![p] = <<>>] /\ box' = [box EXCEPT ![p] = NoMail]
    /\ Written(p)
    /\ asked' = {a \in asked : a[2] # p}
    /\ cut' = {c \in cut : c[1] # p}
    /\ unheard' = {u \in unheard : u[1] # p}
    /\ UNCHANGED <<now, frows, brows, boxrows, pending, wish, twins, sent, opened>>

-----------------------------------------------------------------------------
(* Friends. *)

HasBlocked(q, p) == p \in Range(blocked[q])

\* sendFriendRequest: the sender's list has room.
MayRequest(p) == p \in online /\ Cardinality(friends[p]) < MaxFriends

\* handleOnlineFriendRequest: the request is shown.
Request(p, q) ==
    /\ MayRequest(p) /\ q \in online \ {p}
    /\ Cardinality(friends[q]) < MaxFriends
    /\ ~HasBlocked(q, p)
    /\ asked' = asked \cup {<<p, q>>}
    /\ UNCHANGED <<online, now, pending, lists, boxes>>

\* Seeded fault: the columns of BlockedPlayers are swapped.
AddPendingFriendRequest_Swapped(p, q) ==
    /\ Len(frows[q]) < MaxFriends
    /\ <<p, q>> \notin tabled
    /\ pending' = pending \cup {<<p, q>>}

\* addPendingFriendRequest: the rows of the target are counted and searched.
AddPendingFriendRequest(p, q) ==
    /\ Len(frows[q]) < MaxFriends
    /\ <<q, p>> \notin tabled
    /\ pending' = pending \cup {<<p, q>>}

\* handleOfflineFriendRequest, of a player no session has the name of.
RequestOffline(p, q) ==
    /\ MayRequest(p) /\ q # p
    /\ AddPendingFriendRequest(p, q)
    /\ UNCHANGED <<online, asked, now, lists, boxes>>

\* loadPendingFriendRequests: what is read is deleted ...
PendingOf(p) == {a \in pending : a[2] = p}

\* ... and shown (sendFriendList, order 63).
ShowRequests(p) ==
    /\ p \in online
    /\ asked' = asked \cup PendingOf(p)
    /\ pending' = pending \ PendingOf(p)
    /\ UNCHANGED <<online, now, lists, boxes>>

\* addOnlineFriend, of both; addOfflineFriend, of the one who is online.
AddOnlineFriend(f, p, q) == [f EXCEPT ![p] = @ \cup {q}, ![q] = @ \cup {p}]
AddOfflineFriend(p, q) ==
    /\ friends' = [friends EXCEPT ![p] = @ \cup {q}]
    /\ seen' = [seen EXCEPT ![p] = @ \ {q}]

\* Two accounts are as good friends in their sessions as in the table.
Settled(p, q) == stale' = stale \ {<<p, q>>, <<q, p>>}

\* A row of p more; addFriend of the database: two rows.
Row(rows, p, q) == [rows EXCEPT ![p] = Append(@, q)]
AddFriend(p, q) == frows' = Row(Row(frows, p, q), q, p)

\* acceptFriendRequest: neither the limits nor the block lists count any more.
Accept(p, q) ==
    /\ <<q, p>> \in asked
    /\ asked' = asked \ {<<q, p>>}
    /\ IF q \in online
       THEN friends' = AddOnlineFriend(friends, p, q) /\ seen' = AddOnlineFriend(seen, p, q)
       ELSE AddOfflineFriend(p, q)
    /\ AddFriend(p, q) /\ Settled(p, q)
    /\ UNCHANGED <<online, now, blocked, brows, tabled, freed, cut, wish, pending, boxes>>

\* The entries of s at the indices of keep, in their order: what SelectSeq does,
\* by indices, over which one can prove.
Picked(s, keep) ==
    LET nth(k) == CHOOSE i \in keep : Cardinality({j \in keep : j <= i}) = k
    IN  [k \in 1 .. Cardinality(keep) |-> s[nth(k)]]

Rid(s, x) == Picked(s, {i \in DOMAIN s : s[i] # x})

\* Seeded fault: the other session keeps the friend.
DeleteFriend_OneSide(f, p, q) == [f EXCEPT ![p] = @ \ {q}]

\* deleteFriend of both sessions.
DeleteFriend(f, p, q) == [f EXCEPT ![p] = @ \ {q}, ![q] = @ \ {p}]

\* All rows of p with q are gone ...
NoRow(rows, p, q) == [rows EXCEPT ![p] = Rid(@, q)]

\* ... by removeFriend on both sides.
RemoveFriend(p, q) == frows' = NoRow(NoRow(frows, p, q), q, p)

Unfriended(p, q) ==
    /\ friends' = DeleteFriend(friends, p, q) /\ seen' = DeleteFriend(seen, p, q)
    /\ RemoveFriend(p, q) /\ Settled(p, q)

\* handleFriendDeletion
Unfriend(p, q) ==
    /\ p \in online /\ q \in friends[p]
    /\ Unfriended(p, q)
    /\ UNCHANGED <<online, asked, now, blocked, brows, tabled, freed, cut, wish, pending, boxes>>

-----------------------------------------------------------------------------
(* Block lists. *)

\* Player::blockAccount
HasRoomToBlock(p) == Len(blocked[p]) < MaxFriends

\* blockPlayer
BlockPlayer(rows, p, q) == Row(rows, p, q)

\* Session::blockAccount, on the rows it finds.
BlockAccount(p, q, rows) ==
    /\ blocked' = [blocked EXCEPT ![p] = Append(@, q)]
    /\ brows' = BlockPlayer(rows, p, q)
    /\ wish' = wish \cup {<<p, q>>}

\* handlePlayerBlock, the target's session found: a friend is no friend any more.
Block(p, q) ==
    /\ p \in online /\ q \in online \ {p} /\ q \notin Protected
    /\ HasRoomToBlock(p)
    /\ BlockAccount(p, q, brows)
    /\ IF q \in friends[p] THEN Unfriended(p, q) ELSE UNCHANGED <<friends, seen, frows, stale>>
    /\ UNCHANGED <<online, asked, now, tabled, freed, cut, pending, boxes>>

\* blockPlayerByNickname makes a row at once, whether the session's list has room or
\* not; a deletion in the queue takes it away again.
BlockPlayerByNickname(p, q) == IF <<p, q>> \in freed THEN brows ELSE Row(brows, p, q)

\* The friendship ends in the table and in one session; the other, if there is one,
\* is not found.
UnfriendedHere(p, q) ==
    /\ friends' = [friends EXCEPT ![p] = @ \ {q}] /\ seen' = [seen EXCEPT ![p] = @ \ {q}]
    /\ RemoveFriend(p, q)
    /\ stale' = (stale \ {<<p, q>>}) \cup (IF q \in online /\ p \in friends[q] THEN {<<q, p>>} ELSE {})

\* handlePlayerBlock, no session found: blockAccount queues another row.
BlockOffline(p, q) ==
    /\ p \in online /\ q # p /\ q \notin Moderators
    /\ tabled' = tabled \cup {<<p, q>>}
    /\ IF HasRoomToBlock(p)
       THEN /\ BlockAccount(p, q, BlockPlayerByNickname(p, q))
            /\ IF q \in friends[p] THEN UnfriendedHere(p, q) ELSE UNCHANGED <<friends, seen, frows, stale>>
       ELSE /\ brows' = BlockPlayerByNickname(p, q)
            /\ UNCHANGED <<blocked, wish, friends, seen, frows, stale>>
    /\ UNCHANGED <<online, asked, now, freed, cut, pending, boxes>>

\* unblockPlayer, in the queue.
UnblockPlayer(p, q) == brows' = NoRow(brows, p, q) /\ freed' = freed \cup {<<p, q>>}

\* unblockAccount
Unblock(p, q) ==
    /\ p \in online /\ HasBlocked(p, q)
    /\ blocked' = [blocked EXCEPT ![p] = Rid(@, q)]
    /\ UnblockPlayer(p, q)
    /\ wish' = wish \ {<<p, q>>}
    /\ UNCHANGED <<online, asked, now, friends, seen, frows, tabled, cut, stale, pending, boxes>>

-----------------------------------------------------------------------------
(* Mails and gifts. *)

\* The indices of the entries of a second, these entries and the others.
Dated(t, es) == {i \in DOMAIN es : es[i].time = t}
Of(t, es) == Picked(es, Dated(t, es))
Without(t, es) == Picked(es, DOMAIN es \ Dated(t, es))

New(w) == [with |-> w, time |-> now]

Put(bs, p, b, e) == [bs EXCEPT ![p][b] = Append(@, e)]

Twin(p, b) == IF Of(now, boxrows[p][b]) # <<>> THEN {<<p, b, now>>} ELSE {}

\* A row made at once, where a deletion of this second's entries waits in the
\* queue, goes with them.
Doomed(q, b) == <<q, b, now>> \in wiped
PutAtOnce(bs, q, b, e) == IF Doomed(q, b) THEN bs ELSE Put(bs, q, b, e)

\* A row that the session of q is not told of.
Unheard(q, b) == IF q \in online /\ ~Doomed(q, b) THEN {<<q, b, now>>} ELSE {}

\* addMailboxSent: the sender's copy.
Kept(bs, p, q) == Put(bs, p, "out", New(q))

\* sendOnlineMailbox; the limits let one mail more than them in.
SendMail(p, q) ==
    /\ p \in online /\ q \in online \ {p}
    /\ Len(box[p]["out"]) <= MaxMail /\ Len(box[q]["in"]) <= MaxMail
    /\ ~HasBlocked(q, p)
    /\ box' = Put(Kept(box, p, q), q, "in", New(p))
    /\ boxrows' = Put(Kept(boxrows, p, q), q, "in", New(p))
    /\ twins' = twins \cup Twin(p, "out") \cup Twin(q, "in")
    /\ UNCHANGED <<online, asked, now, pending, lists, wiped, unheard, sent, opened>>

\* The rows a query counts: of who is online, some wait in the queue.
HasRoom(q, b) == q \in online \/ Len(boxrows[q][b]) < MaxMail

\* storeOfflineMailbox counts and searches the receiver's rows.
StoreOfflineMailbox(p, q) ==
    /\ HasRoom(q, "in")
    /\ <<q, p>> \notin tabled
    /\ boxrows' = PutAtOnce(Kept(boxrows, p, q), q, "in", New(p))

\* sendOfflineMailbox
SendOfflineMail(p, q) ==
    /\ p \in online /\ q # p
    /\ Len(box[p]["out"]) <= MaxMail
    /\ StoreOfflineMailbox(p, q)
    /\ box' = Kept(box, p, q)
    /\ twins' = twins \cup Twin(p, "out") \cup Twin(q, "in")
    /\ unheard' = unheard \cup Unheard(q, "in")
    /\ UNCHANGED <<online, asked, now, pending, lists, wiped, sent, opened>>

\* Player::deleteSentMailbox, deleteReceivedMailbox: the first mail of the second.
FirstDeleted(es, t) ==
    LET first == CHOOSE i \in Dated(t, es) : \A j \in Dated(t, es) : i <= j
    IN  Picked(es, DOMAIN es \ {first})

\* Seeded fault: the row is looked for in the other box.
DeleteMailbox_OtherBox(p, b, t) ==
    LET c == IF b = "in" THEN "out" ELSE "in"
    IN  [boxrows EXCEPT ![p][c] = Without(t, @)]

\* deleteMailbox of the database: all mails of the second.
DeleteMailbox(p, b, t) ==
    [boxrows EXCEPT ![p][b] = Without(t, @)]

\* Session::deleteMailbox
DeleteMail(p, b, t) ==
    /\ p \in online /\ Of(t, box[p][b]) # <<>>
    /\ box' = [box EXCEPT ![p][b] = FirstDeleted(@, t)]
    /\ boxrows' = DeleteMailbox(p, b, t)
    /\ wiped' = wiped \cup {<<p, b, t>>}
    /\ UNCHANGED <<online, asked, now, pending, lists, twins, unheard, sent, opened>>

\* receiveGift counts the mails of a player whose session is found ...
ReceiveGift(g, q) ==
    /\ q \in online /\ Len(box[q]["in"]) <= MaxMail
    /\ box' = Put(box, q, "gift", New(g))
    /\ boxrows' = Put(boxrows, q, "gift", New(g))
    /\ twins' = twins \cup Twin(q, "gift")
    /\ UNCHANGED unheard

\* ... and storeGiftbox the gifts of one whose is not.
StoreGiftbox(g, q) ==
    /\ HasRoom(q, "gift")
    /\ boxrows' = PutAtOnce(boxrows, q, "gift", New(g))
    /\ twins' = twins \cup (IF Doomed(q, "gift") THEN {<<q, "gift", now>>} ELSE Twin(q, "gift"))
    /\ unheard' = unheard \cup Unheard(q, "gift")
    /\ UNCHANGED box

\* /sendgift
SendGift(g, q) ==
    /\ g \notin sent
    /\ ReceiveGift(g, q) \/ StoreGiftbox(g, q)
    /\ sent' = sent \cup {g}
    /\ UNCHANGED <<online, asked, now, pending, lists, wiped, opened>>

\* handleReward of the administration interface does the same.
Reward(g, q) == SendGift(g, q)

\* getItemIdFromGiftbox: the first gift of the second.
GiftOf(p, t) == Head(Of(t, box[p]["gift"])).with

\* Player::deleteGiftbox: all gifts of the second.
GiftsDeleted(es, t) == Without(t, es)

\* Seeded fault: the row stays.
DeleteReceivedGiftbox_RowStays(p, t) == boxrows

\* deleteReceivedGiftbox
DeleteReceivedGiftbox(p, t) == [boxrows EXCEPT ![p]["gift"] = GiftsDeleted(@, t)]

\* handleMailboxGiftSend: one gift becomes an item.
OpenGift(p, t) ==
    /\ p \in online /\ Of(t, box[p]["gift"]) # <<>>
    /\ opened' = opened \cup {GiftOf(p, t)}
    /\ box' = [box EXCEPT ![p]["gift"] = GiftsDeleted(@, t)]
    /\ boxrows' = DeleteReceivedGiftbox(p, t)
    /\ wiped' = wiped \cup {<<p, "gift", t>>}
    /\ UNCHANGED <<online, asked, now, pending, lists, twins, unheard, sent>>

-----------------------------------------------------------------------------
Next ==
    \/ Tick
    \/ \E p \in Player : Login(p) \/ Logout(p) \/ Persist(p) \/ ShowRequests(p)
    \/ \E p, q \in Player :
         \/ Request(p, q) \/ RequestOffline(p, q) \/ Accept(p, q) \/ Unfriend(p, q)
         \/ Block(p, q) \/ BlockOffline(p, q) \/ Unblock(p, q)
         \/ SendMail(p, q) \/ SendOfflineMail(p, q)
    \/ \E p \in Player, t \in 1 .. MaxTime :
         OpenGift(p, t) \/ \E b \in {"in", "out"} : DeleteMail(p, b, t)
    \/ \E g \in Gift, q \in Player : SendGift(g, q) \/ Reward(g, q)

Spec == Init /\ [][Next]_vars

-----------------------------------------------------------------------------
(* Properties. *)

\* Friendship is mutual in the table, a session lists the friends the table
\* has, and friends who are both online see each other so; who is blocked in a
\* session is blocked in the table.  Requests, deletions and blocks reach two
\* sessions, one or none, and each end of a session and each login rewrites the
\* entries of others.  Excepted are lists that were loaded in part, and who is
\* listed because a block that did not find the session ended the friendship in
\* the table only.
ListsAgree ==
    /\ \A p, q \in Player : q \in Range(frows[p]) <=> p \in Range(frows[q])
    /\ \A p \in online :
          /\ \A q \in friends[p] : <<p, q>> \notin stale => q \in Range(frows[p])
          /\ <<p, "friends">> \notin cut => Range(frows[p]) \subseteq friends[p]
          /\ seen[p] \subseteq online
          /\ \A q \in friends[p] \cap online : p \in friends[q] => q \in seen[p]
          /\ Range(blocked[p]) \subseteq Range(brows[p])

\* Who was told to keep out has no friend request shown to the blocker and no mail in
\* the blocker's session but those there were, whether the blocker is online, logs
\* out or comes back; nor do the tables get one, once the block is written, as it
\* is when the blocker is not online.  Unless the login did not load the whole list.
KeptOut ==
    [][\A w \in wish :
          \/ <<w[1], "blocked">> \in cut
          \/ LET request == <<w[2], w[1]>>
                 Mails(bs) == {m \in Range(bs[w[1]]["in"]) : m.with = w[2]}
             IN  /\ request \in asked' => request \in asked \cup pending
                 /\ Mails(box') \subseteq Mails(box) \cup Mails(boxrows)
                 /\ (w[1] \in online => w \in tabled) =>
                       /\ request \in pending' => request \in asked \cup pending
                       /\ Mails(boxrows') \subseteq Mails(boxrows)]_vars

\* A session's mails and gifts are those the tables have, but for those of one
\* and the same second, and for rows made without the session being found.
BoxesAgree ==
    \A p \in online, b \in Boxes, t \in 1 .. MaxTime :
        <<p, b, t>> \notin twins \cup unheard => Of(t, box[p][b]) = Of(t, boxrows[p][b])

\* A gift is opened at most once and never lost, except to another gift of the
\* same second: it is opened, or one player has it.
GiftsKept ==
    \A g \in sent :
        LET holders == {p \in Player : \E e \in Range(boxrows[p]["gift"]) : e.with = g}
        IN  /\ Cardinality(holders) <= (IF g \in opened THEN 0 ELSE 1)
            /\ g \notin opened /\ holders = {} => \E w \in twins : w[2] = "gift"
=============================================================================
