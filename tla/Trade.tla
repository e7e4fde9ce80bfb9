------------------------------- MODULE Trade --------------------------------
(***************************************************************************)
(* Trading of items between two players (include/Handlers/Trade).  Each    *)
(* session keeps its own half of a trade - the partner's account, the      *)
(* offer, the lock - and every handler reaches for the other half through  *)
(* the session table, where the partner may be gone, be back, or be        *)
(* trading with somebody else.                                             *)
(*                                                                         *)
(* Items are told apart here by an identity that goes with them; on the    *)
(* wire and in the database they have a number per account, which changes  *)
(* hands with every trade and every login.  Clients do not delete the      *)
(* items they offer: they are sealed until resetTradeInfo unseals them.    *)
(***************************************************************************)
EXTENDS Integers, Sequences, FiniteSets

CONSTANTS
    Player,       \* accounts
    NoPlayer,     \* the account id 0: no partner
    Friends,      \* pairs of accounts with each other in their friend lists
    Item,
    Space,        \* inventorySpace of each player
    OfferLimit,   \* an offer of more than OfferLimit items takes no more (10)
    Fee,          \* the price of trading one item (5000)
    MaxMp         \* the largest balance (0x7FFFFFFF)

ASSUME TradeAssumption ==
    /\ NoPlayer \notin Player /\ IsFiniteSet(Item)
    /\ Friends \subseteq Player \X Player
    /\ \A p \in Player : <<p, p>> \notin Friends
    /\ Space \in [Player -> Nat] /\ OfferLimit \in Nat /\ Fee \in Nat /\ MaxMp \in Nat

VARIABLES
    online,    \* accounts with a session in the table
    place,     \* m_playerState: trading, in the lobby, or away (inventory, a room)
    asked      \* trade requests (TradeAck) a client is showing: <<from, to>>
VARIABLES
    partner,   \* m_currentlyTradingWithAccountId
    offer,     \* m_tradedItems
    locked,    \* m_hasPlayerLocked
    bag,       \* m_itemsByItemNumber: the player's items and their numbers
    mp         \* microPoints

half == <<partner, offer, locked>>
vars == <<online, place, asked, partner, offer, locked, bag, mp>>

Entry == [num : Nat, item : Item]

TypeOK ==
    /\ online \subseteq Player
    /\ place \in [Player -> {"lobby", "trade", "away"}]
    /\ asked \subseteq Player \X Player
    /\ partner \in [Player -> Player \cup {NoPlayer}]
    /\ offer \in [Player -> Seq(Entry)]
    /\ locked \in [Player -> BOOLEAN]
    /\ bag \in [Player -> SUBSET Entry]
    /\ mp \in [Player -> 0 .. MaxMp]

Offered(o) == {o[k] : k \in DOMAIN o}

-----------------------------------------------------------------------------
(* The inventory, as far as trading uses it. *)

\* hasEnoughInventorySpace: the free space is an unsigned number, so an
\* inventory that is over-full has room for everything.
HasSpace(p, b, n) == LET free == Space[p] - Cardinality(b) IN free < 0 \/ free >= n

\* getLatestItemNumber
Latest(b) == CHOOSE n \in {0} \cup {e.num : e \in b} : \A e \in b : e.num <= n

\* deleteItems stops at the first item that is not there.
Deleted(b, o) ==
    b \ {e \in b : \E k \in DOMAIN o :
            /\ o[k].num = e.num
            /\ \A j \in 1 .. k : \E d \in b : d.num = o[j].num}

\* Seeded fault: the items keep the numbers they had.
Spawned_SameNumbers(p, b, o) == {e \in b : \A k \in DOMAIN o : o[k].num # e.num} \cup Offered(o)

\* spawnItems: each item gets the next number; those that do not fit are lost.
Spawned(p, b, o) ==
    b \cup {[num |-> Latest(b) + k, item |-> o[k].item] :
               k \in {j \in DOMAIN o : HasSpace(p, b, j)}}

\* setAccountMicroPoints of the balance less the fee: when the subtraction
\* wraps around, the result is above the largest balance and is refused.
Charged(m, n) == IF m - Fee * n >= 0 THEN m - Fee * n ELSE m

\* Seeded fault: an item can be offered twice.
Offering_Twice(o, e) == Append(o, e)

\* addTradedItem and removeTradedItem; an item that is offered already is not
\* offered again.
Offering(o, e) == IF \E k \in DOMAIN o : o[k].num = e.num THEN o ELSE Append(o, e)

Withdrawn(o, k) == SubSeq(o, 1, k - 1) \o SubSeq(o, k + 1, Len(o))

\* A login numbers the items of an account from 1 (getPlayerItems).
Renumbered(b) ==
    {[num |-> Cardinality({d \in b : d.num <= e.num}), item |-> e.item] : e \in b}

-----------------------------------------------------------------------------
\* No two items of an inventory have one number, and no item is in two places.
OneOfEach ==
    \A p, q \in Player : \A d \in bag[p], e \in bag[q] :
        (p = q /\ d.num = e.num) \/ d.item = e.item => p = q /\ d = e

Init ==
    /\ online = {}
    /\ place = [p \in Player |-> "lobby"]
    /\ asked = {}
    /\ partner = [p \in Player |-> NoPlayer]
    /\ offer = [p \in Player |-> <<>>]
    /\ locked = [p \in Player |-> FALSE]
    /\ bag \in [Player -> SUBSET [num : 1 .. Cardinality(Item), item : Item]]
    /\ OneOfEach
    /\ \A p \in Player :
          Cardinality(bag[p]) <= Space[p] /\ {e.num : e \in bag[p]} = 1 .. Cardinality(bag[p])
    /\ mp = [p \in Player |-> MaxMp]

\* A login makes a new session, with nothing of an earlier trade in it ...
Login(p) ==
    /\ p \notin online
    /\ online' = online \cup {p}
    /\ bag' = [bag EXCEPT ![p] = Renumbered(@)]
    /\ UNCHANGED <<place, asked, half, mp>>

\* ... and the end of a session tells its partner nothing.
Disconnect(p) ==
    /\ p \in online
    /\ online' = online \ {p}
    /\ asked' = {a \in asked : p \notin {a[1], a[2]}}
    /\ place' = [place EXCEPT ![p] = "lobby"]
    /\ partner' = [partner EXCEPT ![p] = NoPlayer]
    /\ offer' = [offer EXCEPT ![p] = <<>>]
    /\ locked' = [locked EXCEPT ![p] = FALSE]
    /\ UNCHANGED <<bag, mp>>

\* The player leaves the lobby, or comes back to it; not from within a trade.
Move(p) ==
    /\ p \in online
    /\ place[p] # "trade"
    /\ place' = [place EXCEPT ![p] = IF @ = "lobby" THEN "away" ELSE "lobby"]
    /\ UNCHANGED <<online, asked, half, bag, mp>>

\* The shop, and the deletion of an item that is not sealed.
Spend(p) ==
    /\ p \in online /\ place[p] # "trade"
    /\ mp[p] > 0
    /\ mp' = [mp EXCEPT ![p] = @ - 1]
    /\ UNCHANGED <<online, place, asked, half, bag>>

Discard(p, e) ==
    /\ p \in online /\ place[p] # "trade"
    /\ e \in bag[p] /\ e \notin Offered(offer[p])
    /\ bag' = [bag EXCEPT ![p] = @ \ {e}]
    /\ UNCHANGED <<online, place, asked, half, mp>>

-----------------------------------------------------------------------------
(* The handlers. *)

InLobby(p) == place[p] = "lobby"

\* handleTradeAck: the request is passed on if both are in the lobby.
Ask(p, q) ==
    /\ {p, q} \subseteq online /\ p # q
    /\ InLobby(p) /\ InLobby(q)
    /\ asked' = asked \cup {<<p, q>>}
    /\ UNCHANGED <<online, place, half, bag, mp>>

\* handleTradeInitialization with TRADE_DECLINED: the asker is sent who said
\* no, and with that its partner is set (sendInitialTradeInfo).
Decline(p, q) ==
    /\ <<q, p>> \in asked
    /\ <<p, q>> \in Friends
    /\ partner' = [partner EXCEPT ![q] = p]
    /\ asked' = asked \ {<<q, p>>}
    /\ UNCHANGED <<online, place, offer, locked, bag, mp>>

\* handleTradeInitialization: only the asker's place is looked at, and what
\* either side still has of an earlier trade stays.
Accept(p, q) ==
    /\ <<q, p>> \in asked
    /\ asked' = asked \ {<<q, p>>}
    /\ IF <<p, q>> \in Friends /\ InLobby(q)
       THEN /\ place' = [place EXCEPT ![p] = "trade", ![q] = "trade"]
            /\ partner' = [partner EXCEPT ![p] = q, ![q] = p]
       ELSE UNCHANGED <<place, partner>>
    /\ UNCHANGED <<online, offer, locked, bag, mp>>

Reset(ps) ==
    /\ partner' = [p \in Player |-> IF p \in ps THEN NoPlayer ELSE partner[p]]
    /\ offer' = [p \in Player |-> IF p \in ps THEN <<>> ELSE offer[p]]
    /\ locked' = [p \in Player |-> IF p \in ps THEN FALSE ELSE locked[p]]
    /\ place' = [p \in Player |-> IF p \in ps THEN "away" ELSE place[p]]

\* Every handler finds the partner's session through the account id, and all
\* but one give the trade up when there is none.
Reached(p) == p \in online /\ partner[p] \in online

PartnerGone(p) ==
    /\ p \in online /\ partner[p] \notin online
    /\ Reset({p})
    /\ UNCHANGED <<online, asked, bag, mp>>

\* handleAddTradeItem; refusals change nothing, and neither lock is looked at.
AddItem(p, e) ==
    /\ Reached(p) /\ e \in bag[p]
    /\ HasSpace(partner[p], bag[partner[p]], Len(offer[p]) + 1)
    /\ Len(offer[p]) <= OfferLimit
    /\ mp[p] >= Fee * (Len(offer[p]) + 1)
    /\ offer' = [offer EXCEPT ![p] = Offering(@, e)]
    /\ UNCHANGED <<online, place, asked, partner, locked, bag, mp>>

\* handleTradeItemRemoval
RemoveItem(p, k) ==
    /\ Reached(p) /\ k \in DOMAIN offer[p]
    /\ offer' = [offer EXCEPT ![p] = Withdrawn(@, k)]
    /\ UNCHANGED <<online, place, asked, partner, locked, bag, mp>>

\* handleTradeCancellation
Cancel(p) ==
    /\ Reached(p)
    /\ Reset({p, partner[p]})
    /\ UNCHANGED <<online, asked, bag, mp>>

\* handleTradeFinalization, the partner not locked: the first confirmation
\* locks, a second one only gets a message.
Confirm(p) ==
    /\ Reached(p)
    /\ ~locked[partner[p]] /\ ~locked[p]
    /\ locked' = [locked EXCEPT ![p] = TRUE]
    /\ UNCHANGED <<online, place, asked, partner, offer, bag, mp>>

\* The partner's session is locked; whose trade it locked is not asked.
Settling(p) == Reached(p) /\ locked[partner[p]]

\* A settlement refused for want of space has moved both out of the trade's
\* state, and keeps everything else of the trade.
Refuse(p) ==
    /\ Settling(p)
    /\ LET q == partner[p]
       IN  /\ ~HasSpace(q, bag[q], Len(offer[p])) \/ ~HasSpace(p, bag[p], Len(offer[q]))
           /\ place' = [place EXCEPT ![p] = "away", ![q] = "away"]
    /\ UNCHANGED <<online, asked, half, bag, mp>>

Settle(p) ==
    /\ Settling(p)
    /\ LET q == partner[p]
       IN  /\ HasSpace(q, bag[q], Len(offer[p])) /\ HasSpace(p, bag[p], Len(offer[q]))
           /\ mp' = [mp EXCEPT ![p] = Charged(@, Len(offer[p])),
                               ![q] = Charged(@, Len(offer[q]))]
           /\ bag' = [bag EXCEPT ![p] = Spawned(p, Deleted(@, offer[p]), offer[q]),
                                 ![q] = Spawned(q, Deleted(@, offer[q]), offer[p])]
           /\ Reset({p, q})
    /\ UNCHANGED <<online, asked>>

Next ==
    \/ \E p \in Player :
         \/ Login(p) \/ Disconnect(p) \/ Move(p) \/ Spend(p)
         \/ PartnerGone(p) \/ Cancel(p) \/ Confirm(p) \/ Refuse(p) \/ Settle(p)
    \/ \E p, q \in Player : Ask(p, q) \/ Decline(p, q) \/ Accept(p, q)
    \/ \E p \in Player : \E e \in bag[p] : Discard(p, e) \/ AddItem(p, e)
    \/ \E p \in Player : \E k \in DOMAIN offer[p] : RemoveItem(p, k)

Spec == Init /\ [][Next]_vars

-----------------------------------------------------------------------------
(* Properties. *)

\* What a session offers is in its inventory, each item once, no two items of
\* an inventory have one number, and no item is in two: offers outlive refused
\* settlements, partners that leave and trades that are replaced, and what comes
\* from the other inventory is numbered anew.
OfferOwned ==
    /\ \A p \in Player :
          /\ Offered(offer[p]) \subseteq bag[p]
          /\ \A j, k \in DOMAIN offer[p] : offer[p][j].num = offer[p][k].num => j = k
    /\ OneOfEach

\* The owner of every item, for the abstract specification.
Holders(i) == {p \in Player : \E e \in bag[p] : e.item = i}
owner == [i \in Item |-> IF Holders(i) = {} THEN NoPlayer ELSE CHOOSE p \in Holders(i) : TRUE]

\* A settlement swaps the two offers in one step, whole, whoever disconnects,
\* comes back or starts another trade in between: Exchange is implemented.
AbstractTrade == INSTANCE Exchange WITH Nobody <- NoPlayer

Exchanges == AbstractTrade!Spec
=============================================================================
