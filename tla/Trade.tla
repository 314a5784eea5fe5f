------------------------------- MODULE Trade -------------------------------
(***************************************************************************)
(* Trading between two players (Handlers/TradeHandler.cpp, the class       *)
(* TradeData).  Each player of an open trade owns one TradeData, reached   *)
(* through Player::m_trade, that names the other player by a raw pointer.  *)
(* Every change of an offer withdraws both acceptances, draws a new server *)
(* state index and sends the new offer to the partner's client; an accept  *)
(* packet carries the index of the offer its client was showing, which may *)
(* be an old one when it arrives.  The exchange is saved to the database   *)
(* in one transaction; the server may crash at any time, and the players   *)
(* then come back as the database has them.                                *)
(*                                                                         *)
(* All the trade handlers run in World::UpdateSessions (the opcodes are    *)
(* PROCESS_THREADUNSAFE), so one handler is one step.                      *)
(***************************************************************************)
EXTENDS Integers, FiniteSets, FiniteSetsExt

CONSTANTS
    Players,
    Items,          \* the item guids that change hands
    Slots,          \* how many traded slots (TRADE_SLOT_TRADED_COUNT)
    InitGold,       \* the gold each player starts with
    InitItems,      \* the items each player starts with
    MaxMoney,       \* MAX_MONEY_AMOUNT
    Room,           \* how many items fit into a player's bags
    Allowed,        \* who may be given an item (allowedGUIDs of one bound on
                    \* pickup and still tradeable; of any other, everybody)
    Loose,          \* the items that may also leave a player or bind to him
    Spenders,       \* the players who also spend gold elsewhere
    None            \* no player, no item

ASSUME TradeAssumption ==
    /\ None \notin Players
    /\ None \notin Items
    /\ IsFiniteSet(Players) /\ IsFiniteSet(Items)
    /\ Slots \in Nat
    /\ MaxMoney \in Nat
    /\ Room \in Nat
    /\ Allowed \in [Items -> SUBSET Players]
    /\ Loose \subseteq Items
    /\ Spenders \subseteq Players
    /\ InitGold \in [Players -> 0 .. MaxMoney]
    /\ InitItems \in [Players -> SUBSET Items]
    /\ \A p, q \in Players : p # q => InitItems[p] \cap InitItems[q] = {}

VARIABLES
    trade,      \* Player::m_trade of every player
    own,        \* what a player has, and what has left it outside trades
    saved,      \* the same in the character database
    online      \* the players in the world

vars == <<trade, own, saved, online>>

TradedSlots == 1 .. Slots
Nontraded == 0                      \* TRADE_SLOT_NONTRADED
AllSlots == TradedSlots \cup {Nontraded}

Offers == [items : SUBSET Items, money : 0 .. MaxMoney]
NoOffer == [items |-> {}, money |-> 0]

(* A TradeData.  The server state index is a random number: what matters   *)
(* is which offers the partner's client was sent under the current one     *)
(* ("sent"); an accept packet with any other index is stale.  "agreed"     *)
(* records the partner's offer that the owner's acceptance is about.       *)
NoTrade == [trader |-> None]
NewTrade(q) ==
    [trader |-> q, accepted |-> FALSE, money |-> 0, spell |-> FALSE,
     items |-> [s \in AllSlots |-> None],
     sent |-> {NoOffer}, agreed |-> NoOffer]
TradeDatas ==
    [trader : Players, accepted : BOOLEAN, money : 0 .. MaxMoney,
     spell : BOOLEAN, items : [AllSlots -> Items \cup {None}],
     sent : SUBSET Offers, agreed : Offers]

Belongings ==
    [gold : Nat, items : SUBSET Items, bound : SUBSET Items,
     spent : Nat, away : SUBSET Items]

(* The type invariant.                                                     *)
TypeOK ==
    /\ trade \in [Players -> TradeDatas \cup {NoTrade}]
    /\ own \in [Players -> Belongings]
    /\ saved \in [Players -> Belongings]
    /\ online \subseteq Players

Init ==
    /\ trade = [p \in Players |-> NoTrade]
    /\ own = [p \in Players |-> [gold |-> InitGold[p], items |-> InitItems[p],
                                 bound |-> {}, spent |-> 0, away |-> {}]]
    /\ saved = own
    /\ online = Players

Trading(p) == trade[p] # NoTrade
Trader(p) == trade[p].trader

---------------------------------------------------------------------------
(* TradeData: every operator takes the TradeData of all players and gives  *)
(* them back changed.                                                      *)

\* TradeData::GetItem: an offered item is looked up in the owner's bags, so
\* one that has left them meanwhile is as if it had not been offered
GetItem(t, p, s) ==
    IF t[p].items[s] \in own[p].items THEN t[p].items[s] ELSE None

GetItems(t, p) == {GetItem(t, p, s) : s \in TradedSlots} \ {None}

SetAccepted(t, p, state) ==
    [t EXCEPT ![p].accepted = state,
              ![p].agreed = IF state THEN @ ELSE NoOffer]

\* (mutant) the server state index is not drawn anew
MutUpdateServerStateIndex(t, p) == t

\* rand32 is taken to draw an index this trade has not used yet
UpdateServerStateIndex(t, p) == [t EXCEPT ![p].sent = {}]

\* (mutant) only the acceptance of who changes his offer is withdrawn
MutChanged(t, p) == UpdateServerStateIndex(SetAccepted(t, p, FALSE), p)

Changed(t, p) ==
    UpdateServerStateIndex(
        SetAccepted(SetAccepted(t, p, FALSE), t[p].trader, FALSE), p)

\* TradeData::Update(true), WorldSession::SendUpdateTrade
Update(t, p) ==
    [t EXCEPT ![p].sent =
        @ \cup {[items |-> GetItems(t, p), money |-> t[p].money]}]

SetSpell(t, p, spell) ==
    IF t[p].spell = spell THEN t
    ELSE Update(Changed([t EXCEPT ![p].spell = spell], p), p)

SetItem(t, p, s, item, update) ==
    IF t[p].items[s] = item /\ ~update THEN t
    ELSE LET u == Update(Changed([t EXCEPT ![p].items[s] = item], p), p)
             v == IF s = Nontraded THEN SetSpell(u, u[p].trader, FALSE) ELSE u
         IN  SetSpell(v, p, FALSE)

SetMoney(t, p, money) ==
    IF t[p].money = money \/ own[p].gold < money THEN t
    ELSE Update(Changed([t EXCEPT ![p].money = money], p), p)

---------------------------------------------------------------------------
(* The handlers.                                                           *)

\* the checks on life, stun, flight, faction, level and distance that make
\* the handler return with nothing but a status are left out
InitiateTrade(p, q) ==
    /\ {p, q} \subseteq online
    /\ ~Trading(p)
    /\ q # p /\ ~Trading(q)
    /\ trade' = [trade EXCEPT ![p] = NewTrade(q), ![q] = NewTrade(p)]
    /\ UNCHANGED <<own, saved, online>>

SetTradeGold(p, money) ==
    /\ Trading(p)
    /\ trade' = SetMoney(trade, p, money)
    /\ UNCHANGED <<own, saved, online>>

CanBeTraded(p, item) == item \notin own[p].bound

\* Item::IsBindedNotWith: for another player than its owner p
IsBindedNotWith(p, item, q) == item \in own[p].bound \/ q \notin Allowed[item]

HasItem(p, item) == \E s \in AllSlots : trade[p].items[s] = item

SetTradeItem(p, s, item) ==
    /\ Trading(p)
    /\ item \in own[p].items
    /\ s # Nontraded => CanBeTraded(p, item)
    /\ ~HasItem(p, item)
    /\ s # Nontraded => ~IsBindedNotWith(p, item, Trader(p))
    /\ trade' = SetItem(trade, p, s, item, FALSE)
    /\ UNCHANGED <<own, saved, online>>

ClearTradeItem(p, s) ==
    /\ Trading(p)
    /\ trade' = SetItem(trade, p, s, None, FALSE)
    /\ UNCHANGED <<own, saved, online>>

\* Item::SetCount: a stack that is in the trade window changes
SetCount(p, s) ==
    /\ Trading(p)
    /\ GetItem(trade, p, s) # None
    /\ trade' = SetItem(trade, p, s, trade[p].items[s], TRUE)
    /\ UNCHANGED <<own, saved, online>>

\* a spell aimed at the item in the partner's last slot ends its cast bar
CastOnTradeItem(p) ==
    /\ Trading(p)
    /\ GetItem(trade, Trader(p), Nontraded) # None
    /\ trade' = SetSpell(trade, p, TRUE)
    /\ UNCHANGED <<own, saved, online>>

UnacceptTrade(p) ==
    /\ Trading(p)
    /\ trade' = SetAccepted(trade, p, FALSE)
    /\ UNCHANGED <<own, saved, online>>

\* (mutant) the trader's TradeData is left behind
MutCancelled(p) ==
    IF Trading(p) THEN [trade EXCEPT ![p] = NoTrade] ELSE trade

Cancelled(p) ==
    IF Trading(p) THEN [trade EXCEPT ![p] = NoTrade, ![Trader(p)] = NoTrade]
    ELSE trade

\* CMSG_CANCEL_TRADE, CMSG_BUSY_TRADE, CMSG_IGNORE_TRADE and a taxi flight
TradeCancel(p) ==
    /\ Trading(p)
    /\ trade' = Cancelled(p)
    /\ UNCHANGED <<own, saved, online>>

---------------------------------------------------------------------------
(* WorldSession::HandleAcceptTradeOpcode, one action for every way out.    *)

\* the packet, about the offer its client saw, and SetAccepted(true)
Accepting(p, seen) ==
    LET t == SetAccepted(trade, p, TRUE)
    IN  [t EXCEPT ![p].agreed = seen]

\* the index in the packet is the one the trader's TradeData has now
InTime(p, seen) == seen \in trade[Trader(p)].sent

HasEnoughMoney(p) == own[p].gold >= trade[p].money
CanTakeMoney(p) == own[p].gold <= MaxMoney - trade[Trader(p)].money

MoneyRight(p) ==
    \A r \in {p, Trader(p)} : HasEnoughMoney(r) /\ CanTakeMoney(r)

\* the trader's items are not asked whom they are bound to (337-342)
ItemsRight(p) ==
    /\ \A x \in GetItems(trade, p) :
           CanBeTraded(p, x) /\ ~IsBindedNotWith(p, x, Trader(p))
    /\ \A x \in GetItems(trade, Trader(p)) : CanBeTraded(Trader(p), x)

\* the index is stale, or the trader is too far away
AcceptRefused(p) ==
    /\ Trading(p)
    /\ trade' = SetAccepted(trade, p, FALSE)
    /\ UNCHANGED <<own, saved, online>>

\* whose acceptance is withdrawn for his or the other's money
AcceptNoMoney(p, seen) ==
    /\ Trading(p)
    /\ InTime(p, seen)
    /\ ~MoneyRight(p)
    /\ LET q == Trader(p)
           mine == \/ ~HasEnoughMoney(p)
                   \/ HasEnoughMoney(q) /\ ~CanTakeMoney(p)
       IN  trade' = SetAccepted(Accepting(p, seen), IF mine THEN p ELSE q, FALSE)
    /\ UNCHANGED <<own, saved, online>>

\* an item that cannot be traded any more: only a status is sent, and the
\* acceptance stays; the partner has not accepted: he is told
AcceptNotYet(p, seen) ==
    /\ Trading(p)
    /\ InTime(p, seen)
    /\ MoneyRight(p)
    /\ ItemsRight(p) => ~trade[Trader(p)].accepted
    /\ trade' = Accepting(p, seen)
    /\ UNCHANGED <<own, saved, online>>

BothAccept(p, seen) ==
    /\ Trading(p)
    /\ InTime(p, seen)
    /\ MoneyRight(p)
    /\ ItemsRight(p)
    /\ trade[Trader(p)].accepted

\* p's spell still has the item it is aimed at (CheckCast may fail as well)
SpellHasTarget(p) ==
    trade[p].spell => GetItem(trade, Trader(p), Nontraded) # None

\* a spell of p or, when p's own can be cast, of his trader cannot be cast
AcceptNoSpell(p, seen, r) ==
    /\ BothAccept(p, seen)
    /\ r \in {p, Trader(p)}
    /\ trade[r].spell
    /\ r # p => SpellHasTarget(p)
    /\ trade' = SetSpell(Accepting(p, seen), r, FALSE)
    /\ UNCHANGED <<own, saved, online>>

\* Player::CanStoreItems, with the own offered items marked as in trade
CanStoreItems(p) ==
    Cardinality((own[p].items \ GetItems(trade, p)) \cup GetItems(trade, Trader(p)))
        <= Room

AcceptNoRoom(p, seen) ==
    /\ BothAccept(p, seen)
    /\ SpellHasTarget(p) /\ SpellHasTarget(Trader(p))
    /\ ~(CanStoreItems(p) /\ CanStoreItems(Trader(p)))
    /\ trade' = SetAccepted(SetAccepted(Accepting(p, seen), p, FALSE),
                            Trader(p), FALSE)
    /\ UNCHANGED <<own, saved, online>>

CanStoreItem(b, p, x) == x # None => Cardinality(b[p]) < Room
StoreItem(b, p, x) == IF x = None THEN b ELSE [b EXCEPT ![p] = @ \cup {x}]
TakeBack(b, p, x) == IF CanStoreItem(b, p, x) THEN StoreItem(b, p, x) ELSE b

\* one slot of WorldSession::moveItems: x goes from p to q and y from q to p,
\* or, when one of them does not fit, both go back
MoveSlot(b, p, q, x, y) ==
    IF CanStoreItem(b, q, x) /\ CanStoreItem(b, p, y)
    THEN StoreItem(StoreItem(b, q, x), p, y)
    ELSE TakeBack(TakeBack(b, p, x), q, y)

\* the bags after the offered items are taken out and moveItems is done
MoveItems(p, q) ==
    LET Removed == [r \in Players |->
            IF r \in {p, q} THEN own[r].items \ GetItems(trade, r)
            ELSE own[r].items]
        Moved[n \in 0 .. Slots] ==
            IF n = 0 THEN Removed
            ELSE MoveSlot(Moved[n - 1], p, q,
                          GetItem(trade, p, n), GetItem(trade, q, n))
    IN  Moved[Slots]

\* Player::ModifyMoney
ModifyMoney(gold, amount) ==
    IF amount < 0 THEN (IF gold > -amount THEN gold + amount ELSE 0)
    ELSE IF gold <= MaxMoney - amount THEN gold + amount ELSE gold

PayAndTake(p) ==
    ModifyMoney(ModifyMoney(own[p].gold, -trade[p].money), trade[Trader(p)].money)

\* Player::SaveInventoryAndGoldToDB of several players in one transaction: an
\* item is one row, which its new owner's save replaces
SaveInventoryAndGoldToDB(had, ps) ==
    [r \in Players |->
        IF r \in ps THEN had[r]
        ELSE [saved[r] EXCEPT !.items = @ \ UNION {had[s].items : s \in ps}]]

\* (mutant) the trader is left to his next periodic save
MutSavedWith(p) == {p}

\* who is in the transaction at the end of the handler
SavedWith(p) == {p, Trader(p)}

AcceptTrade(p, seen) ==
    /\ BothAccept(p, seen)
    /\ SpellHasTarget(p) /\ SpellHasTarget(Trader(p))
    /\ CanStoreItems(p) /\ CanStoreItems(Trader(p))
    /\ LET q == Trader(p)
           bags == MoveItems(p, q)
       IN  own' = [own EXCEPT
               ![p].items = bags[p], ![p].gold = PayAndTake(p),
               ![q].items = bags[q], ![q].gold = PayAndTake(q)]
    /\ trade' = Cancelled(p)
    /\ saved' = SaveInventoryAndGoldToDB(own', SavedWith(p))
    /\ UNCHANGED online

---------------------------------------------------------------------------
(* What else happens to the players while a trade is open.                 *)

\* gold spent at a vendor, on postage, ...
Spend(p) ==
    /\ p \in online \cap Spenders
    /\ own[p].gold > 0
    /\ own' = [own EXCEPT ![p].gold = @ - 1, ![p].spent = @ + 1]
    /\ UNCHANGED <<trade, saved, online>>

\* an item is sold, mailed or stored away, and bought or taken back
PutAway(p, x) ==
    /\ p \in online
    /\ x \in own[p].items \cap Loose
    /\ own' = [own EXCEPT ![p].items = @ \ {x}, ![p].away = @ \cup {x}]
    /\ UNCHANGED <<trade, saved, online>>

GetBack(p, x) ==
    /\ p \in online
    /\ x \in own[p].away
    /\ Cardinality(own[p].items) < Room
    /\ own' = [own EXCEPT ![p].items = @ \cup {x}, ![p].away = @ \ {x}]
    /\ UNCHANGED <<trade, saved, online>>

\* an item becomes soulbound
Bind(p, x) ==
    /\ p \in online
    /\ x \in (own[p].items \cap Loose) \ own[p].bound
    /\ own' = [own EXCEPT ![p].bound = @ \cup {x}]
    /\ UNCHANGED <<trade, saved, online>>

\* the periodic Player::SaveToDB
SaveToDB(p) ==
    /\ p \in online
    /\ saved' = SaveInventoryAndGoldToDB(own, {p})
    /\ UNCHANGED <<trade, own, online>>

\* WorldSession::LogoutPlayer: saved, and CleanupsBeforeDelete ends the trade
LogoutPlayer(p) ==
    /\ p \in online
    /\ saved' = SaveInventoryAndGoldToDB(own, {p})
    /\ trade' = Cancelled(p)
    /\ online' = online \ {p}
    /\ UNCHANGED own

Login(p) ==
    /\ p \notin online
    /\ own' = [own EXCEPT ![p] = saved[p]]
    /\ online' = online \cup {p}
    /\ UNCHANGED <<trade, saved>>

\* the server dies: what is in the database is all that is left
Crash ==
    /\ trade' = [p \in Players |-> NoTrade]
    /\ own' = saved
    /\ online' = {}
    /\ UNCHANGED saved

\* the updates of his trader's offer that p's client may be showing
Seen(p) == IF Trading(p) THEN trade[Trader(p)].sent ELSE {}

Next ==
    \/ \E p, q \in Players : InitiateTrade(p, q)
    \/ \E p \in Players :
        \/ \E money \in 0 .. MaxMoney : SetTradeGold(p, money)
        \/ \E s \in AllSlots, x \in Items : SetTradeItem(p, s, x)
        \/ \E s \in AllSlots : ClearTradeItem(p, s) \/ SetCount(p, s)
        \/ CastOnTradeItem(p)
        \/ UnacceptTrade(p)
        \/ TradeCancel(p)
        \/ AcceptRefused(p)
        \/ \E seen \in Seen(p) :
            \/ AcceptNoMoney(p, seen)
            \/ AcceptNotYet(p, seen)
            \/ \E r \in Players : AcceptNoSpell(p, seen, r)
            \/ AcceptNoRoom(p, seen)
            \/ AcceptTrade(p, seen)
        \/ Spend(p)
        \/ \E x \in Items : PutAway(p, x) \/ GetBack(p, x) \/ Bind(p, x)
        \/ SaveToDB(p)
        \/ LogoutPlayer(p)
        \/ Login(p)
    \/ Crash

Spec == Init /\ [][Next]_vars

---------------------------------------------------------------------------
(* Properties.                                                             *)

(* The raw pointers are safe: the trader a TradeData names is in the world *)
(* and his own TradeData names the owner back, however trades are begun,   *)
(* cancelled and cut short by logging out.                                 *)
TradesPaired ==
    \A p \in Players : Trading(p) =>
        /\ p \in online /\ Trader(p) \in online
        /\ Trader(p) # p
        /\ Trading(Trader(p)) /\ Trader(Trader(p)) = p

InWindow(d) == {d.items[s] : s \in TradedSlots}

(* An acceptance is about what is on offer now: while it stands, the gold  *)
(* is what the accept packet's client was showing, and every item it       *)
(* showed is still in the window, whoever has changed what since.          *)
AcceptedIsCurrent ==
    \A p \in Players : Trading(p) => (trade[p].accepted =>
        /\ trade[p].agreed.money = trade[Trader(p)].money
        /\ trade[p].agreed.items \subseteq InWindow(trade[Trader(p)]))

Sum(f) == MapThenSumSet(LAMBDA p : f[p], DOMAIN f)

(* What a set of belongings adds up to.                                    *)
Complete(b) ==
    /\ Sum([p \in Players |-> b[p].gold + b[p].spent]) = Sum(InitGold)
    /\ \A x \in Items :
        (\E p \in Players : x \in InitItems[p]) =>
            Cardinality({p \in Players : x \in b[p].items}) +
            Cardinality({p \in Players : x \in b[p].away}) = 1

(* Trading neither makes nor loses gold or items, in the world and in what *)
(* a restart finds in the database whenever the server dies.               *)
NothingMadeOrLost == Complete(own) /\ Complete(saved)

(* The exchange between r and o as o had shown his part in "offer": the    *)
(* gold in full; every item shown, unless it is one that could have left   *)
(* o's bags meanwhile and has; and nothing else of o's but what he put     *)
(* into the trade window, is free to give and r is allowed to have.        *)
AsShown(r, o, offer) ==
    /\ offer.money = trade[o].money
    /\ offer.items \ (Loose \ own[o].items) \subseteq own'[r].items
    /\ \A x \in own'[r].items \cap own[o].items :
           x \in InWindow(trade[o]) /\ x \notin own[o].bound /\ r \in Allowed[x]

Exchange(p, q) ==
    /\ Trading(p) /\ Trader(p) = q
    /\ trade'[p] = NoTrade
    /\ \/ own'[p] # own[p]
       \/ own'[q] # own[q]

(* An exchange pays what was shown in full and moves no item that was not  *)
(* shown, that is bound, or that the other may not have, however long the  *)
(* accept packets took and whatever either side changed in between.  Of    *)
(* the items shown it moves all but those that their owner has sold,       *)
(* mailed or stored away since: those may be missing, see EveryItemPasses. *)
(* (A crash, which leaves nobody online, is no exchange.)                  *)
ExchangeOfWhatIsLeft ==
    [][\A p, q \in Players : Exchange(p, q) /\ online' # {} =>
        /\ own'[p].gold = own[p].gold - trade[p].money + trade[q].money
        /\ trade[p].accepted => AsShown(p, q, trade[p].agreed)
        /\ \A seen \in trade[q].sent : AsShown(p, q, seen)]_vars

(* What TradeHandler.cpp:308 says the accept handler refuses: "not accept  *)
(* if some items now can't be trade".  Every item that was shown passes;   *)
(* the code looks only at the items that are still there, and one that is  *)
(* not is left out of the exchange, which the other pays for in full.      *)
EveryItemPasses ==
    [][\A p, q \in Players : Exchange(p, q) /\ online' # {} =>
        \A seen \in trade[q].sent : seen.items \subseteq own'[p].items]_vars
=============================================================================
