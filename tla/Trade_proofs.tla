---------------------------- MODULE Trade_proofs ----------------------------
(***************************************************************************)
(* For any number of players, items and slots: the pointers between the    *)
(* two TradeData of a trade are safe, a standing acceptance is about the   *)
(* offer that is on the table, an exchange is of what both sides saw but   *)
(* for items that have left since, and nothing is made or lost, in the     *)
(* world or in the database.                                               *)
(*                                                                         *)
(* Three strengthenings.  Inv ties an accept packet to the offer: whatever *)
(* the partner's client was sent under the current server state index is   *)
(* the current offer, and no item is offered twice.  Balanced keeps the    *)
(* accounts: the database agrees with the world on what each player is     *)
(* worth and on whose every item is, so that a crash, or a save of one     *)
(* player alone, finds everything in one place.  Offered says where an     *)
(* item in a window is: still with its owner, unless it may leave outside  *)
(* trades, and with a trader who may have it.                              *)
(*                                                                         *)
(* Sums over the players and the slots moved one after the other are       *)
(* recursive functions; what they compute is proved by well-founded        *)
(* induction, on the subsets of a finite set and on the numbers up to n.   *)
(***************************************************************************)
EXTENDS Trade, FiniteSetTheorems, WellFoundedInduction, TLAPS

\* From t to u no trade is opened and nothing is put into a window.
OffersKept(t, u) ==
    \A r \in Players : u[r] # NoTrade =>
        /\ t[r] # NoTrade /\ u[r].trader = t[r].trader
        /\ \A s \in AllSlots : u[r].items[s] \in {t[r].items[s], None}

\* The types of all TradeData, and their pointers.
Linked(t) ==
    /\ t \in [Players -> TradeDatas \cup {NoTrade}]
    /\ \A p \in Players : t[p] # NoTrade =>
        /\ p \in online /\ t[p].trader \in online
        /\ t[p].trader # p
        /\ t[t[p].trader] # NoTrade /\ t[t[p].trader].trader = p

\* An offer a client was shown is the one in the TradeData d.
Shows(offer, d) == offer.money = d.money /\ offer.items \subseteq InWindow(d)

\* What was sent under the current index, and what was accepted, is current.
Current(t) ==
    \A p \in Players : t[p] # NoTrade =>
        /\ \A offer \in t[p].sent : Shows(offer, t[p])
        /\ t[p].accepted => Shows(t[p].agreed, t[t[p].trader])

\* No item is offered in two slots: with ~HasItem, HandleSetTradeItemOpcode sees to it.
OneEach(items) == \A s, u \in AllSlots : items[s] = items[u] => s = u \/ items[s] = None
OneSlot(t) == \A p \in Players : t[p] # NoTrade => OneEach(t[p].items)

Sound(t) == Linked(t) /\ Current(t) /\ OneSlot(t)

Inv == online \subseteq Players /\ Sound(trade)

\* A player who trades has a full TradeData.
LEMMA TradeDataType ==
    ASSUME NEW t, NEW p \in Players, t \in [Players -> TradeDatas \cup {NoTrade}], t[p] # NoTrade
    PROVE  t[p] \in TradeDatas
  OBVIOUS

\* NoTrade has no trader among the players.
LEMMA NoTradeApart ==
    ASSUME NEW d \in TradeDatas
    PROVE  d # NoTrade /\ d.trader \in Players
  BY TradeAssumption DEF TradeDatas, NoTrade

\* Withdrawing an acceptance leaves a TradeData.
LEMMA NoOfferType == NoOffer \in Offers
  BY TradeAssumption DEF NoOffer, Offers

\* An offer made from a TradeData shows it.
LEMMA OfferShows ==
    ASSUME NEW t, NEW p \in Players, t[p] \in TradeDatas
    PROVE  LET offer == [items |-> GetItems(t, p), money |-> t[p].money]
           IN  offer \in Offers /\ Shows(offer, t[p])
<1>1. GetItems(t, p) \subseteq InWindow(t[p])
  BY DEF GetItems, GetItem, InWindow
<1>2. GetItems(t, p) \subseteq Items
  BY DEF GetItems, GetItem, TradeDatas, AllSlots
<1>3. t[p].money \in 0 .. MaxMoney
  BY DEF TradeDatas
<1> QED
  BY <1>1, <1>2, <1>3 DEF Shows, Offers

\* What TradeData::Set... do to the TradeData of the two sides once the field
\* itself is set: withdraw both acceptances, draw a new index, send the offer.
LEMMA ChangedSides ==
    ASSUME NEW t, t \in [Players -> TradeDatas \cup {NoTrade}],
           NEW p \in Players, NEW q \in Players, p # q,
           t[p] \in TradeDatas, t[q] \in TradeDatas, t[p].trader = q
    PROVE  LET u == Update(Changed(t, p), p)
               offer == [items |-> GetItems(t, p), money |-> t[p].money]
           IN  u = [t EXCEPT ![p] = [t[p] EXCEPT !.accepted = FALSE, !.agreed = NoOffer, !.sent = {offer}],
                             ![q] = [t[q] EXCEPT !.accepted = FALSE, !.agreed = NoOffer]]
<1> DEFINE c == Changed(t, p)
<1> DEFINE offer == [items |-> GetItems(t, p), money |-> t[p].money]
<1> DEFINE mine == [t[p] EXCEPT !.accepted = FALSE, !.agreed = NoOffer]
<1> DEFINE his == [t[q] EXCEPT !.accepted = FALSE, !.agreed = NoOffer]
<1>1. mine \in TradeDatas /\ his \in TradeDatas
  BY NoOfferType DEF TradeDatas
<1>2. c = [t EXCEPT ![p] = [mine EXCEPT !.sent = {}], ![q] = his]
  BY DEF Changed, UpdateServerStateIndex, SetAccepted
<1>3. c[p] = [mine EXCEPT !.sent = {}] /\ c[q] = his
  BY <1>2
<1>4. c[p].sent = {} /\ c[p].money = t[p].money /\ c[p].items = t[p].items
  BY <1>1, <1>3 DEF TradeDatas
<1>5. GetItems(c, p) = GetItems(t, p)
  BY <1>4 DEF GetItems, GetItem
<1>6. Update(c, p) = [c EXCEPT ![p] = [c[p] EXCEPT !.sent = {offer}]]
  BY <1>4, <1>5 DEF Update
<1>7. [c[p] EXCEPT !.sent = {offer}] = [t[p] EXCEPT !.accepted = FALSE, !.agreed = NoOffer, !.sent = {offer}]
  BY <1>1, <1>3 DEF TradeDatas
<1>8. Update(c, p) = [t EXCEPT ![p] = [t[p] EXCEPT !.accepted = FALSE, !.agreed = NoOffer, !.sent = {offer}], ![q] = his]
  BY <1>2, <1>6, <1>7
<1> QED
  BY <1>8

\* The two sides of a trade.
LEMMA TwoSides ==
    ASSUME NEW t, Linked(t), online \subseteq Players, NEW p \in Players, t[p] # NoTrade
    PROVE  LET q == t[p].trader
           IN  /\ q \in Players /\ q # p /\ q \in online /\ p \in online
               /\ t[p] \in TradeDatas /\ t[q] \in TradeDatas
               /\ t[q].trader = p
  BY NoTradeApart DEF Linked

\* Whatever field of his TradeData a player changes, the change leaves sound
\* trades behind once acceptances, index and update are done.
LEMMA NewOffer ==
    ASSUME NEW t, Sound(t), online \subseteq Players,
           NEW p \in Players, t[p] # NoTrade,
           NEW d \in TradeDatas, d.trader = t[p].trader, OneEach(d.items)
    PROVE  LET v == Update(Changed([t EXCEPT ![p] = d], p), p)
           IN  /\ Sound(v) /\ v[p] # NoTrade /\ v[p].trader = t[p].trader
               /\ OffersKept([t EXCEPT ![p] = d], v)
<1> DEFINE q == t[p].trader
<1> DEFINE u == [t EXCEPT ![p] = d]
<1> DEFINE v == Update(Changed(u, p), p)
<1> DEFINE offer == [items |-> GetItems(u, p), money |-> u[p].money]
<1> DEFINE mine == [d EXCEPT !.accepted = FALSE, !.agreed = NoOffer, !.sent = {offer}]
<1> DEFINE his == [t[q] EXCEPT !.accepted = FALSE, !.agreed = NoOffer]
<1>1. /\ q \in Players /\ q # p /\ q \in online /\ p \in online
      /\ t[p] \in TradeDatas /\ t[q] \in TradeDatas
      /\ t[q].trader = p
  BY TwoSides DEF Sound
<1>2. t \in [Players -> TradeDatas \cup {NoTrade}]
  BY DEF Sound, Linked
<1>3. u \in [Players -> TradeDatas \cup {NoTrade}] /\ u[p] = d /\ u[q] = t[q]
  BY <1>1, <1>2
<1>4. v = [u EXCEPT ![p] = mine, ![q] = his]
  BY <1>1, <1>3, ChangedSides
<1>5. offer \in Offers /\ Shows(offer, d)
  BY <1>3, OfferShows
<1>6. /\ mine \in TradeDatas /\ mine.trader = q /\ ~mine.accepted
      /\ mine.sent = {offer} /\ mine.money = d.money /\ mine.items = d.items
  BY <1>5, NoOfferType DEF TradeDatas
<1>7. /\ his \in TradeDatas /\ his.trader = p /\ ~his.accepted
      /\ his.sent = t[q].sent /\ his.money = t[q].money /\ his.items = t[q].items
  BY <1>1, NoOfferType DEF TradeDatas
<1> HIDE DEF offer, mine, his, v
<1>8. /\ v \in [Players -> TradeDatas \cup {NoTrade}]
      /\ v[p] = mine /\ v[q] = his
      /\ \A r \in Players \ {p, q} : v[r] = t[r]
  BY <1>1, <1>2, <1>3, <1>4, <1>6, <1>7
<1>16. OffersKept(u, v)
  <2>1. d # NoTrade /\ t[q] # NoTrade
    BY <1>1, NoTradeApart
  <2>2. \A r \in Players \ {p, q} : u[r] = t[r]
    OBVIOUS
  <2> HIDE DEF u
  <2> QED
    BY <1>1, <1>3, <1>6, <1>7, <1>8, <2>1, <2>2 DEF OffersKept
<1> HIDE DEF u
<1>9. mine # NoTrade /\ his # NoTrade
  BY <1>6, <1>7, NoTradeApart
<1>10. \A r \in Players \ {p, q} : t[r] # NoTrade => t[r].trader \in Players \ {p, q}
  <2> SUFFICES ASSUME NEW r \in Players \ {p, q}, t[r] # NoTrade
               PROVE  t[r].trader \in Players \ {p, q}
    OBVIOUS
  <2>1. t[r].trader \in Players /\ t[t[r].trader].trader = r
    BY TwoSides DEF Sound
  <2> QED
    BY <1>1, <2>1
<1>11. Linked(v)
  <2>1. ASSUME NEW r \in Players \ {p, q}, v[r] # NoTrade
        PROVE  /\ r \in online /\ v[r].trader \in online
               /\ v[r].trader # r
               /\ v[v[r].trader] # NoTrade /\ v[v[r].trader].trader = r
    BY <2>1, <1>8, <1>10 DEF Sound, Linked
  <2> QED
    BY <1>1, <1>6, <1>7, <1>8, <1>9, <2>1 DEF Linked
<1>12. \A o : Shows(o, t[q]) => Shows(o, his)
  BY <1>7 DEF Shows, InWindow
<1>13. Shows(offer, mine)
  BY <1>5, <1>6 DEF Shows, InWindow
<1>14. Current(v)
  <2>1. ASSUME NEW r \in Players \ {p, q}, v[r] # NoTrade
        PROVE  /\ \A o \in v[r].sent : Shows(o, v[r])
               /\ v[r].accepted => Shows(v[r].agreed, v[v[r].trader])
    BY <2>1, <1>8, <1>10 DEF Sound, Current
  <2>2. t[q] # NoTrade
    BY <1>1, NoTradeApart
  <2>3. \A o \in his.sent : Shows(o, his)
    BY <1>1, <1>7, <1>12, <2>2 DEF Sound, Current
  <2>4. \A o \in mine.sent : Shows(o, mine)
    BY <1>6, <1>13
  <2> QED
    BY <1>6, <1>7, <1>8, <2>1, <2>3, <2>4 DEF Current
<1>15. OneSlot(v)
  <2>1. t[q] # NoTrade
    BY <1>1, NoTradeApart
  <2>2. OneEach(mine.items) /\ OneEach(his.items)
    BY <1>1, <1>6, <1>7, <2>1 DEF Sound, OneSlot
  <2> QED
    BY <1>8, <2>2 DEF Sound, OneSlot
<1> QED
  BY <1>6, <1>8, <1>9, <1>11, <1>14, <1>15, <1>16 DEF Sound, v, u

\* A field other than the items of one TradeData changes.
LEMMA ChangedField ==
    ASSUME NEW t, Sound(t), NEW p \in Players, t[p] # NoTrade, NEW d \in TradeDatas,
           d.trader = t[p].trader, d.items = t[p].items,
           NEW v, OffersKept([t EXCEPT ![p] = d], v)
    PROVE  OffersKept(t, v)
<1>1. [t EXCEPT ![p] = d][p] = d /\ \A r \in Players \ {p} : [t EXCEPT ![p] = d][r] = t[r]
  BY DEF Sound, Linked
<1> QED
  BY <1>1 DEF OffersKept

\* SetSpell, SetItem and SetMoney keep the trades sound, and but for the slot that SetItem
\* sets the items in the windows.
LEMMA SetSpellSound ==
    ASSUME NEW t, Sound(t), online \subseteq Players,
           NEW p \in Players, t[p] # NoTrade, NEW spell \in BOOLEAN
    PROVE  LET v == SetSpell(t, p, spell)
           IN  /\ Sound(v) /\ v[p] # NoTrade /\ v[p].trader = t[p].trader
               /\ OffersKept(t, v)
<1> DEFINE d == [t[p] EXCEPT !.spell = spell]
<1>1. t[p] \in TradeDatas
  BY TwoSides DEF Sound
<1>2. d \in TradeDatas /\ d.trader = t[p].trader /\ OneEach(d.items)
  BY <1>1 DEF TradeDatas, Sound, OneSlot
<1>3. [t EXCEPT ![p].spell = spell] = [t EXCEPT ![p] = d]
  OBVIOUS
<1> DEFINE v == Update(Changed([t EXCEPT ![p] = d], p), p)
<1>4. Sound(v) /\ v[p] # NoTrade /\ v[p].trader = t[p].trader /\ OffersKept([t EXCEPT ![p] = d], v)
  BY <1>2, NewOffer
<1>5. OffersKept(t, v) /\ OffersKept(t, t)
  <2>1. OffersKept(t, t)
    BY DEF OffersKept
  <2>2. d.items = t[p].items
    BY <1>1 DEF TradeDatas
  <2> HIDE DEF d, v
  <2>3. OffersKept(t, v)
    BY <1>2, <1>4, <2>2, ChangedField
  <2> QED
    BY <2>1, <2>3
<1> HIDE DEF v
<1> QED
  BY <1>3, <1>4, <1>5 DEF SetSpell, v

\* SetMoney leaves a sound trade.
LEMMA SetMoneySound ==
    ASSUME NEW t, Sound(t), online \subseteq Players,
           NEW p \in Players, t[p] # NoTrade, NEW money \in 0 .. MaxMoney
    PROVE  Sound(SetMoney(t, p, money)) /\ OffersKept(t, SetMoney(t, p, money))
<1> DEFINE d == [t[p] EXCEPT !.money = money]
<1>1. t[p] \in TradeDatas
  BY TwoSides DEF Sound
<1>2. d \in TradeDatas /\ d.trader = t[p].trader /\ OneEach(d.items)
  BY <1>1 DEF TradeDatas, Sound, OneSlot
<1>3. [t EXCEPT ![p].money = money] = [t EXCEPT ![p] = d]
  OBVIOUS
<1> DEFINE v == Update(Changed([t EXCEPT ![p] = d], p), p)
<1>4. Sound(v) /\ OffersKept([t EXCEPT ![p] = d], v)
  BY <1>2, NewOffer
<1>5. OffersKept(t, v) /\ OffersKept(t, t)
  <2>1. OffersKept(t, t)
    BY DEF OffersKept
  <2>2. d.items = t[p].items
    BY <1>1 DEF TradeDatas
  <2> HIDE DEF d, v
  <2>3. OffersKept(t, v)
    BY <1>2, <1>4, <2>2, ChangedField
  <2> QED
    BY <2>1, <2>3
<1> HIDE DEF v
<1> QED
  BY <1>3, <1>4, <1>5 DEF SetMoney, v

\* SetItem leaves a sound trade.
LEMMA SetItemSound ==
    ASSUME NEW t, Sound(t), online \subseteq Players,
           NEW p \in Players, t[p] # NoTrade,
           NEW s \in AllSlots, NEW item \in Items \cup {None}, NEW update \in BOOLEAN,
           item = None \/ \A u \in AllSlots \ {s} : t[p].items[u] # item
    PROVE  /\ Sound(SetItem(t, p, s, item, update))
           /\ OffersKept([t EXCEPT ![p].items[s] = item], SetItem(t, p, s, item, update))
<1> DEFINE d == [t[p] EXCEPT !.items = [@ EXCEPT ![s] = item]]
<1> DEFINE u == Update(Changed([t EXCEPT ![p] = d], p), p)
<1> DEFINE v == IF s = Nontraded THEN SetSpell(u, u[p].trader, FALSE) ELSE u
<1>1. t[p] \in TradeDatas
  BY TwoSides DEF Sound
<1>2. d \in TradeDatas /\ d.trader = t[p].trader /\ OneEach(d.items)
  <2>1. d \in TradeDatas /\ d.trader = t[p].trader /\ t[p].items \in [AllSlots -> Items \cup {None}]
    BY <1>1 DEF TradeDatas
  <2>2. d.items = [t[p].items EXCEPT ![s] = item]
    BY <1>1 DEF TradeDatas
  <2>3. OneEach(t[p].items)
    BY DEF Sound, OneSlot
  <2> QED
    BY <2>1, <2>2, <2>3 DEF OneEach
<1>3. [t EXCEPT ![p].items[s] = item] = [t EXCEPT ![p] = d]
  OBVIOUS
<1>4. Sound(u) /\ u[p] # NoTrade /\ u[p].trader = t[p].trader /\ OffersKept([t EXCEPT ![p] = d], u)
  BY <1>2, NewOffer
<1> HIDE DEF u
<1>5. /\ u[p].trader \in Players /\ u[u[p].trader] # NoTrade
      /\ u[u[p].trader].trader = p
  BY <1>4, TwoSides, NoTradeApart DEF Sound
<1>6. Sound(v) /\ v[p] # NoTrade /\ OffersKept(u, v)
  <2>1. CASE s = Nontraded
    <3> DEFINE w == SetSpell(u, u[p].trader, FALSE)
    <3>1. /\ Sound(w) /\ w[u[p].trader] # NoTrade /\ w[u[p].trader].trader = p
          /\ OffersKept(u, w)
      BY <1>4, <1>5, SetSpellSound
    <3> HIDE DEF w
    <3>2. w[p] # NoTrade
      BY <1>5, <3>1 DEF Sound, Linked
    <3> QED
      BY <2>1, <3>1, <3>2 DEF w
  <2>2. OffersKept(u, u)
    BY DEF OffersKept
  <2> QED
    BY <1>4, <2>1, <2>2
<1> HIDE DEF v
<1>7. Sound(SetSpell(v, p, FALSE)) /\ OffersKept(v, SetSpell(v, p, FALSE))
  BY <1>6, SetSpellSound
<1>9. OffersKept([t EXCEPT ![p] = d], SetSpell(v, p, FALSE))
  BY <1>4, <1>6, <1>7 DEF OffersKept
<1>10. t[p].items[s] = item => OffersKept([t EXCEPT ![p] = d], t)
  <2> SUFFICES ASSUME t[p].items[s] = item PROVE OffersKept([t EXCEPT ![p] = d], t)
    OBVIOUS
  <2>1. d = t[p]
    BY <1>1 DEF TradeDatas
  <2>2. [t EXCEPT ![p] = d] = t
    BY <2>1 DEF Sound, Linked
  <2> QED
    BY <2>2 DEF OffersKept
<1>8. SetItem(t, p, s, item, update) = IF t[p].items[s] = item /\ ~update THEN t ELSE SetSpell(v, p, FALSE)
  BY <1>3 DEF SetItem, u, v
<1> QED
  BY <1>3, <1>7, <1>8, <1>9, <1>10

\* Accepting sets the acceptance to an offer that is current.
LEMMA AcceptingSound ==
    ASSUME Inv, NEW p \in Players, Trading(p), NEW seen, InTime(p, seen)
    PROVE  /\ Sound(Accepting(p, seen)) /\ OffersKept(trade, Accepting(p, seen))
           /\ \A r \in Players : Trading(r) =>
                 Accepting(p, seen)[r] # NoTrade /\ Accepting(p, seen)[r].trader = Trader(r)
<1> DEFINE q == trade[p].trader
<1> DEFINE d == [trade[p] EXCEPT !.accepted = TRUE, !.agreed = seen]
<1> DEFINE v == Accepting(p, seen)
<1>1. /\ q \in Players /\ q # p /\ q \in online /\ p \in online
      /\ trade[p] \in TradeDatas /\ trade[q] \in TradeDatas
      /\ trade[q].trader = p
  BY TwoSides DEF Inv, Sound, Trading
<1>2. trade \in [Players -> TradeDatas \cup {NoTrade}]
  BY DEF Inv, Sound, Linked
<1>3. v = [trade EXCEPT ![p] = d]
  BY <1>1, <1>2 DEF Accepting, SetAccepted
<1>4. seen \in trade[q].sent /\ trade[q] # NoTrade
  BY <1>1, NoTradeApart DEF InTime, Trader
<1>5. seen \in Offers /\ Shows(seen, trade[q])
  BY <1>1, <1>4 DEF Inv, Sound, Current, TradeDatas
<1>6. /\ d \in TradeDatas /\ d.trader = q /\ d.agreed = seen
      /\ d.sent = trade[p].sent /\ d.money = trade[p].money /\ d.items = trade[p].items
  BY <1>1, <1>5 DEF TradeDatas
<1> HIDE DEF d, v
<1>7. /\ v \in [Players -> TradeDatas \cup {NoTrade}]
      /\ v[p] = d
      /\ \A r \in Players \ {p} : v[r] = trade[r]
      /\ d # NoTrade
  BY <1>2, <1>3, <1>6, NoTradeApart
<1>8. \A r \in Players : (v[r] # NoTrade <=> trade[r] # NoTrade) /\ v[r].trader = trade[r].trader
  BY <1>6, <1>7 DEF Trading
<1>9. Linked(v)
  BY <1>7, <1>8 DEF Inv, Sound, Linked
<1>10. \A o : Shows(o, trade[p]) => Shows(o, d)
  BY <1>6 DEF Shows, InWindow
<1>11. \A r \in Players : \A o : Shows(o, trade[r]) => Shows(o, v[r])
  BY <1>7, <1>10
<1>12. Current(v)
  <2>1. ASSUME NEW r \in Players \ {p}, v[r] # NoTrade
        PROVE  /\ \A o \in v[r].sent : Shows(o, v[r])
               /\ v[r].accepted => Shows(v[r].agreed, v[v[r].trader])
    <3>1. v[r] = trade[r] /\ trade[r] # NoTrade /\ trade[r].trader \in Players
      BY <2>1, <1>7, TwoSides DEF Inv, Sound
    <3> QED
      BY <3>1, <1>11 DEF Inv, Sound, Current
  <2>2. \A o \in d.sent : Shows(o, d)
    BY <1>6, <1>10 DEF Inv, Sound, Current, Trading
  <2>3. Shows(d.agreed, v[d.trader])
    BY <1>1, <1>5, <1>6, <1>7
  <2> QED
    BY <1>7, <2>1, <2>2, <2>3 DEF Current
<1>13. OneSlot(v)
  BY <1>6, <1>7, <1>8 DEF Inv, Sound, OneSlot
<1>14. OffersKept(trade, v)
  BY <1>6, <1>7, <1>8 DEF OffersKept
<1> QED
  BY <1>8, <1>9, <1>12, <1>13, <1>14 DEF Sound, v, Trading, Trader

\* Withdrawing an acceptance, and ending a trade, keep the rest sound.
LEMMA UnacceptSound ==
    ASSUME NEW t, Sound(t), online \subseteq Players, NEW p \in Players, t[p] # NoTrade
    PROVE  /\ Sound(SetAccepted(t, p, FALSE)) /\ OffersKept(t, SetAccepted(t, p, FALSE))
           /\ \A r \in Players : t[r] # NoTrade => SetAccepted(t, p, FALSE)[r] # NoTrade
<1> DEFINE d == [t[p] EXCEPT !.accepted = FALSE, !.agreed = NoOffer]
<1> DEFINE v == SetAccepted(t, p, FALSE)
<1>1. t[p] \in TradeDatas
  BY TwoSides DEF Sound
<1>2. t \in [Players -> TradeDatas \cup {NoTrade}]
  BY DEF Sound, Linked
<1>3. v = [t EXCEPT ![p] = d]
  BY DEF SetAccepted
<1>4. /\ d \in TradeDatas /\ d.trader = t[p].trader /\ ~d.accepted
      /\ d.sent = t[p].sent /\ d.money = t[p].money /\ d.items = t[p].items
  BY <1>1, NoOfferType DEF TradeDatas
<1> HIDE DEF d, v
<1>5. /\ v \in [Players -> TradeDatas \cup {NoTrade}]
      /\ v[p] = d
      /\ \A r \in Players \ {p} : v[r] = t[r]
      /\ d # NoTrade
  BY <1>2, <1>3, <1>4, NoTradeApart
<1>6. \A r \in Players : (v[r] # NoTrade <=> t[r] # NoTrade) /\ v[r].trader = t[r].trader
  BY <1>4, <1>5
<1>7. Linked(v)
  BY <1>5, <1>6 DEF Sound, Linked
<1>8. \A o : Shows(o, t[p]) => Shows(o, d)
  BY <1>4 DEF Shows, InWindow
<1>9. \A r \in Players : \A o : Shows(o, t[r]) => Shows(o, v[r])
  BY <1>5, <1>8
<1>10. Current(v)
  <2>1. ASSUME NEW r \in Players \ {p}, v[r] # NoTrade
        PROVE  /\ \A o \in v[r].sent : Shows(o, v[r])
               /\ v[r].accepted => Shows(v[r].agreed, v[v[r].trader])
    <3>1. v[r] = t[r] /\ t[r] # NoTrade /\ t[r].trader \in Players
      BY <2>1, <1>5, TwoSides DEF Sound
    <3> QED
      BY <3>1, <1>9 DEF Sound, Current
  <2>2. \A o \in d.sent : Shows(o, d)
    BY <1>4, <1>8 DEF Sound, Current
  <2> QED
    BY <1>4, <1>5, <2>1, <2>2 DEF Current
<1>11. OneSlot(v)
  BY <1>4, <1>5, <1>6 DEF Sound, OneSlot
<1>12. OffersKept(t, v)
  BY <1>4, <1>5, <1>6 DEF OffersKept
<1> QED
  BY <1>6, <1>7, <1>10, <1>11, <1>12 DEF Sound, v

\* A cancelled trade leaves a sound state.
LEMMA CancelledSound ==
    ASSUME Inv, NEW p \in Players
    PROVE  /\ Sound(Cancelled(p)) /\ OffersKept(trade, Cancelled(p))
           /\ Cancelled(p)[p] = NoTrade
           /\ \A r \in Players : Cancelled(p)[r] # NoTrade => Cancelled(p)[r].trader # p
<1> DEFINE q == trade[p].trader
<1> DEFINE v == Cancelled(p)
<1>1. CASE Trading(p)
  <2>1. /\ q \in Players /\ q # p /\ trade[q].trader = p
    BY <1>1, TwoSides DEF Inv, Sound, Trading
  <2>2. trade \in [Players -> TradeDatas \cup {NoTrade}]
    BY DEF Inv, Sound, Linked
  <2>3. v = [trade EXCEPT ![p] = NoTrade, ![q] = NoTrade]
    BY <1>1 DEF Cancelled, Trader
  <2> HIDE DEF v
  <2>4. /\ v \in [Players -> TradeDatas \cup {NoTrade}]
        /\ v[p] = NoTrade /\ v[q] = NoTrade
        /\ \A r \in Players \ {p, q} : v[r] = trade[r]
    BY <2>1, <2>2, <2>3
  <2>5. \A r \in Players : v[r] # NoTrade =>
            /\ r \in Players \ {p, q} /\ v[r] = trade[r]
            /\ v[r].trader \in Players \ {p, q}
    <3> SUFFICES ASSUME NEW r \in Players, v[r] # NoTrade
                 PROVE  /\ r \in Players \ {p, q} /\ v[r] = trade[r]
                        /\ v[r].trader \in Players \ {p, q}
      OBVIOUS
    <3>1. r \in Players \ {p, q} /\ v[r] = trade[r]
      BY <2>4
    <3>2. trade[r].trader \in Players /\ trade[trade[r].trader].trader = r
      BY <3>1, TwoSides DEF Inv, Sound
    <3> QED
      BY <2>1, <3>1, <3>2
  <2>6. Linked(v)
    BY <2>4, <2>5 DEF Inv, Sound, Linked
  <2>7. Current(v)
    BY <2>4, <2>5 DEF Inv, Sound, Current
  <2>8. OneSlot(v)
    BY <2>5 DEF Inv, Sound, OneSlot
  <2>9. OffersKept(trade, v)
    BY <2>5 DEF OffersKept
  <2> QED
    BY <2>4, <2>5, <2>6, <2>7, <2>8, <2>9 DEF Sound, v
<1>2. CASE ~Trading(p)
  <2>1. v = trade /\ trade[p] = NoTrade
    BY <1>2 DEF Cancelled, Trading
  <2>2. \A r \in Players : trade[r] # NoTrade => trade[r].trader # p
    BY <2>1 DEF Inv, Sound, Linked
  <2> QED
    BY <2>1, <2>2 DEF Inv, OffersKept
<1> QED
  BY <1>1, <1>2

\* Nobody trades at the start.
LEMMA InitInv == Init => Inv
  BY DEF Init, Inv, Sound, Linked, Current, OneSlot

\* Opening a trade between two players who have none.
LEMMA InitiateInv ==
    ASSUME Inv, NEW p \in Players, NEW q \in Players, InitiateTrade(p, q)
    PROVE  Inv'
<1>1. trade \in [Players -> TradeDatas \cup {NoTrade}]
  BY DEF Inv, Sound, Linked
<1>2. \A r \in Players :
        /\ NewTrade(r) \in TradeDatas /\ NewTrade(r).trader = r
        /\ ~NewTrade(r).accepted /\ NewTrade(r).sent = {NoOffer} /\ NewTrade(r).money = 0
        /\ Shows(NoOffer, NewTrade(r))
  BY TradeAssumption DEF NewTrade, TradeDatas, NoOffer, Offers, AllSlots, Shows
<1>3. \A r \in Players : NewTrade(r) # NoTrade
  BY <1>2, NoTradeApart
<1>4. /\ trade' \in [Players -> TradeDatas \cup {NoTrade}]
      /\ trade'[p] = NewTrade(q) /\ trade'[q] = NewTrade(p)
      /\ \A r \in Players \ {p, q} : trade'[r] = trade[r]
      /\ p # q /\ p \in online /\ q \in online /\ online' = online
      /\ trade[p] = NoTrade /\ trade[q] = NoTrade
  BY <1>1, <1>2 DEF InitiateTrade, Trading
<1>5. \A r \in Players \ {p, q} : trade[r] # NoTrade => trade[r].trader \in Players \ {p, q}
  BY <1>4, TwoSides, NoTradeApart DEF Inv, Sound
<1>6. Linked(trade)'
  <2>1. ASSUME NEW r \in Players \ {p, q}, trade'[r] # NoTrade
        PROVE  /\ r \in online' /\ trade'[r].trader \in online'
               /\ trade'[r].trader # r
               /\ trade'[trade'[r].trader] # NoTrade /\ trade'[trade'[r].trader].trader = r
    BY <2>1, <1>4, <1>5 DEF Inv, Sound, Linked
  <2>2. ASSUME NEW r \in {p, q}
        PROVE  /\ r \in online' /\ trade'[r].trader \in online'
               /\ trade'[r].trader # r
               /\ trade'[trade'[r].trader] # NoTrade /\ trade'[trade'[r].trader].trader = r
    BY <1>2, <1>3, <1>4
  <2> QED
    BY <1>4, <2>1, <2>2 DEF Linked
<1>7. Current(trade)'
  <2>1. ASSUME NEW r \in Players \ {p, q}, trade'[r] # NoTrade
        PROVE  /\ \A o \in trade'[r].sent : Shows(o, trade'[r])
               /\ trade'[r].accepted => Shows(trade'[r].agreed, trade'[trade'[r].trader])
    BY <2>1, <1>4, <1>5 DEF Inv, Sound, Current
  <2>2. ASSUME NEW r \in {p, q}
        PROVE  /\ \A o \in trade'[r].sent : Shows(o, trade'[r])
               /\ ~trade'[r].accepted
    BY <1>2, <1>4
  <2> QED
    BY <2>1, <2>2 DEF Current
<1>8. OneSlot(trade)'
  <2>1. \A r \in Players : OneEach(NewTrade(r).items)
    BY DEF NewTrade, OneEach
  <2> QED
    BY <1>4, <2>1 DEF Inv, Sound, OneSlot
<1> QED
  BY <1>4, <1>6, <1>7, <1>8 DEF Inv, Sound

\* A step that leaves the world as it is and makes the trades some sound t.
LEMMA SoundStep ==
    ASSUME Inv, NEW t, Sound(t), trade' = t, online' = online
    PROVE  Inv'
  BY DEF Inv, Sound, Linked, Current, OneSlot

\* Two such changes, one after the other.
LEMMA OffersKeptTwice ==
    ASSUME NEW t, NEW u, NEW v, OffersKept(t, u), OffersKept(u, v)
    PROVE  OffersKept(t, v)
  BY DEF OffersKept

\* The ways out of HandleAcceptTradeOpcode.
LEMMA AcceptInv ==
    ASSUME Inv, NEW p \in Players, NEW seen \in Seen(p),
           \/ AcceptNoMoney(p, seen)
           \/ AcceptNotYet(p, seen)
           \/ \E r \in Players : AcceptNoSpell(p, seen, r)
           \/ AcceptNoRoom(p, seen)
           \/ AcceptTrade(p, seen)
    PROVE  Inv' /\ OffersKept(trade, trade')
<1> DEFINE a == Accepting(p, seen)
<1>1. Trading(p) /\ InTime(p, seen)
  BY DEF AcceptNoMoney, AcceptNotYet, AcceptNoSpell, AcceptNoRoom, AcceptTrade, BothAccept
<1>2. /\ Sound(a)
      /\ \A r \in Players : Trading(r) => a[r] # NoTrade /\ a[r].trader = Trader(r)
      /\ OffersKept(trade, a)
  BY <1>1, AcceptingSound
<1>3. Trader(p) \in Players /\ Trading(Trader(p))
  BY <1>1, TwoSides, NoTradeApart DEF Inv, Sound, Trading, Trader
<1>4. a[p] # NoTrade /\ a[Trader(p)] # NoTrade /\ online \subseteq Players
  BY <1>1, <1>2, <1>3 DEF Inv
<1> HIDE DEF a
<1>5. CASE AcceptNoMoney(p, seen)
  <2>1. PICK r \in {p, Trader(p)} : trade' = SetAccepted(a, r, FALSE)
    BY <1>5 DEF AcceptNoMoney, a
  <2>2. Sound(SetAccepted(a, r, FALSE)) /\ OffersKept(a, SetAccepted(a, r, FALSE))
    BY <1>2, <1>3, <1>4, UnacceptSound
  <2>3. online' = online
    BY <1>5 DEF AcceptNoMoney
  <2> QED
    BY <1>2, <2>1, <2>2, <2>3, SoundStep, OffersKeptTwice
<1>6. CASE AcceptNotYet(p, seen)
  <2>1. trade' = a /\ online' = online
    BY <1>6 DEF AcceptNotYet, a
  <2> QED
    BY <1>2, <2>1, SoundStep
<1>7. CASE \E r \in Players : AcceptNoSpell(p, seen, r)
  <2>1. PICK r \in Players : AcceptNoSpell(p, seen, r)
    BY <1>7
  <2>2. r \in {p, Trader(p)} /\ trade' = SetSpell(a, r, FALSE) /\ online' = online
    BY <2>1 DEF AcceptNoSpell, a
  <2>3. Sound(SetSpell(a, r, FALSE)) /\ OffersKept(a, SetSpell(a, r, FALSE))
    BY <1>2, <1>4, <2>2, SetSpellSound
  <2> QED
    BY <1>2, <2>2, <2>3, SoundStep, OffersKeptTwice
<1>8. CASE AcceptNoRoom(p, seen)
  <2> DEFINE b == SetAccepted(a, p, FALSE)
  <2>1. trade' = SetAccepted(b, Trader(p), FALSE) /\ online' = online
    BY <1>8 DEF AcceptNoRoom, a
  <2>2. Sound(b) /\ b[Trader(p)] # NoTrade /\ OffersKept(a, b)
    BY <1>2, <1>3, <1>4, UnacceptSound
  <2> HIDE DEF b
  <2>3. Sound(SetAccepted(b, Trader(p), FALSE)) /\ OffersKept(b, SetAccepted(b, Trader(p), FALSE))
    BY <1>3, <1>4, <2>2, UnacceptSound
  <2>4. OffersKept(trade, b)
    BY <1>2, <2>2, OffersKeptTwice
  <2> QED
    BY <2>1, <2>3, <2>4, SoundStep, OffersKeptTwice
<1>9. CASE AcceptTrade(p, seen)
  <2>1. trade' = Cancelled(p) /\ online' = online
    BY <1>9 DEF AcceptTrade
  <2>2. Sound(Cancelled(p)) /\ OffersKept(trade, Cancelled(p))
    BY CancelledSound
  <2> QED
    BY <2>1, <2>2, SoundStep
<1> QED
  BY <1>5, <1>6, <1>7, <1>8, <1>9

\* The other handlers of a player's trade.
LEMMA HandlerInv ==
    ASSUME Inv, NEW p \in Players,
           \/ \E money \in 0 .. MaxMoney : SetTradeGold(p, money)
           \/ \E s \in AllSlots, x \in Items : SetTradeItem(p, s, x)
           \/ \E s \in AllSlots : ClearTradeItem(p, s) \/ SetCount(p, s)
           \/ CastOnTradeItem(p)
           \/ UnacceptTrade(p)
           \/ AcceptRefused(p)
           \/ TradeCancel(p)
    PROVE  /\ Inv'
           /\ \/ OffersKept(trade, trade')
              \/ \E s \in AllSlots, x \in Items : /\ SetTradeItem(p, s, x)
                                                 /\ OffersKept([trade EXCEPT ![p].items[s] = x], trade')
<1>1. /\ trade[p] # NoTrade /\ Sound(trade) /\ online \subseteq Players /\ online' = online
      /\ trade[p] \in TradeDatas
  <2>1. trade[p] # NoTrade /\ online' = online
    BY DEF SetTradeGold, SetTradeItem, ClearTradeItem, SetCount, CastOnTradeItem,
           UnacceptTrade, AcceptRefused, TradeCancel, Trading
  <2> QED
    BY <2>1, TwoSides DEF Inv, Sound
<1>2. CASE \E money \in 0 .. MaxMoney : SetTradeGold(p, money)
  <2>1. PICK money \in 0 .. MaxMoney : trade' = SetMoney(trade, p, money)
    BY <1>2 DEF SetTradeGold
  <2>2. Sound(SetMoney(trade, p, money)) /\ OffersKept(trade, SetMoney(trade, p, money))
    BY <1>1, SetMoneySound
  <2> QED
    BY <1>1, <2>1, <2>2, SoundStep
<1>3. CASE \/ \E s \in AllSlots, x \in Items : SetTradeItem(p, s, x)
           \/ \E s \in AllSlots : ClearTradeItem(p, s) \/ SetCount(p, s)
  <2>1. PICK s \in AllSlots, x \in Items \cup {None}, update \in BOOLEAN :
            /\ trade' = SetItem(trade, p, s, x, update)
            /\ x = None \/ \A u \in AllSlots \ {s} : trade[p].items[u] # x
            /\ x = None \/ x = trade[p].items[s] \/ (x \in Items /\ SetTradeItem(p, s, x))
    <3>1. CASE \E s \in AllSlots, x \in Items : SetTradeItem(p, s, x)
      BY <3>1 DEF SetTradeItem, HasItem
    <3>2. CASE \E s \in AllSlots : ClearTradeItem(p, s)
      BY <3>2 DEF ClearTradeItem
    <3>3. CASE \E s \in AllSlots : SetCount(p, s)
      <4>1. PICK s \in AllSlots : trade' = SetItem(trade, p, s, trade[p].items[s], TRUE)
        BY <3>3 DEF SetCount
      <4>2. trade[p].items[s] \in Items \cup {None} /\ OneEach(trade[p].items)
        BY <1>1 DEF TradeDatas, Sound, OneSlot
      <4> QED
        BY <4>1, <4>2 DEF OneEach
    <3> QED
      BY <1>3, <3>1, <3>2, <3>3
  <2>2. /\ Sound(SetItem(trade, p, s, x, update))
        /\ OffersKept([trade EXCEPT ![p].items[s] = x], SetItem(trade, p, s, x, update))
    BY <1>1, <2>1, SetItemSound
  <2>3. CASE x \in Items /\ SetTradeItem(p, s, x)
    BY <1>1, <2>1, <2>2, <2>3, SoundStep
  <2>4. CASE x = None \/ x = trade[p].items[s]
    <3> DEFINE c == [trade EXCEPT ![p].items[s] = x]
    <3>1. /\ c[p].trader = trade[p].trader
          /\ c[p].items = [trade[p].items EXCEPT ![s] = x]
          /\ \A r \in Players \ {p} : c[r] = trade[r]
      BY <1>1 DEF Sound, Linked, TradeDatas
    <3>2. trade[p].items \in [AllSlots -> Items \cup {None}]
      BY <1>1 DEF TradeDatas
    <3> HIDE DEF c
    <3>3. \A u \in AllSlots : c[p].items[u] \in {trade[p].items[u], None}
      BY <2>4, <3>1, <3>2
    <3>4. OffersKept(trade, c)
      BY <1>1, <3>1, <3>3 DEF OffersKept
    <3>5. OffersKept(c, trade')
      BY <2>1, <2>2 DEF c
    <3> QED
      BY <1>1, <2>1, <2>2, <3>4, <3>5, SoundStep, OffersKeptTwice
  <2> QED
    BY <2>1, <2>3, <2>4
<1>4. CASE CastOnTradeItem(p)
  <2>1. trade' = SetSpell(trade, p, TRUE)
    BY <1>4 DEF CastOnTradeItem
  <2>2. Sound(SetSpell(trade, p, TRUE)) /\ OffersKept(trade, SetSpell(trade, p, TRUE))
    BY <1>1, SetSpellSound
  <2> QED
    BY <1>1, <2>1, <2>2, SoundStep
<1>5. CASE UnacceptTrade(p) \/ AcceptRefused(p)
  <2>1. trade' = SetAccepted(trade, p, FALSE)
    BY <1>5 DEF UnacceptTrade, AcceptRefused
  <2>2. Sound(SetAccepted(trade, p, FALSE)) /\ OffersKept(trade, SetAccepted(trade, p, FALSE))
    BY <1>1, UnacceptSound
  <2> QED
    BY <1>1, <2>1, <2>2, SoundStep
<1>6. CASE TradeCancel(p)
  <2>1. trade' = Cancelled(p)
    BY <1>6 DEF TradeCancel
  <2>2. Sound(Cancelled(p)) /\ OffersKept(trade, Cancelled(p))
    BY CancelledSound
  <2> QED
    BY <1>1, <2>1, <2>2, SoundStep
<1> QED
  BY <1>2, <1>3, <1>4, <1>5, <1>6

\* What happens to the players outside their trades.
LEMMA WorldInv ==
    ASSUME Inv, NEW p \in Players,
           \/ Spend(p)
           \/ \E x \in Items : PutAway(p, x) \/ GetBack(p, x) \/ Bind(p, x)
           \/ SaveToDB(p)
           \/ LogoutPlayer(p)
           \/ Login(p)
           \/ Crash
    PROVE  Inv'
<1>1. CASE \/ Spend(p)
           \/ \E x \in Items : PutAway(p, x) \/ GetBack(p, x) \/ Bind(p, x)
           \/ SaveToDB(p)
  <2>1. trade' = trade /\ online' = online
    BY <1>1 DEF Spend, PutAway, GetBack, Bind, SaveToDB
  <2> QED
    BY <2>1 DEF Inv, Sound, Linked, Current, OneSlot
<1>2. CASE LogoutPlayer(p)
  <2>1. trade' = Cancelled(p) /\ online' = online \ {p}
    BY <1>2 DEF LogoutPlayer
  <2>2. /\ Sound(Cancelled(p)) /\ Cancelled(p)[p] = NoTrade
        /\ \A r \in Players : Cancelled(p)[r] # NoTrade => Cancelled(p)[r].trader # p
    BY CancelledSound
  <2> QED
    BY <2>1, <2>2 DEF Inv, Sound, Linked, Current, OneSlot
<1>3. CASE Login(p)
  <2>1. trade' = trade /\ online' = online \cup {p}
    BY <1>3 DEF Login
  <2> QED
    BY <2>1 DEF Inv, Sound, Linked, Current, OneSlot
<1>4. CASE Crash
  BY <1>4 DEF Crash, Inv, Sound, Linked, Current, OneSlot
<1> QED
  BY <1>1, <1>2, <1>3, <1>4

\* Every step keeps Inv.
LEMMA NextInv == Inv /\ [Next]_vars => Inv'
<1> SUFFICES ASSUME Inv, [Next]_vars PROVE Inv'
  OBVIOUS
<1>1. CASE UNCHANGED vars
  BY <1>1 DEF vars, Inv, Sound, Linked, Current, OneSlot
<1>2. CASE \E p, q \in Players : InitiateTrade(p, q)
  BY <1>2, InitiateInv
<1>3. CASE \E p \in Players :
            \/ \E money \in 0 .. MaxMoney : SetTradeGold(p, money)
            \/ \E s \in AllSlots, x \in Items : SetTradeItem(p, s, x)
            \/ \E s \in AllSlots : ClearTradeItem(p, s) \/ SetCount(p, s)
            \/ CastOnTradeItem(p)
            \/ UnacceptTrade(p)
            \/ AcceptRefused(p)
            \/ TradeCancel(p)
  BY <1>3, HandlerInv
<1>4. CASE \E p \in Players : \E seen \in Seen(p) :
            \/ AcceptNoMoney(p, seen)
            \/ AcceptNotYet(p, seen)
            \/ \E r \in Players : AcceptNoSpell(p, seen, r)
            \/ AcceptNoRoom(p, seen)
            \/ AcceptTrade(p, seen)
  BY <1>4, AcceptInv
<1>5. CASE \E p \in Players :
            \/ Spend(p)
            \/ \E x \in Items : PutAway(p, x) \/ GetBack(p, x) \/ Bind(p, x)
            \/ SaveToDB(p)
            \/ LogoutPlayer(p)
            \/ Login(p)
  BY <1>5, WorldInv
<1>6. CASE Crash
  BY <1>6 DEF Crash, Inv, Sound, Linked, Current, OneSlot
<1> QED
  BY <1>1, <1>2, <1>3, <1>4, <1>5, <1>6 DEF Next

\* Player::m_trade of both sides point at each other for as long as a trade is
\* open, and both players are in the world: TradeCancel, which deletes both
\* TradeData, and CleanupsBeforeDelete leave no pointer behind.
THEOREM PointersPaired == Spec => []TradesPaired
<1>1. Inv => TradesPaired
  BY DEF Inv, Sound, Linked, TradesPaired, Trading, Trader
<1> QED
  BY <1>1, InitInv, NextInv, PTL DEF Spec

\* The server state index does its work: while a player's acceptance stands, it
\* is about the offer in the partner's TradeData.
THEOREM AcceptanceCurrent == Spec => []AcceptedIsCurrent
<1>1. Inv => AcceptedIsCurrent
  BY DEF Inv, Sound, Current, Shows, AcceptedIsCurrent, Trading, Trader
<1> QED
  BY <1>1, InitInv, NextInv, PTL DEF Spec

-----------------------------------------------------------------------------
(* Induction, over the numbers up to a bound and over the subsets of a      *)
(* finite set, from the well-foundedness of their orders.                   *)

\* What holds of 0 and of the successor of each number it holds of, up to n, holds of n.
LEMMA UpTo ==
    ASSUME NEW n \in Nat, NEW Good, 0 \in Good,
           \A i \in 0 .. n : i \in Good /\ i < n => i + 1 \in Good
    PROVE  n \in Good
<1> DEFINE Bad == {i \in 0 .. n : i \notin Good}
<1> SUFFICES ASSUME n \notin Good PROVE FALSE
  OBVIOUS
<1>1. Bad # {} /\ Bad \subseteq Nat
  OBVIOUS
<1>2. IsWellFoundedOn(OpToRel(<, Nat), Nat)
  BY NatLessThanWellFounded
<1>3. PICK i \in Bad : \A j \in Bad : <<j, i>> \notin OpToRel(<, Nat)
  BY <1>1, <1>2, WFMin
<1>4. \A j \in Bad : ~(j < i)
  BY <1>1, <1>3 DEF OpToRel
<1>5. i - 1 \in 0 .. n /\ i - 1 < n /\ i - 1 \in Good
  BY <1>4
<1> QED
  BY <1>5

\* What holds of a subset whenever it holds of all that lack one of its elements holds of
\* the whole set.
LEMMA SubsetInduction ==
    ASSUME NEW S, IsFiniteSet(S), NEW Good,
           \A T \in SUBSET S : (\A x \in T : T \ {x} \in Good) => T \in Good
    PROVE  \A T \in SUBSET S : T \in Good
<1> DEFINE Bad == {T \in SUBSET S : T \notin Good}
<1> SUFFICES ASSUME Bad # {} PROVE FALSE
  OBVIOUS
<1>1. Bad \subseteq FiniteSubsetsOf(S)
  BY FS_FiniteSubsetsOfFinite
<1>2. PICK T \in Bad : \A U \in Bad : <<U, T>> \notin StrictSubsetOrdering(S)
  BY <1>1, FS_StrictSubsetOrderingWellFounded, WFMin
<1>3. ASSUME NEW x \in T PROVE T \ {x} \in Good
  <2> DEFINE U == T \ {x}
  <2>1. U \in SUBSET S /\ U \subseteq T /\ U # T /\ T \in SUBSET S
    OBVIOUS
  <2>2. <<U, T>> \in StrictSubsetOrdering(S)
    BY <2>1 DEF StrictSubsetOrdering
  <2> QED
    BY <1>2, <2>1, <2>2
<1> QED
  BY <1>3

-----------------------------------------------------------------------------
(* Sums over a finite set.                                                  *)

\* The element a fold takes next.
Chosen(s) == CHOOSE x \in s : TRUE

\* The partial sums of f, over every subset of its domain S.
IsPartial(g, f, D) ==
    g = [s \in D |-> IF s = {} THEN 0 ELSE f[Chosen(s)] + g[s \ {Chosen(s)}]]

\* Taking the chosen element out of a finite set leaves a smaller one.
LEMMA TakeChosen ==
    ASSUME NEW S, IsFiniteSet(S), NEW s \in SUBSET S, s # {}
    PROVE  /\ Chosen(s) \in s /\ s \ {Chosen(s)} \in SUBSET S
           /\ Cardinality(s) \in Nat
           /\ Cardinality(s \ {Chosen(s)}) = Cardinality(s) - 1
<1>1. Chosen(s) \in s
  BY DEF Chosen
<1>2. IsFiniteSet(s)
  BY FS_Subset
<1> QED
  BY <1>1, <1>2, FS_RemoveElement, FS_CardinalityType

\* The recursive function of the sum exists: it is built up by the size of the subsets.
LEMMA PartialExists ==
    ASSUME NEW f, NEW S, IsFiniteSet(S)
    PROVE  \E g : IsPartial(g, f, SUBSET S)
<1> DEFINE Small(n) == {s \in SUBSET S : Cardinality(s) <= n}
           N == Cardinality(S)
           Good == {n \in Nat : \E g : IsPartial(g, f, Small(n))}
<1>1. /\ N \in Nat
      /\ \A s \in SUBSET S : IsFiniteSet(s) /\ Cardinality(s) \in Nat /\ Cardinality(s) <= N
  BY FS_CardinalityType, FS_Subset
<1>2. 0 \in Good
  <2>1. \A s \in Small(0) : s = {}
    BY <1>1, FS_EmptySet
  <2>2. IsPartial([s \in Small(0) |-> 0], f, Small(0))
    BY <2>1 DEF IsPartial
  <2> QED
    BY <2>2
<1>3. ASSUME NEW n \in 0 .. N, n \in Good PROVE n + 1 \in Good
  <2>1. PICK g : IsPartial(g, f, Small(n))
    BY <1>3
  <2> DEFINE h == [s \in Small(n + 1) |->
                      IF s = {} THEN 0 ELSE f[Chosen(s)] + g[s \ {Chosen(s)}]]
  <2>2. \A s \in Small(n) : s \in Small(n + 1)
    BY <1>1
  <2>3. \A s \in Small(n) : h[s] = g[s]
    <3> HIDE DEF Small
    <3> QED
      BY <2>1, <2>2 DEF IsPartial
  <2>4. \A s \in Small(n + 1) : s # {} => s \ {Chosen(s)} \in Small(n)
    BY TakeChosen
  <2>5. IsPartial(h, f, Small(n + 1))
    <3> HIDE DEF Small
    <3> QED
      BY <2>3, <2>4 DEF IsPartial
  <2>6. n + 1 \in Nat
    OBVIOUS
  <2> HIDE DEF Small, h
  <2> QED
    BY <2>5, <2>6
<1>4. N \in Good
  BY <1>1, <1>2, <1>3, UpTo
<1>5. Small(N) = SUBSET S
  BY <1>1
<1> QED
  BY <1>4, <1>5

\* A sum is the last of its partial sums, which are integers when the summands are.
LEMMA SumPartial ==
    ASSUME NEW S, IsFiniteSet(S), NEW f \in [S -> Int]
    PROVE  \E g \in [SUBSET S -> Int] : Sum(f) = g[S] /\ IsPartial(g, f, SUBSET S)
<1>1. Sum(f) = (CHOOSE g : IsPartial(g, f, SUBSET S))[S]
  BY DEF Sum, MapThenSumSet, MapThenFoldSet, Chosen, IsPartial
<1>2. PICK g : Sum(f) = g[S] /\ IsPartial(g, f, SUBSET S)
  BY <1>1, PartialExists
<1> DEFINE Good == {s \in SUBSET S : g[s] \in Int}
<1>3. ASSUME NEW s \in SUBSET S, \A x \in s : s \ {x} \in Good PROVE s \in Good
  <2>1. CASE s = {}
    BY <1>2, <2>1 DEF IsPartial
  <2>2. CASE s # {}
    <3>1. Chosen(s) \in s
      BY <2>2, TakeChosen
    <3>2. g[s] = f[Chosen(s)] + g[s \ {Chosen(s)}]
      BY <1>2, <2>2 DEF IsPartial
    <3>3. PICK c : c = Chosen(s)
      OBVIOUS
    <3>4. s \ {c} \in Good /\ f[c] \in Int
      BY <1>3, <3>1, <3>3
    <3> QED
      BY <3>2, <3>3, <3>4
  <2> QED
    BY <2>1, <2>2
<1>4. \A s \in SUBSET S : s \in Good
  BY <1>3, SubsetInduction
<1>5. g \in [SUBSET S -> Int]
  BY <1>2, <1>4 DEF IsPartial
<1> QED
  BY <1>2, <1>5

\* Moving an amount from one summand to another leaves the sum as it is.
LEMMA SumMoved ==
    ASSUME NEW S, IsFiniteSet(S), NEW f \in [S -> Int], NEW h \in [S -> Int],
           NEW p \in S, NEW q \in S, p # q, f[p] + f[q] = h[p] + h[q],
           \A x \in S \ {p, q} : f[x] = h[x]
    PROVE  Sum(f) = Sum(h)
<1> DEFINE By(s) == (IF p \in s THEN h[p] - f[p] ELSE 0) + (IF q \in s THEN h[q] - f[q] ELSE 0)
<1>1. PICK g \in [SUBSET S -> Int] : Sum(f) = g[S] /\ IsPartial(g, f, SUBSET S)
  BY SumPartial
<1>2. PICK k \in [SUBSET S -> Int] : Sum(h) = k[S] /\ IsPartial(k, h, SUBSET S)
  BY SumPartial
<1> DEFINE Good == {s \in SUBSET S : k[s] = g[s] + By(s)}
<1>3. ASSUME NEW s \in SUBSET S, \A x \in s : s \ {x} \in Good PROVE s \in Good
  <2>1. CASE s = {}
    BY <1>1, <1>2, <2>1 DEF IsPartial
  <2>2. CASE s # {}
    <3>1. PICK c, u : c = Chosen(s) /\ u = s \ {c}
      OBVIOUS
    <3>2. c \in s /\ u \in SUBSET S
      BY <2>2, <3>1, TakeChosen
    <3>3. g[s] = f[c] + g[u] /\ k[s] = h[c] + k[u]
      BY <1>1, <1>2, <2>2, <3>1 DEF IsPartial
    <3>4. k[u] = g[u] + By(u)
      BY <1>3, <3>1, <3>2
    <3>5. By(s) = By(u) + (h[c] - f[c])
      <4>1. CASE c = p
        BY <3>1, <3>2, <4>1
      <4>2. CASE c = q
        BY <3>1, <3>2, <4>2
      <4>3. CASE c \notin {p, q}
        BY <3>1, <3>2, <4>3
      <4> QED
        BY <4>1, <4>2, <4>3
    <3>6. By(u) \in Int /\ f[c] \in Int /\ h[c] \in Int /\ g[u] \in Int
      BY <3>2
    <3> HIDE DEF By
    <3> QED
      BY <3>3, <3>4, <3>5, <3>6
  <2> QED
    BY <2>1, <2>2
<1>4. S \in Good
  BY <1>3, SubsetInduction
<1> QED
  BY <1>1, <1>2, <1>4

-----------------------------------------------------------------------------
(* WorldSession::moveItems, slot by slot.                                   *)

\* What r has given away after the first n slots.
Given(r, n) == {GetItem(trade, r, s) : s \in 1 .. n} \ {None}

\* The bags of p, q and the others after the first n slots.
BagsAfter(p, q, n) ==
    [r \in Players |->
        IF r = p THEN (own[p].items \ GetItems(trade, p)) \cup Given(q, n)
        ELSE IF r = q THEN (own[q].items \ GetItems(trade, q)) \cup Given(p, n)
        ELSE own[r].items]

\* The next slot hands over the item in it, which no slot before has.
LEMMA NextGiven ==
    ASSUME NEW r \in Players, Trading(r), OneEach(trade[r].items), NEW n \in 0 .. Slots - 1,
           NEW x, x = GetItem(trade, r, n + 1)
    PROVE  /\ Given(r, n + 1) = IF x = None THEN Given(r, n) ELSE Given(r, n) \cup {x}
           /\ Given(r, n) \subseteq GetItems(trade, r)
           /\ x # None => x \in GetItems(trade, r) /\ x \notin Given(r, n)
<1>1. n \in Nat /\ n + 1 \in TradedSlots /\ 1 .. n \subseteq TradedSlots /\ Slots \in Nat
  BY TradeAssumption DEF TradedSlots
<1>2. TradedSlots \subseteq AllSlots
  BY DEF AllSlots
<1>3. 1 .. (n + 1) = (1 .. n) \cup {n + 1}
  BY <1>1
<1>4. Given(r, n + 1) = IF x = None THEN Given(r, n) ELSE Given(r, n) \cup {x}
  BY <1>3 DEF Given
<1>5. Given(r, n) \subseteq GetItems(trade, r)
  BY <1>1 DEF Given, GetItems
<1>6. x # None => x \in GetItems(trade, r)
  BY <1>1 DEF GetItems
<1>7. ASSUME x # None, x \in Given(r, n) PROVE FALSE
  <2>1. PICK s \in 1 .. n : x = GetItem(trade, r, s)
    BY <1>7 DEF Given
  <2>2. s \in AllSlots /\ n + 1 \in AllSlots /\ s # n + 1
    BY <1>1, <1>2
  <2>3. x = trade[r].items[s] /\ x = trade[r].items[n + 1]
    BY <1>7, <2>1 DEF GetItem
  <2> QED
    BY <1>7, <2>2, <2>3 DEF OneEach
<1> QED
  BY <1>4, <1>5, <1>6, <1>7

\* Items offered by one player are his own, and the other has none of them.
LEMMA OfferedItems ==
    ASSUME NEW r \in Players
    PROVE  GetItems(trade, r) \subseteq own[r].items
  BY DEF GetItems, GetItem

\* When what a player gets in the end fits, so does each item on the way.
LEMMA StillFits ==
    ASSUME NEW kept, NEW got, NEW all, NEW x, IsFiniteSet(kept \cup all),
           Cardinality(kept \cup all) <= Room, got \subseteq all, x \in all,
           x \notin kept, x \notin got
    PROVE  Cardinality(kept \cup got) < Room
<1>1. Room \in Nat
  BY TradeAssumption
<1>2. IsFiniteSet(kept \cup got)
  BY FS_Subset, kept \cup got \in SUBSET (kept \cup all)
<1>3. /\ IsFiniteSet((kept \cup got) \cup {x})
      /\ Cardinality((kept \cup got) \cup {x}) = Cardinality(kept \cup got) + 1
      /\ Cardinality(kept \cup got) \in Nat
  BY <1>2, FS_AddElement, FS_CardinalityType
<1>4. Cardinality((kept \cup got) \cup {x}) <= Cardinality(kept \cup all)
  BY FS_Subset, (kept \cup got) \cup {x} \in SUBSET (kept \cup all)
<1>5. Cardinality(kept \cup all) \in Nat
  BY FS_CardinalityType
<1> QED
  BY <1>1, <1>3, <1>4, <1>5

\* One slot.
LEMMA SlotMoved ==
    ASSUME NEW p \in Players, NEW q \in Players, p # q, Trading(p), Trading(q),
           Trader(p) = q, Trader(q) = p, own[p].items \cap own[q].items = {},
           OneEach(trade[p].items), OneEach(trade[q].items),
           IsFiniteSet(own[p].items), IsFiniteSet(own[q].items),
           CanStoreItems(p), CanStoreItems(q), NEW n \in 0 .. Slots - 1
    PROVE  MoveSlot(BagsAfter(p, q, n), p, q, GetItem(trade, p, n + 1), GetItem(trade, q, n + 1))
           = BagsAfter(p, q, n + 1)
<1> DEFINE b == BagsAfter(p, q, n)
<1>1. PICK x, y : x = GetItem(trade, p, n + 1) /\ y = GetItem(trade, q, n + 1)
  OBVIOUS
<1>2. /\ Given(p, n + 1) = IF x = None THEN Given(p, n) ELSE Given(p, n) \cup {x}
      /\ Given(p, n) \subseteq GetItems(trade, p)
      /\ x # None => x \in GetItems(trade, p) /\ x \notin Given(p, n)
  BY <1>1, NextGiven
<1>3. /\ Given(q, n + 1) = IF y = None THEN Given(q, n) ELSE Given(q, n) \cup {y}
      /\ Given(q, n) \subseteq GetItems(trade, q)
      /\ y # None => y \in GetItems(trade, q) /\ y \notin Given(q, n)
  BY <1>1, NextGiven
<1>4. GetItems(trade, p) \subseteq own[p].items /\ GetItems(trade, q) \subseteq own[q].items
  BY OfferedItems
<1>5. PICK P, Q, gp, gq : /\ P = own[p].items \ GetItems(trade, p)
                          /\ Q = own[q].items \ GetItems(trade, q)
                          /\ gp = GetItems(trade, p) /\ gq = GetItems(trade, q)
  OBVIOUS
<1>6. /\ Cardinality(P \cup gq) <= Room /\ Cardinality(Q \cup gp) <= Room
      /\ IsFiniteSet(P \cup gq) /\ IsFiniteSet(Q \cup gp)
  <2>1. Cardinality(P \cup gq) <= Room /\ Cardinality(Q \cup gp) <= Room
    BY <1>5 DEF CanStoreItems
  <2>2. IsFiniteSet(own[p].items \cup own[q].items)
    BY FS_Union
  <2>3. P \cup gq \in SUBSET (own[p].items \cup own[q].items) /\ Q \cup gp \in SUBSET (own[p].items \cup own[q].items)
    BY <1>4, <1>5
  <2> QED
    BY <2>1, <2>2, <2>3, FS_Subset
<1>7. b[p] = P \cup Given(q, n) /\ b[q] = Q \cup Given(p, n)
  BY <1>5 DEF BagsAfter
<1>8. CanStoreItem(b, q, x)
  <2>1. ASSUME x # None PROVE Cardinality(Q \cup Given(p, n)) < Room
    <3>1. x \in gp /\ x \notin Q /\ x \notin Given(p, n) /\ Given(p, n) \subseteq gp
      BY <1>2, <1>4, <1>5, <2>1
    <3> QED
      BY <1>6, <3>1, StillFits
  <2> HIDE DEF b
  <2> QED
    BY <1>7, <2>1 DEF CanStoreItem
<1>9. CanStoreItem(b, p, y)
  <2>1. ASSUME y # None PROVE Cardinality(P \cup Given(q, n)) < Room
    <3>1. y \in gq /\ y \notin P /\ y \notin Given(q, n) /\ Given(q, n) \subseteq gq
      BY <1>3, <1>4, <1>5, <2>1
    <3> QED
      BY <1>6, <3>1, StillFits
  <2> HIDE DEF b
  <2> QED
    BY <1>7, <2>1 DEF CanStoreItem
<1>10. MoveSlot(b, p, q, x, y) = StoreItem(StoreItem(b, q, x), p, y)
  BY <1>8, <1>9 DEF MoveSlot
<1>11. StoreItem(b, q, x) = [b EXCEPT ![q] = Q \cup Given(p, n + 1)]
  BY <1>2, <1>7 DEF StoreItem, BagsAfter
<1>12. StoreItem(StoreItem(b, q, x), p, y) =
          [b EXCEPT ![q] = Q \cup Given(p, n + 1), ![p] = P \cup Given(q, n + 1)]
  <2> DEFINE c == [b EXCEPT ![q] = Q \cup Given(p, n + 1)]
  <2>1. c[p] = P \cup Given(q, n) /\ DOMAIN c = Players
    BY <1>7 DEF BagsAfter
  <2>2. y # None => c[p] \cup {y} = P \cup Given(q, n + 1)
    BY <1>3, <2>1
  <2>3. y = None => c[p] = P \cup Given(q, n + 1)
    BY <1>3, <2>1
  <2>4. StoreItem(c, p, y) = [c EXCEPT ![p] = P \cup Given(q, n + 1)]
    <3>1. CASE y = None
      <4>1. StoreItem(c, p, y) = c
        BY <3>1 DEF StoreItem
      <4> QED
        BY <2>1, <2>3, <3>1, <4>1
    <3>2. CASE y # None
      BY <2>2, <3>2 DEF StoreItem
    <3> QED
      BY <3>1, <3>2
  <2> QED
    BY <1>11, <2>4
<1>13. BagsAfter(p, q, n + 1) = [b EXCEPT ![q] = Q \cup Given(p, n + 1), ![p] = P \cup Given(q, n + 1)]
  BY <1>5 DEF BagsAfter
<1> QED
  BY <1>1, <1>10, <1>12, <1>13

\* All slots: each player has what he kept and what the other offered. No item is
\* refused half way, for CanStoreItems has looked at the bags as they are in the end.
LEMMA ItemsMoved ==
    ASSUME NEW p \in Players, NEW q \in Players, p # q, Trading(p), Trading(q),
           Trader(p) = q, Trader(q) = p, own[p].items \cap own[q].items = {},
           OneEach(trade[p].items), OneEach(trade[q].items),
           IsFiniteSet(own[p].items), IsFiniteSet(own[q].items),
           CanStoreItems(p), CanStoreItems(q)
    PROVE  /\ MoveItems(p, q)[p] = (own[p].items \ GetItems(trade, p)) \cup GetItems(trade, q)
           /\ MoveItems(p, q)[q] = (own[q].items \ GetItems(trade, q)) \cup GetItems(trade, p)
<1> DEFINE Removed == [r \in Players |->
                          IF r \in {p, q} THEN own[r].items \ GetItems(trade, r) ELSE own[r].items]
           IsMoved(g) == g = [n \in 0 .. Slots |->
                                IF n = 0 THEN Removed
                                ELSE MoveSlot(g[n - 1], p, q, GetItem(trade, p, n), GetItem(trade, q, n))]
           h == [n \in 0 .. Slots |-> BagsAfter(p, q, n)]
<1>1. Slots \in Nat
  BY TradeAssumption
<1>2. MoveItems(p, q) = (CHOOSE g : IsMoved(g))[Slots]
  BY DEF MoveItems
<1>3. BagsAfter(p, q, 0) = Removed
  <2>1. Given(p, 0) = {} /\ Given(q, 0) = {}
    BY DEF Given
  <2> QED
    BY <2>1 DEF BagsAfter
<1>4. ASSUME NEW n \in 0 .. Slots - 1
      PROVE  BagsAfter(p, q, n + 1) = MoveSlot(BagsAfter(p, q, n), p, q, GetItem(trade, p, n + 1),
                                               GetItem(trade, q, n + 1))
  BY SlotMoved
<1>5. IsMoved(h)
  <2>1. ASSUME NEW n \in 0 .. Slots, n # 0
        PROVE  h[n] = MoveSlot(h[n - 1], p, q, GetItem(trade, p, n), GetItem(trade, q, n))
    <3>1. n - 1 \in 0 .. Slots - 1 /\ (n - 1) + 1 = n /\ n - 1 \in 0 .. Slots
      BY <1>1, <2>1
    <3> QED
      BY <1>4, <3>1
  <2>2. h[0] = Removed
    BY <1>1, <1>3
  <2> QED
    BY <2>1, <2>2
<1>6. PICK g : IsMoved(g) /\ MoveItems(p, q) = g[Slots]
  BY <1>2, <1>5
<1> DEFINE Good == {n \in 0 .. Slots : g[n] = BagsAfter(p, q, n)}
<1>7. 0 \in Good
  BY <1>1, <1>3, <1>6
<1>8. ASSUME NEW n \in 0 .. Slots, n \in Good, n < Slots PROVE n + 1 \in Good
  <2>1. n + 1 \in 0 .. Slots /\ n + 1 # 0 /\ (n + 1) - 1 = n /\ n \in 0 .. Slots - 1
    BY <1>1, <1>8
  <2>2. g[n + 1] = MoveSlot(g[n], p, q, GetItem(trade, p, n + 1), GetItem(trade, q, n + 1))
    BY <1>6, <2>1
  <2> QED
    BY <1>4, <1>8, <2>1, <2>2
<1>9. Slots \in Good
  BY <1>1, <1>7, <1>8, UpTo
<1>10. Given(p, Slots) = GetItems(trade, p) /\ Given(q, Slots) = GetItems(trade, q)
  BY DEF Given, GetItems, TradedSlots
<1> QED
  BY <1>6, <1>9, <1>10 DEF BagsAfter

-----------------------------------------------------------------------------
(* What everybody has, in the world and in the database.                    *)

Types == own \in [Players -> Belongings] /\ saved \in [Players -> Belongings]

\* All the gold and all the items a player had or has.
Worth(b) == b.gold + b.spent
Had(b) == b.items \cup b.away

\* The database agrees with the world on what a player is worth and on which items are
\* his, wherever they are: only so a crash, and a save of one player alone, lose nothing.
Agreed ==
    \A p \in Players :
        /\ Worth(own[p]) = Worth(saved[p])
        /\ Had(own[p]) = Had(saved[p])
        /\ own[p].items \cap own[p].away = {}
        /\ saved[p].items \cap saved[p].away = {}

\* Nobody has another's items, and together the players have what they started with.
Owned ==
    /\ \A p, q \in Players : p # q => Had(own[p]) \cap Had(own[q]) = {}
    /\ \A x : (\E p \in Players : x \in Had(own[p])) <=> (\E p \in Players : x \in InitItems[p])

Worths(b) == [p \in Players |-> b[p].gold + b[p].spent]

Balanced ==
    /\ Types
    /\ Agreed
    /\ Owned
    /\ Sum(Worths(own)) = Sum(InitGold)

\* Everybody starts with his own.
LEMMA InitBalanced == Init => Balanced
<1> SUFFICES ASSUME Init PROVE Balanced
  OBVIOUS
<1>1. ASSUME NEW p \in Players
      PROVE  /\ own[p] \in Belongings /\ own[p].gold = InitGold[p] /\ own[p].spent = 0
             /\ own[p].items = InitItems[p] /\ own[p].away = {}
  <2>1. own[p] = [gold |-> InitGold[p], items |-> InitItems[p], bound |-> {}, spent |-> 0, away |-> {}]
    BY DEF Init
  <2>2. InitGold[p] \in Nat /\ InitItems[p] \in SUBSET Items
    BY TradeAssumption
  <2> QED
    BY <2>1, <2>2 DEF Belongings
<1>2. own \in [Players -> Belongings]
  BY <1>1 DEF Init
<1>3. saved = own
  BY DEF Init
<1>4. Agreed
  BY <1>1, <1>3 DEF Agreed
<1>5. \A p \in Players : Had(own[p]) = InitItems[p]
  BY <1>1 DEF Had
<1>6. Owned
  BY <1>5, TradeAssumption DEF Owned
<1>7. Worths(own) = InitGold
  <2>1. InitGold \in [Players -> Nat]
    BY TradeAssumption
  <2>2. \A p \in Players : own[p].gold + own[p].spent = InitGold[p]
    BY <1>1, <2>1
  <2> QED
    BY <2>1, <2>2 DEF Worths
<1> QED
  BY <1>2, <1>3, <1>4, <1>6, <1>7 DEF Balanced, Types

\* One player's belongings change, but neither what he is worth nor what is his.
LEMMA OwnStep ==
    ASSUME Balanced, NEW p \in Players, NEW b \in Belongings, own' = [own EXCEPT ![p] = b],
           saved' = saved, Worth(b) = Worth(own[p]), Had(b) = Had(own[p]), b.items \cap b.away = {}
    PROVE  Balanced'
<1>1. own' \in [Players -> Belongings] /\ own'[p] = b /\ \A r \in Players \ {p} : own'[r] = own[r]
  BY DEF Balanced, Types
<1>2. Types'
  BY <1>1 DEF Balanced, Types
<1>3. Agreed'
  BY <1>1 DEF Balanced, Agreed
<1>4. \A r \in Players : Had(own'[r]) = Had(own[r])
  BY <1>1
<1>5. Owned'
  BY <1>4 DEF Balanced, Owned
<1>6. Worths(own') = Worths(own)
  BY <1>1 DEF Worths, Worth
<1>7. (Sum(Worths(own)) = Sum(InitGold))'
  BY <1>6 DEF Balanced
<1> QED
  BY <1>2, <1>3, <1>5, <1>7 DEF Balanced

\* One player is saved. The rows of his items are his already.
LEMMA SaveStep ==
    ASSUME Balanced, NEW p \in Players, own' = own, saved' = SaveInventoryAndGoldToDB(own, {p})
    PROVE  Balanced'
<1>1. UNION {own[s].items : s \in {p}} = own[p].items
  OBVIOUS
<1>2. saved' = [r \in Players |-> IF r = p THEN own[p]
                                  ELSE [saved[r] EXCEPT !.items = @ \ own[p].items]]
  BY <1>1 DEF SaveInventoryAndGoldToDB
<1>3. \A r \in Players \ {p} : [saved[r] EXCEPT !.items = @ \ own[p].items] = saved[r]
  <2> SUFFICES ASSUME NEW r \in Players \ {p}
               PROVE  [saved[r] EXCEPT !.items = @ \ own[p].items] = saved[r]
    OBVIOUS
  <2>1. saved[r].items \cap own[p].items = {}
    BY DEF Balanced, Agreed, Owned, Had
  <2>2. saved[r].items \ own[p].items = saved[r].items
    BY <2>1
  <2>3. saved[r] \in Belongings
    BY DEF Balanced, Types
  <2> QED
    BY <2>2, <2>3 DEF Belongings
<1>4. saved'[p] = own[p] /\ \A r \in Players \ {p} : saved'[r] = saved[r]
  BY <1>2, <1>3
<1>5. Types'
  BY <1>2, <1>3 DEF Balanced, Types
<1>6. Agreed'
  BY <1>4 DEF Balanced, Agreed
<1> QED
  BY <1>5, <1>6 DEF Balanced, Owned, Worths

\* A restart finds everything in the database.
LEMMA CrashStep == Balanced /\ own' = saved /\ saved' = saved => Balanced'
<1> SUFFICES ASSUME Balanced, own' = saved, saved' = saved PROVE Balanced'
  OBVIOUS
<1>1. \A p \in Players : Had(own'[p]) = Had(own[p]) /\ Worth(own'[p]) = Worth(own[p])
  BY DEF Balanced, Agreed
<1>2. Types' /\ Agreed'
  BY DEF Balanced, Types, Agreed
<1>3. Owned'
  BY <1>1 DEF Balanced, Owned
<1>4. Worths(own') = Worths(own)
  BY <1>1 DEF Worths, Worth
<1>5. (Sum(Worths(own)) = Sum(InitGold))'
  BY <1>4 DEF Balanced
<1> QED
  BY <1>2, <1>3, <1>5 DEF Balanced

\* Both sides pay what they offered and get what the other offered.
LEMMA Paid ==
    ASSUME Balanced, Inv, NEW p \in Players, Trading(p), MoneyRight(p), NEW q, q = Trader(p)
    PROVE  /\ PayAndTake(p) = own[p].gold - trade[p].money + trade[q].money
           /\ PayAndTake(q) = own[q].gold - trade[q].money + trade[p].money
           /\ PayAndTake(p) \in Nat /\ PayAndTake(q) \in Nat
<1>1. /\ q \in Players /\ q # p /\ trade[p] \in TradeDatas /\ trade[q] \in TradeDatas
      /\ Trader(q) = p
  BY TwoSides DEF Inv, Sound, Trading, Trader
<1>2. PICK g, h, m, n : g = own[p].gold /\ h = own[q].gold /\ m = trade[p].money /\ n = trade[q].money
  OBVIOUS
<1>3. g \in Nat /\ h \in Nat /\ m \in Nat /\ n \in Nat /\ MaxMoney \in Nat
  <2>1. own[p] \in Belongings /\ own[q] \in Belongings
    BY <1>1 DEF Balanced, Types
  <2> QED
    BY <1>1, <1>2, <2>1, TradeAssumption DEF Belongings, TradeDatas
<1>4. g >= m /\ h >= n /\ g <= MaxMoney - n /\ h <= MaxMoney - m
  BY <1>1, <1>2 DEF MoneyRight, HasEnoughMoney, CanTakeMoney
<1>5. ModifyMoney(ModifyMoney(g, -m), n) = g - m + n
  <2>1. ModifyMoney(g, -m) = g - m
    BY <1>3, <1>4 DEF ModifyMoney
  <2> QED
    BY <1>3, <1>4, <2>1 DEF ModifyMoney
<1>6. ModifyMoney(ModifyMoney(h, -n), m) = h - n + m
  <2>1. ModifyMoney(h, -n) = h - n
    BY <1>3, <1>4 DEF ModifyMoney
  <2> QED
    BY <1>3, <1>4, <2>1 DEF ModifyMoney
<1>7. PayAndTake(p) = g - m + n /\ PayAndTake(q) = h - n + m
  BY <1>1, <1>2, <1>5, <1>6 DEF PayAndTake
<1> QED
  BY <1>2, <1>3, <1>4, <1>7

\* What p has after an exchange with q: he keeps what he did not offer, gets what q
\* offered, and pays and takes exactly the gold on the table.
GetsFrom(p, q) ==
    [own[p] EXCEPT !.items = (@ \ GetItems(trade, p)) \cup GetItems(trade, q),
                   !.gold = @ - trade[p].money + trade[q].money]

\* Its parts.
LEMMA GetsFromIs ==
    ASSUME NEW p, NEW q, own[p] \in Belongings, NEW g, g = GetsFrom(p, q)
    PROVE  /\ g.items = (own[p].items \ GetItems(trade, p)) \cup GetItems(trade, q)
           /\ g.gold = own[p].gold - trade[p].money + trade[q].money
           /\ g.away = own[p].away /\ g.spent = own[p].spent
<1>1. PICK a, i, n :
        /\ a = own[p]
        /\ i = (own[p].items \ GetItems(trade, p)) \cup GetItems(trade, q)
        /\ n = own[p].gold - trade[p].money + trade[q].money
  OBVIOUS
<1>2. a \in Belongings /\ g = [a EXCEPT !.items = i, !.gold = n]
  BY <1>1 DEF GetsFrom
<1>3. g.items = i /\ g.gold = n /\ g.away = a.away /\ g.spent = a.spent
  BY <1>2 DEF Belongings
<1> QED
  BY <1>1, <1>3

\* The exchange, for both sides.
LEMMA Exchanged ==
    ASSUME Balanced, Inv, NEW p \in Players, NEW seen, AcceptTrade(p, seen), NEW q, q = Trader(p)
    PROVE  /\ q \in Players /\ q # p /\ Trading(p) /\ Trading(q) /\ Trader(q) = p
           /\ own' \in [Players -> Belongings]
           /\ own'[p] = GetsFrom(p, q) /\ own'[q] = GetsFrom(q, p)
           /\ \A r \in Players \ {p, q} : own'[r] = own[r]
<1>1. Trading(p) /\ MoneyRight(p) /\ CanStoreItems(p) /\ CanStoreItems(q)
  BY DEF AcceptTrade, BothAccept
<1>2. /\ q \in Players /\ q # p /\ trade[p] # NoTrade /\ trade[q] # NoTrade /\ Trader(q) = p
      /\ Trading(q)
  BY <1>1, TwoSides, NoTradeApart DEF Inv, Sound, Trading, Trader
<1>3. PICK P, Q, g, h :
        /\ P = (own[p].items \ GetItems(trade, p)) \cup GetItems(trade, q)
        /\ Q = (own[q].items \ GetItems(trade, q)) \cup GetItems(trade, p)
        /\ g = own[p].gold - trade[p].money + trade[q].money
        /\ h = own[q].gold - trade[q].money + trade[p].money
  OBVIOUS
<1>4. own[p] \in Belongings /\ own[q] \in Belongings
  BY <1>2 DEF Balanced, Types
<1>5. own[p].items \in SUBSET Items /\ own[q].items \in SUBSET Items
  BY <1>4 DEF Belongings
<1>6. IsFiniteSet(own[p].items) /\ IsFiniteSet(own[q].items)
  BY <1>5, FS_Subset, TradeAssumption
<1>7. own[p].items \cap own[q].items = {}
  BY <1>2 DEF Balanced, Owned, Had
<1>8. OneEach(trade[p].items) /\ OneEach(trade[q].items)
  BY <1>2 DEF Inv, Sound, OneSlot
<1>9. MoveItems(p, q)[p] = P /\ MoveItems(p, q)[q] = Q
  BY <1>1, <1>2, <1>3, <1>6, <1>7, <1>8, ItemsMoved
<1>10. PayAndTake(p) = g /\ PayAndTake(q) = h /\ g \in Nat /\ h \in Nat
  BY <1>1, <1>2, <1>3, Paid
<1>11. own' = [own EXCEPT ![p].items = P, ![p].gold = g, ![q].items = Q, ![q].gold = h]
  BY <1>9, <1>10 DEF AcceptTrade
<1>12. own' = [own EXCEPT ![p] = [own[p] EXCEPT !.items = P, !.gold = g],
                          ![q] = [own[q] EXCEPT !.items = Q, !.gold = h]]
  BY <1>2, <1>4, <1>11 DEF Balanced, Types
<1>13. P \in SUBSET Items /\ Q \in SUBSET Items
  BY <1>2, <1>3, <1>5, OfferedItems
<1>14. /\ [own[p] EXCEPT !.items = P, !.gold = g] \in Belongings
       /\ [own[q] EXCEPT !.items = Q, !.gold = h] \in Belongings
  BY <1>4, <1>10, <1>13 DEF Belongings
<1>15. own' \in [Players -> Belongings]
  BY <1>12, <1>14 DEF Balanced, Types
<1>16. /\ own'[p] = [own[p] EXCEPT !.items = P, !.gold = g]
       /\ own'[q] = [own[q] EXCEPT !.items = Q, !.gold = h]
       /\ \A r \in Players \ {p, q} : own'[r] = own[r]
  BY <1>2, <1>12 DEF Balanced, Types
<1> QED
  BY <1>1, <1>2, <1>3, <1>15, <1>16 DEF GetsFrom

\* An exchange is balanced, in the world and, since both are saved in one transaction, in
\* the database.
LEMMA ExchangeStep ==
    ASSUME Balanced, Inv, NEW p \in Players, NEW seen, AcceptTrade(p, seen)
    PROVE  Balanced'
<1>1. PICK q : q = Trader(p)
  OBVIOUS
<1>2. /\ q \in Players /\ q # p /\ own' \in [Players -> Belongings]
      /\ own[p] \in Belongings /\ own[q] \in Belongings
      /\ \A r \in Players \ {p, q} : own'[r] = own[r]
  BY <1>1, Exchanged DEF Balanced, Types
<1>3. PICK gp, gq, m, n :
        /\ gp = GetItems(trade, p) /\ gq = GetItems(trade, q)
        /\ m = trade[p].money /\ n = trade[q].money
  OBVIOUS
<1>4. gp \subseteq own[p].items /\ gq \subseteq own[q].items
  BY <1>2, <1>3, OfferedItems
<1>5. /\ own'[p].items = (own[p].items \ gp) \cup gq /\ own'[p].gold = own[p].gold - m + n
      /\ own'[q].items = (own[q].items \ gq) \cup gp /\ own'[q].gold = own[q].gold - n + m
      /\ own'[p].away = own[p].away /\ own'[p].spent = own[p].spent
      /\ own'[q].away = own[q].away /\ own'[q].spent = own[q].spent
  <2>1. PICK x, y : x = own'[p] /\ y = own'[q]
    OBVIOUS
  <2>2. x = GetsFrom(p, q) /\ y = GetsFrom(q, p)
    BY <1>1, <2>1, Exchanged
  <2>3. /\ x.items = (own[p].items \ gp) \cup gq /\ x.gold = own[p].gold - m + n
        /\ x.away = own[p].away /\ x.spent = own[p].spent
    BY <1>2, <1>3, <2>2, GetsFromIs
  <2>4. /\ y.items = (own[q].items \ gq) \cup gp /\ y.gold = own[q].gold - n + m
        /\ y.away = own[q].away /\ y.spent = own[q].spent
    BY <1>2, <1>3, <2>2, GetsFromIs
  <2> QED
    BY <2>1, <2>3, <2>4
<1>6. m \in Nat /\ n \in Nat
  <2>1. trade[p] # NoTrade /\ trade[q] # NoTrade
    BY <1>1, Exchanged DEF Trading
  <2>2. trade[p] \in TradeDatas /\ trade[q] \in TradeDatas
    BY <1>2, <2>1 DEF Inv, Sound, Linked
  <2> QED
    BY <1>3, <2>2, TradeAssumption DEF TradeDatas
<1>7. /\ own[p].items \cap own[p].away = {} /\ own[q].items \cap own[q].away = {}
      /\ Had(own[p]) \cap Had(own[q]) = {}
  BY <1>2 DEF Balanced, Agreed, Owned
<1>8. /\ Had(own'[p]) \cup Had(own'[q]) = Had(own[p]) \cup Had(own[q])
      /\ Had(own'[p]) \cap Had(own'[q]) = {}
      /\ own'[p].items \cap own'[p].away = {} /\ own'[q].items \cap own'[q].away = {}
  BY <1>4, <1>5, <1>7 DEF Had
<1>9. Owned'
  <2>1. \A r \in Players \ {p, q} : \A x \in Had(own[r]) : x \notin Had(own[p]) /\ x \notin Had(own[q])
    BY <1>2 DEF Balanced, Owned
  <2>2. \A r \in Players \ {p, q} : Had(own'[r]) = Had(own[r])
    BY <1>2
  <2> DEFINE A(r) == Had(own[r])
             B(r) == Had(own'[r])
  <2>3. \A r \in Players \ {p, q} : B(r) = A(r)
    BY <2>2
  <2>4. B(p) \cup B(q) = A(p) \cup A(q) /\ B(p) \cap B(q) = {}
    BY <1>8
  <2>5. \A r \in Players \ {p, q} : \A x \in A(r) : x \notin A(p) /\ x \notin A(q)
    BY <2>1
  <2>6. /\ \A r, o \in Players : r # o => A(r) \cap A(o) = {}
        /\ \A x : (\E r \in Players : x \in A(r)) <=> (\E r \in Players : x \in InitItems[r])
    BY DEF Balanced, Owned
  <2> HIDE DEF A, B
  <2>7. \A r, o \in Players : r # o => B(r) \cap B(o) = {}
    <3> SUFFICES ASSUME NEW r \in Players, NEW o \in Players, r # o PROVE B(r) \cap B(o) = {}
      OBVIOUS
    <3>1. CASE r \in {p, q} /\ o \in {p, q}
      BY <2>4, <3>1
    <3>2. CASE r \in {p, q} /\ o \notin {p, q}
      BY <2>3, <2>4, <2>5, <3>2
    <3>3. CASE r \notin {p, q} /\ o \in {p, q}
      BY <2>3, <2>4, <2>5, <3>3
    <3>4. CASE r \notin {p, q} /\ o \notin {p, q}
      BY <2>3, <2>6, <3>4
    <3> QED
      BY <3>1, <3>2, <3>3, <3>4
  <2>8. \A x : (\E r \in Players : x \in B(r)) <=> (\E r \in Players : x \in A(r))
    BY <1>2, <2>3, <2>4
  <2>9. /\ \A r, o \in Players : r # o => B(r) \cap B(o) = {}
        /\ \A x : (\E r \in Players : x \in B(r)) <=> (\E r \in Players : x \in InitItems[r])
    BY <2>6, <2>7, <2>8
  <2> QED
    BY <2>9 DEF B, Owned
<1>10. saved' = [r \in Players |-> IF r \in {p, q} THEN own'[r]
                                   ELSE [saved[r] EXCEPT !.items = @ \ (own'[p].items \cup own'[q].items)]]
  <2>1. UNION {own'[s].items : s \in {p, q}} = own'[p].items \cup own'[q].items
    OBVIOUS
  <2>2. saved' = SaveInventoryAndGoldToDB(own', {p, q})
    BY <1>1 DEF AcceptTrade, SavedWith
  <2> QED
    BY <2>1, <2>2 DEF SaveInventoryAndGoldToDB
<1>11. own'[p].items \cup own'[q].items = own[p].items \cup own[q].items
  BY <1>4, <1>5
<1>12. \A r \in Players \ {p, q} :
          [saved[r] EXCEPT !.items = @ \ (own'[p].items \cup own'[q].items)] = saved[r]
  <2> SUFFICES ASSUME NEW r \in Players \ {p, q}
               PROVE  [saved[r] EXCEPT !.items = @ \ (own'[p].items \cup own'[q].items)] = saved[r]
    OBVIOUS
  <2>1. saved[r].items \subseteq Had(own[r]) /\ Had(own[r]) \cap Had(own[p]) = {}
        /\ Had(own[r]) \cap Had(own[q]) = {}
    BY <1>2 DEF Balanced, Agreed, Owned, Had
  <2>2. saved[r].items \ (own'[p].items \cup own'[q].items) = saved[r].items
    BY <1>11, <2>1 DEF Had
  <2>3. saved[r] \in Belongings
    BY DEF Balanced, Types
  <2> QED
    BY <2>2, <2>3 DEF Belongings
<1>13. /\ saved' \in [Players -> Belongings] /\ saved'[p] = own'[p] /\ saved'[q] = own'[q]
       /\ \A r \in Players \ {p, q} : saved'[r] = saved[r]
  BY <1>2, <1>10, <1>12 DEF Balanced, Types
<1>14. Agreed'
  <2>1. ASSUME NEW r \in Players \ {p, q}
        PROVE  /\ own'[r] = own[r] /\ saved'[r] = saved[r]
               /\ Worth(own[r]) = Worth(saved[r]) /\ Had(own[r]) = Had(saved[r])
               /\ own[r].items \cap own[r].away = {} /\ saved[r].items \cap saved[r].away = {}
    BY <1>2, <1>13 DEF Balanced, Agreed
  <2>2. ASSUME NEW r \in {p, q}
        PROVE  saved'[r] = own'[r] /\ own'[r].items \cap own'[r].away = {}
    BY <1>8, <1>13
  <2> QED
    BY <2>1, <2>2 DEF Agreed
<1>15. Sum(Worths(own')) = Sum(Worths(own))
  <2> DEFINE f == Worths(own)
             h == Worths(own')
  <2>1. f \in [Players -> Int] /\ h \in [Players -> Int]
    <3>1. \A r \in Players : own[r] \in Belongings /\ own'[r] \in Belongings
      BY <1>2 DEF Balanced, Types
    <3> QED
      BY <3>1 DEF Worths, Belongings
  <2>2. f[p] + f[q] = h[p] + h[q]
    BY <1>2, <1>5, <1>6 DEF Worths, Belongings
  <2>3. \A r \in Players \ {p, q} : f[r] = h[r]
    BY <1>2 DEF Worths
  <2>4. IsFiniteSet(Players)
    BY TradeAssumption
  <2> HIDE DEF f, h
  <2>5. Sum(f) = Sum(h)
    BY <1>2, <2>1, <2>2, <2>3, <2>4, SumMoved
  <2> QED
    BY <2>5 DEF f, h
<1>16. (Sum(Worths(own)) = Sum(InitGold))'
  BY <1>15 DEF Balanced
<1>17. Types'
  BY <1>2, <1>13 DEF Types
<1> QED
  BY <1>9, <1>14, <1>16, <1>17 DEF Balanced

\* Every step is balanced.
LEMMA NextBalanced == Balanced /\ Inv /\ [Next]_vars => Balanced'
<1> SUFFICES ASSUME Balanced, Inv, [Next]_vars PROVE Balanced'
  OBVIOUS
<1>1. CASE own' = own /\ saved' = saved
  BY <1>1 DEF Balanced, Types, Agreed, Owned, Worths
<1>2. \A p \in Players : own[p] \in Belongings /\ saved[p] \in Belongings
  BY DEF Balanced, Types
<1>3. ASSUME NEW p \in Players, Spend(p) PROVE Balanced'
  <2> DEFINE b == [own[p] EXCEPT !.gold = @ - 1, !.spent = @ + 1]
  <2>1. own' = [own EXCEPT ![p] = b] /\ saved' = saved /\ own[p].gold > 0
    BY <1>3 DEF Spend
  <2>2. b \in Belongings /\ Worth(b) = Worth(own[p]) /\ b.items = own[p].items /\ b.away = own[p].away
    <3>1. PICK g, n : g = own[p].gold /\ n = own[p].spent
      OBVIOUS
    <3>2. g \in Nat /\ n \in Nat /\ g > 0
      BY <1>2, <2>1, <3>1 DEF Belongings
    <3>3. g - 1 \in Nat /\ n + 1 \in Nat /\ (g - 1) + (n + 1) = g + n
      BY <3>2
    <3>4. b = [own[p] EXCEPT !.gold = g - 1, !.spent = n + 1]
      BY <3>1
    <3>5. /\ b \in Belongings /\ b.gold = g - 1 /\ b.spent = n + 1
          /\ b.items = own[p].items /\ b.away = own[p].away
      BY <1>2, <3>3, <3>4 DEF Belongings
    <3> QED
      BY <3>1, <3>3, <3>5 DEF Worth
  <2>3. own[p].items \cap own[p].away = {}
    BY DEF Balanced, Agreed
  <2> HIDE DEF b
  <2> QED
    BY <2>1, <2>2, <2>3, OwnStep DEF Had
<1>4. ASSUME NEW p \in Players, NEW x \in Items, PutAway(p, x) \/ GetBack(p, x) \/ Bind(p, x)
      PROVE  Balanced'
  <2>1. own[p].items \cap own[p].away = {} /\ own[p] \in Belongings
    BY <1>2 DEF Balanced, Agreed
  <2>2. CASE PutAway(p, x)
    <3> DEFINE b == [own[p] EXCEPT !.items = @ \ {x}, !.away = @ \cup {x}]
    <3>1. own' = [own EXCEPT ![p] = b] /\ saved' = saved /\ x \in own[p].items
      BY <2>2 DEF PutAway
    <3>2. /\ b \in Belongings /\ b.items = own[p].items \ {x} /\ b.away = own[p].away \cup {x}
          /\ b.gold = own[p].gold /\ b.spent = own[p].spent
      BY <2>1 DEF Belongings
    <3> HIDE DEF b
    <3>3. Had(b) = Had(own[p]) /\ b.items \cap b.away = {} /\ Worth(b) = Worth(own[p])
      BY <2>1, <3>1, <3>2 DEF Had, Worth
    <3> QED
      BY <3>1, <3>2, <3>3, OwnStep
  <2>3. CASE GetBack(p, x)
    <3> DEFINE b == [own[p] EXCEPT !.items = @ \cup {x}, !.away = @ \ {x}]
    <3>1. own' = [own EXCEPT ![p] = b] /\ saved' = saved /\ x \in own[p].away
      BY <2>3 DEF GetBack
    <3>2. /\ b \in Belongings /\ b.items = own[p].items \cup {x} /\ b.away = own[p].away \ {x}
          /\ b.gold = own[p].gold /\ b.spent = own[p].spent
      BY <2>1 DEF Belongings
    <3> HIDE DEF b
    <3>3. Had(b) = Had(own[p]) /\ b.items \cap b.away = {} /\ Worth(b) = Worth(own[p])
      BY <2>1, <3>1, <3>2 DEF Had, Worth
    <3> QED
      BY <3>1, <3>2, <3>3, OwnStep
  <2>4. CASE Bind(p, x)
    <3> DEFINE b == [own[p] EXCEPT !.bound = @ \cup {x}]
    <3>1. own' = [own EXCEPT ![p] = b] /\ saved' = saved
      BY <2>4 DEF Bind
    <3>2. /\ b \in Belongings /\ b.items = own[p].items /\ b.away = own[p].away
          /\ b.gold = own[p].gold /\ b.spent = own[p].spent
      BY <2>1 DEF Belongings
    <3> HIDE DEF b
    <3>3. Had(b) = Had(own[p]) /\ b.items \cap b.away = {} /\ Worth(b) = Worth(own[p])
      BY <2>1, <3>2 DEF Had, Worth
    <3> QED
      BY <3>1, <3>2, <3>3, OwnStep
  <2> QED
    BY <1>4, <2>2, <2>3, <2>4
<1>5. ASSUME NEW p \in Players, SaveToDB(p) \/ LogoutPlayer(p) PROVE Balanced'
  <2>1. own' = own /\ saved' = SaveInventoryAndGoldToDB(own, {p})
    BY <1>5 DEF SaveToDB, LogoutPlayer
  <2> QED
    BY <2>1, SaveStep
<1>6. ASSUME NEW p \in Players, Login(p) PROVE Balanced'
  <2>1. own' = [own EXCEPT ![p] = saved[p]] /\ saved' = saved
    BY <1>6 DEF Login
  <2>2. /\ Worth(saved[p]) = Worth(own[p]) /\ Had(saved[p]) = Had(own[p])
        /\ saved[p].items \cap saved[p].away = {}
    BY DEF Balanced, Agreed
  <2> QED
    BY <1>2, <2>1, <2>2, OwnStep
<1>7. CASE Crash
  BY <1>7, CrashStep DEF Crash
<1>8. ASSUME NEW p \in Players, NEW seen, AcceptTrade(p, seen) PROVE Balanced'
  BY <1>8, ExchangeStep
<1>9. \/ own' = own /\ saved' = saved
      \/ \E p \in Players :
            \/ Spend(p)
            \/ \E x \in Items : PutAway(p, x) \/ GetBack(p, x) \/ Bind(p, x)
            \/ SaveToDB(p) \/ LogoutPlayer(p) \/ Login(p)
            \/ \E seen \in Seen(p) : AcceptTrade(p, seen)
      \/ Crash
  BY DEF Next, vars, InitiateTrade, SetTradeGold, SetTradeItem, ClearTradeItem, SetCount, CastOnTradeItem,
         UnacceptTrade, TradeCancel, AcceptRefused, AcceptNoMoney, AcceptNotYet, AcceptNoSpell, AcceptNoRoom
<1> QED
  BY <1>1, <1>3, <1>4, <1>5, <1>6, <1>7, <1>8, <1>9

\* An item is in one place of one player.
LEMMA InOnePlace ==
    ASSUME NEW b, NEW p \in Players, NEW x, x \in Had(b[p]),
           \A r, o \in Players : r # o => Had(b[r]) \cap Had(b[o]) = {},
           b[p].items \cap b[p].away = {}
    PROVE  Cardinality({r \in Players : x \in b[r].items}) + Cardinality({r \in Players : x \in b[r].away}) = 1
<1> DEFINE A == {r \in Players : x \in b[r].items}
           B == {r \in Players : x \in b[r].away}
<1>1. \A r \in Players \ {p} : x \notin b[r].items /\ x \notin b[r].away
  BY DEF Had
<1>2. (A = {p} /\ B = {}) \/ (A = {} /\ B = {p})
  <2>1. CASE x \in b[p].items
    BY <1>1, <2>1
  <2>2. CASE x \notin b[p].items
    BY <1>1, <2>2 DEF Had
  <2> QED
    BY <2>1, <2>2
<1>3. Cardinality({p}) = 1 /\ Cardinality({}) = 0
  BY FS_Singleton, FS_EmptySet
<1> HIDE DEF A, B
<1>4. Cardinality(A) + Cardinality(B) = 1
  BY <1>2, <1>3
<1> QED
  BY <1>4 DEF A, B

\* What the accounts say when they are balanced.
LEMMA BalancedComplete == Balanced => NothingMadeOrLost
<1> SUFFICES ASSUME Balanced PROVE NothingMadeOrLost
  OBVIOUS
<1>1. \A p \in Players : own[p].gold + own[p].spent = saved[p].gold + saved[p].spent
  BY DEF Balanced, Agreed, Worth
<1>2. Worths(saved) = Worths(own)
  BY <1>1 DEF Worths
<1>3. Sum(Worths(own)) = Sum(InitGold) /\ Sum(Worths(saved)) = Sum(InitGold)
  BY <1>2 DEF Balanced
<1>4. ASSUME NEW x \in Items, \E p \in Players : x \in InitItems[p]
      PROVE  /\ Cardinality({p \in Players : x \in own[p].items}) +
                    Cardinality({p \in Players : x \in own[p].away}) = 1
             /\ Cardinality({p \in Players : x \in saved[p].items}) +
                    Cardinality({p \in Players : x \in saved[p].away}) = 1
  <2>1. PICK p \in Players : x \in Had(own[p])
    BY <1>4 DEF Balanced, Owned
  <2>2. /\ \A r, o \in Players : r # o => Had(own[r]) \cap Had(own[o]) = {}
        /\ \A r, o \in Players : r # o => Had(saved[r]) \cap Had(saved[o]) = {}
        /\ own[p].items \cap own[p].away = {} /\ saved[p].items \cap saved[p].away = {}
        /\ x \in Had(saved[p])
    BY <2>1 DEF Balanced, Owned, Agreed
  <2>3. /\ Cardinality({r \in Players : x \in own[r].items}) +
               Cardinality({r \in Players : x \in own[r].away}) = 1
    BY <2>1, <2>2, InOnePlace
  <2>4. /\ Cardinality({r \in Players : x \in saved[r].items}) +
               Cardinality({r \in Players : x \in saved[r].away}) = 1
    BY <2>2, InOnePlace
  <2> QED
    BY <2>3, <2>4
<1> QED
  BY <1>3, <1>4 DEF NothingMadeOrLost, Complete, Worths

\* All variables keep their types.
THEOREM TypeCorrect == Spec => []TypeOK
<1>1. Inv /\ Balanced => TypeOK
  BY DEF Inv, Sound, Linked, Balanced, Types, TypeOK
<1> QED
  BY <1>1, InitInv, NextInv, InitBalanced, NextBalanced, PTL DEF Spec

\* Whatever the players trade, spend, put away and save, and whenever the server dies:
\* together they have the gold and the items they started with, each item once, in the
\* world and in the database. Both sides of an exchange are saved in one transaction.
THEOREM NothingIsMadeOrLost == Spec => []NothingMadeOrLost
  BY BalancedComplete, InitInv, NextInv, InitBalanced, NextBalanced, PTL DEF Spec

-----------------------------------------------------------------------------
(* What an exchange moves.  HandleSetTradeItemOpcode lets into a window     *)
(* only what its owner has and his trader may have; while the window is     *)
(* open an item leaves its owner in one way only, outside the trade.        *)

Offered ==
    \A p \in Players : trade[p] # NoTrade => \A s \in TradedSlots :
        LET x == trade[p].items[s]
        IN  x = None \/ (x \in own[p].items \cup Loose /\ trade[p].trader \in Allowed[x])

\* What it takes of a step to keep that.
LEMMA KeptOffered ==
    ASSUME Offered, OffersKept(trade, trade'),
           \A r \in Players : trade'[r] # NoTrade => own[r].items \ Loose \subseteq own'[r].items
    PROVE  Offered'
<1> SUFFICES ASSUME NEW p \in Players, trade'[p] # NoTrade, NEW s \in TradedSlots, NEW x,
                    x = trade'[p].items[s], x # None
             PROVE  x \in own'[p].items \cup Loose /\ trade'[p].trader \in Allowed[x]
  BY DEF Offered
<1>1. trade[p] # NoTrade /\ trade'[p].trader = trade[p].trader /\ x = trade[p].items[s]
  BY DEF OffersKept, AllSlots
<1>2. x \in own[p].items \cup Loose /\ trade[p].trader \in Allowed[x]
  BY <1>1 DEF Offered
<1> QED
  BY <1>1, <1>2

\* Every step keeps it.
LEMMA NextOffered == Inv /\ Balanced /\ Offered /\ [Next]_vars => Offered'
<1> SUFFICES ASSUME Inv, Balanced, Offered, [Next]_vars PROVE Offered'
  OBVIOUS
<1>0. own \in [Players -> Belongings] /\ OffersKept(trade, trade)
  BY DEF Balanced, Types, OffersKept
<1>1. CASE UNCHANGED vars
  BY <1>1 DEF vars, Offered
<1>2. CASE \E p, q \in Players : InitiateTrade(p, q)
  <2>1. PICK p \in Players, q \in Players : InitiateTrade(p, q)
    BY <1>2
  <2>2. \A r \in Players : \A s \in AllSlots : NewTrade(r).items[s] = None
    BY DEF NewTrade
  <2>3. own' = own /\ \A r \in Players : trade'[r] \in {trade[r], NewTrade(q), NewTrade(p)}
    BY <2>1 DEF InitiateTrade, Inv, Sound, Linked
  <2> QED
    BY <2>2, <2>3 DEF Offered, AllSlots
<1>3. CASE \E p \in Players :
            \/ \E money \in 0 .. MaxMoney : SetTradeGold(p, money)
            \/ \E s \in AllSlots, x \in Items : SetTradeItem(p, s, x)
            \/ \E s \in AllSlots : ClearTradeItem(p, s) \/ SetCount(p, s)
            \/ CastOnTradeItem(p)
            \/ UnacceptTrade(p)
            \/ AcceptRefused(p)
            \/ TradeCancel(p)
  <2>1. own' = own
    BY <1>3 DEF SetTradeGold, SetTradeItem, ClearTradeItem, SetCount, CastOnTradeItem,
                UnacceptTrade, AcceptRefused, TradeCancel
  <2>2. CASE OffersKept(trade, trade')
    BY <2>1, <2>2, KeptOffered
  <2>3. CASE \E p \in Players, s \in AllSlots, x \in Items :
                 /\ SetTradeItem(p, s, x)
                 /\ OffersKept([trade EXCEPT ![p].items[s] = x], trade')
    <3>1. PICK p \in Players, s \in AllSlots, x \in Items :
                 /\ SetTradeItem(p, s, x)
                 /\ OffersKept([trade EXCEPT ![p].items[s] = x], trade')
      BY <2>3
    <3>2. /\ trade[p] # NoTrade /\ x \in own[p].items
          /\ s # Nontraded => trade[p].trader \in Allowed[x]
      BY <3>1 DEF SetTradeItem, IsBindedNotWith, Trading, Trader
    <3>3. trade[p] \in TradeDatas /\ trade \in [Players -> TradeDatas \cup {NoTrade}]
      BY <3>2, TwoSides DEF Inv, Sound, Linked
    <3> DEFINE c == [trade EXCEPT ![p].items[s] = x]
    <3>4. /\ c[p].trader = trade[p].trader
          /\ c[p].items = [trade[p].items EXCEPT ![s] = x]
          /\ \A r \in Players \ {p} : c[r] = trade[r]
          /\ trade[p].items \in [AllSlots -> Items \cup {None}]
      BY <3>3 DEF TradeDatas
    <3> HIDE DEF c
    <3> SUFFICES ASSUME NEW r \in Players, trade'[r] # NoTrade, NEW u \in TradedSlots, NEW y,
                        y = trade'[r].items[u], y # None
                 PROVE  y \in own[r].items \cup Loose /\ trade'[r].trader \in Allowed[y]
      BY <2>1 DEF Offered
    <3>5. u \in AllSlots /\ u # Nontraded
      BY TradeAssumption DEF TradedSlots, AllSlots, Nontraded
    <3>6. c[r] # NoTrade /\ trade'[r].trader = c[r].trader /\ y = c[r].items[u]
      BY <3>1, <3>5 DEF OffersKept, c
    <3>7. CASE r = p /\ u = s
      BY <3>2, <3>4, <3>5, <3>6, <3>7
    <3>8. CASE ~(r = p /\ u = s)
      <4>1. trade[r] # NoTrade /\ c[r].trader = trade[r].trader /\ y = trade[r].items[u]
        BY <3>2, <3>4, <3>5, <3>6, <3>8
      <4> QED
        BY <3>6, <4>1 DEF Offered
    <3> QED
      BY <3>7, <3>8
  <2> QED
    BY <1>3, <2>2, <2>3, HandlerInv
<1>4. CASE \E p \in Players : \E seen \in Seen(p) :
            \/ AcceptNoMoney(p, seen)
            \/ AcceptNotYet(p, seen)
            \/ \E r \in Players : AcceptNoSpell(p, seen, r)
            \/ AcceptNoRoom(p, seen)
            \/ AcceptTrade(p, seen)
  <2>1. PICK p \in Players : \E seen \in Seen(p) :
            \/ AcceptNoMoney(p, seen)
            \/ AcceptNotYet(p, seen)
            \/ \E r \in Players : AcceptNoSpell(p, seen, r)
            \/ AcceptNoRoom(p, seen)
            \/ AcceptTrade(p, seen)
    BY <1>4
  <2>5. PICK seen \in Seen(p) :
            \/ AcceptNoMoney(p, seen)
            \/ AcceptNotYet(p, seen)
            \/ \E r \in Players : AcceptNoSpell(p, seen, r)
            \/ AcceptNoRoom(p, seen)
            \/ AcceptTrade(p, seen)
    BY <2>1
  <2>2. OffersKept(trade, trade')
    BY <2>5, AcceptInv
  <2>3. CASE AcceptTrade(p, seen)
    <3>1. /\ Trading(p) /\ Trader(p) \in Players
          /\ \A r \in Players \ {p, Trader(p)} : own'[r] = own[r]
      BY <2>3, Exchanged
    <3>2. trade'[p] = NoTrade /\ trade'[Trader(p)] = NoTrade
      BY <2>3, <3>1 DEF AcceptTrade, Cancelled, Inv, Sound, Linked
    <3> QED
      BY <2>2, <3>1, <3>2, KeptOffered
  <2>4. CASE ~AcceptTrade(p, seen)
    <3>1. own' = own
      BY <2>5, <2>4 DEF AcceptNoMoney, AcceptNotYet, AcceptNoSpell, AcceptNoRoom
    <3> QED
      BY <2>2, <3>1, KeptOffered
  <2> QED
    BY <2>3, <2>4
<1>5. CASE \E p \in Players :
            \/ Spend(p)
            \/ \E x \in Items : PutAway(p, x) \/ GetBack(p, x) \/ Bind(p, x)
            \/ SaveToDB(p)
  <2>1. PICK p \in Players :
            \/ Spend(p)
            \/ \E x \in Items : PutAway(p, x) \/ GetBack(p, x) \/ Bind(p, x)
            \/ SaveToDB(p)
    BY <1>5
  <2>2. trade' = trade
    BY <2>1 DEF Spend, PutAway, GetBack, Bind, SaveToDB
  <2>3. \A r \in Players : own[r].items \ Loose \subseteq own'[r].items
    <3>1. own[p] \in Belongings
      BY <1>0
    <3>2. CASE Spend(p) \/ (\E x \in Items : Bind(p, x)) \/ SaveToDB(p)
      BY <1>0, <3>1, <3>2 DEF Spend, Bind, SaveToDB, Belongings
    <3>3. CASE \E x \in Items : GetBack(p, x)
      BY <1>0, <3>1, <3>3 DEF GetBack, Belongings
    <3>4. CASE \E x \in Items : PutAway(p, x)
      BY <1>0, <3>1, <3>4 DEF PutAway, Belongings
    <3> QED
      BY <2>1, <3>2, <3>3, <3>4
  <2> QED
    BY <1>0, <2>2, <2>3, KeptOffered
<1>6. CASE \E p \in Players : LogoutPlayer(p)
  <2>1. PICK p \in Players : LogoutPlayer(p)
    BY <1>6
  <2>2. OffersKept(trade, trade') /\ own' = own
    BY <2>1, CancelledSound DEF LogoutPlayer
  <2> QED
    BY <2>2, KeptOffered
<1>7. CASE \E p \in Players : Login(p)
  <2>1. PICK p \in Players : Login(p)
    BY <1>7
  <2>2. trade' = trade /\ trade[p] = NoTrade /\ \A r \in Players \ {p} : own'[r] = own[r]
    BY <1>0, <2>1 DEF Login, Inv, Sound, Linked
  <2> QED
    BY <1>0, <2>2, KeptOffered
<1>8. CASE Crash
  BY <1>8 DEF Crash, Offered
<1> QED
  BY <1>1, <1>2, <1>3, <1>4, <1>5, <1>6, <1>7, <1>8 DEF Next

\* What one side gets, for an offer of the other that shows what is on the table.
LEMMA ShownIsGot ==
    ASSUME Balanced, Inv, Offered, NEW p \in Players, NEW q \in Players, p # q, Trading(q),
           Trader(q) = p, NEW offer, offer \in Offers, Shows(offer, trade[q]),
           \A x \in GetItems(trade, q) : CanBeTraded(q, x),
           own'[p].items = (own[p].items \ GetItems(trade, p)) \cup GetItems(trade, q)
    PROVE  AsShown(p, q, offer)
<1>1. own[p].items \cap own[q].items = {}
  BY DEF Balanced, Owned, Had
<1>2. /\ offer.items \subseteq Items /\ offer.items \subseteq InWindow(trade[q])
      /\ offer.money = trade[q].money
  BY DEF Offers, Shows
<1>3. GetItems(trade, q) = {x \in InWindow(trade[q]) : x \in own[q].items /\ x # None}
  BY DEF GetItems, GetItem, InWindow
<1>4. \A x \in Items : x # None
  BY TradeAssumption
<1>5. \A x \in InWindow(trade[q]) :
          x = None \/ (x \in own[q].items \cup Loose /\ p \in Allowed[x])
  BY DEF InWindow, Offered, Trading, Trader
<1>6. offer.items \ (Loose \ own[q].items) \subseteq own'[p].items
  BY <1>2, <1>3, <1>4, <1>5
<1>7. \A x \in own'[p].items \cap own[q].items : x \in GetItems(trade, q)
  BY <1>1
<1> QED
  BY <1>2, <1>3, <1>5, <1>6, <1>7 DEF AsShown, CanBeTraded

\* The exchange that accepting completes, for both sides.
LEMMA AcceptedAsShown ==
    ASSUME Balanced, Inv, Offered, NEW r \in Players, NEW seen, AcceptTrade(r, seen),
           NEW p \in Players, NEW q \in Players, (p = r /\ q = Trader(r)) \/ (q = r /\ p = Trader(r))
    PROVE  /\ own'[p].gold = own[p].gold - trade[p].money + trade[q].money
           /\ trade[p].accepted => AsShown(p, q, trade[p].agreed)
           /\ \A o \in trade[q].sent : AsShown(p, q, o)
<1>1. /\ p # q /\ Trading(p) /\ Trading(q) /\ Trader(p) = q /\ own[p] \in Belongings
      /\ Trader(q) = p
      /\ own'[p] = GetsFrom(p, q)
  <2>1. own[p] \in Belongings
    BY DEF Balanced, Types
  <2>2. CASE p = r /\ q = Trader(r)
    BY <2>1, <2>2, Exchanged
  <2>3. CASE q = r /\ p = Trader(r)
    BY <2>1, <2>3, Exchanged
  <2> QED
    BY <2>1, <2>2, <2>3
<1>2. /\ own'[p].items = (own[p].items \ GetItems(trade, p)) \cup GetItems(trade, q)
      /\ own'[p].gold = own[p].gold - trade[p].money + trade[q].money
  BY <1>1 DEF Belongings, GetsFrom
<1>3. /\ trade[p] # NoTrade /\ trade[q] # NoTrade /\ trade[p].trader = q
      /\ trade[p] \in TradeDatas /\ trade[q] \in TradeDatas
  BY <1>1 DEF Trading, Trader, Inv, Sound, Linked
<1>4. trade[p].agreed \in Offers /\ trade[q].sent \subseteq Offers
  BY <1>3 DEF TradeDatas
<1>5. /\ trade[p].accepted => Shows(trade[p].agreed, trade[q])
      /\ \A o \in trade[q].sent : Shows(o, trade[q])
  BY <1>3 DEF Inv, Sound, Current
<1>6. \A x \in GetItems(trade, q) : CanBeTraded(q, x)
  BY <1>1 DEF AcceptTrade, BothAccept, ItemsRight
<1>7. \A o \in Offers : Shows(o, trade[q]) => AsShown(p, q, o)
  BY <1>1, <1>2, <1>6, ShownIsGot
<1> QED
  BY <1>2, <1>4, <1>5, <1>7

\* Only an exchange ends a trade and moves something.
LEMMA WhoExchanges ==
    ASSUME Balanced, Inv, [Next]_vars, NEW p \in Players, NEW q \in Players, Exchange(p, q), online' # {}
    PROVE  \E r \in {p, q} : \E seen : AcceptTrade(r, seen) /\ {p, q} = {r, Trader(r)}
<1>1. trade'[p] # trade[p] /\ own' # own
  BY DEF Exchange, Trading
<1>2. PICK r \in Players : \E seen : AcceptTrade(r, seen)
  <2>1. ~(UNCHANGED vars)
    BY <1>1 DEF vars
  <2>2. ~Crash
    BY DEF Crash
  <2>3. \A o \in Players : /\ ~Spend(o) /\ ~SaveToDB(o) /\ ~LogoutPlayer(o) /\ ~Login(o)
                           /\ \A x \in Items : ~PutAway(o, x) /\ ~GetBack(o, x) /\ ~Bind(o, x)
    BY <1>1 DEF Spend, SaveToDB, LogoutPlayer, Login, PutAway, GetBack, Bind
  <2> QED
    BY <1>1, <2>1, <2>2, <2>3 DEF Next, InitiateTrade, SetTradeGold, SetTradeItem, ClearTradeItem, SetCount,
       CastOnTradeItem, UnacceptTrade, TradeCancel, AcceptRefused, AcceptNoMoney, AcceptNotYet, AcceptNoSpell,
       AcceptNoRoom
<1>3. PICK seen : AcceptTrade(r, seen)
  BY <1>2
<1>4. Trader(r) \in Players /\ Trading(r) /\ Trading(Trader(r)) /\ Trader(Trader(r)) = r
  BY <1>3, Exchanged
<1>5. trade' = [trade EXCEPT ![r] = NoTrade, ![Trader(r)] = NoTrade]
  BY <1>3, <1>4 DEF AcceptTrade, Cancelled
<1>6. p \in {r, Trader(r)}
  BY <1>1, <1>4, <1>5 DEF Inv, Sound, Linked
<1>7. Trader(p) = q
  BY DEF Exchange
<1> QED
  BY <1>3, <1>4, <1>6, <1>7

\* An exchange pays what each client was showing when its player accepted, in full, and moves
\* every item it was showing but those that have left their owner outside the trade, and no
\* other, nor one that is bound or that the other may not have, whatever was changed while the
\* accept packets were under way. With no such items (Loose is empty) it is exactly what was
\* shown.
THEOREM ExchangeIsOfWhatIsLeft == Spec => ExchangeOfWhatIsLeft
<1> DEFINE A == \A p, q \in Players : Exchange(p, q) /\ online' # {} =>
                    /\ own'[p].gold = own[p].gold - trade[p].money + trade[q].money
                    /\ trade[p].accepted => AsShown(p, q, trade[p].agreed)
                    /\ \A seen \in trade[q].sent : AsShown(p, q, seen)
<1>1. Inv /\ Balanced /\ Offered /\ [Next]_vars => A
  <2> SUFFICES ASSUME Inv, Balanced, Offered, [Next]_vars, NEW p \in Players, NEW q \in Players,
                      Exchange(p, q), online' # {}
               PROVE  /\ own'[p].gold = own[p].gold - trade[p].money + trade[q].money
                      /\ trade[p].accepted => AsShown(p, q, trade[p].agreed)
                      /\ \A seen \in trade[q].sent : AsShown(p, q, seen)
    OBVIOUS
  <2>1. PICK r \in {p, q} : \E seen : AcceptTrade(r, seen) /\ {p, q} = {r, Trader(r)}
    BY WhoExchanges
  <2>2. PICK seen : AcceptTrade(r, seen)
    BY <2>1
  <2>3. Trader(r) # r
    BY <2>2, Exchanged
  <2>4. (p = r /\ q = Trader(r)) \/ (q = r /\ p = Trader(r))
    BY <2>1, <2>3
  <2> QED
    BY <2>2, <2>4, AcceptedAsShown
<1>2. Inv /\ Balanced /\ Offered /\ [Next]_vars => [A]_vars
  BY <1>1
<1>3. Init => Offered
  BY DEF Init, Offered
<1> QED
  BY <1>2, <1>3, InitInv, NextInv, InitBalanced, NextBalanced, NextOffered, PTL DEF Spec, ExchangeOfWhatIsLeft
=============================================================================
