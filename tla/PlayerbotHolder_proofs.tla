------------------------ MODULE PlayerbotHolder_proofs ------------------------
(***************************************************************************)
(* What PlayerbotHolder promises, for any number of characters, owners and  *)
(* sessions: the type invariant, the books of the holders (Ownership), the  *)
(* reservations (LoginsExclusive) and the two promises about the pointers   *)
(* that the random manager follows.                                         *)
(***************************************************************************)
EXTENDS PlayerbotHolder, TLAPS

Entry(h, g) == pendingBots[h][g] \cup botSessions[h][g]

\* An entry holds sessions that exist, of the character it is filed under; one
\* that is pending has no player yet.
Filed ==
    \A h \in Holders, g \in Guids :
        /\ pendingBots[h][g] = {} \/ botSessions[h][g] = {}
        /\ \A i \in pendingBots[h][g] : i \in live /\ i \notin played /\ g \in guid[i]
        /\ \A i \in botSessions[h][g] : i \in live /\ g \in guid[i]

\* Every session has an entry.
Held == \A i \in live : \E h \in Holders, g \in Guids : i \in Entry(h, g)

\* No session has two.
Apart ==
    \A h, k \in Holders, g, f \in Guids : \A i \in Entry(h, g) :
        i \in Entry(k, f) => h = k /\ g = f

\* The manager of a real player who left is empty and no update is inside it.
Absent ==
    \A m \in Owners : owner[m] = "out" =>
        /\ \A g \in Guids : pendingBots[m][g] = {} /\ botSessions[m][g] = {}
        /\ pc \in {"pending", "active"} => cur # m

\* A character that is no bot in the world has no AI, hence no master and no commands.
Mindless ==
    \A g \in Guids : (\A i \in played : g \notin guid[i]) => master[g] = {} /\ commands[g] = {}

Books == Filed /\ Held /\ Apart /\ ReservedWhilePending /\ EntriesOwned

Bots == OnePlayer /\ Mindless /\ RandomEntriesAlive /\ RandomBotsHear

Inv == TypeOK /\ Books /\ Bots /\ Absent /\ NothingLeftBehind

-----------------------------------------------------------------------------
(* What the operators that delete sessions and players do, entry by entry. *)

\* The characters whose players go with the sessions S.
Dead(S) == {g \in Guids : \E i \in S : i \in played /\ g \in guid[i]}

\* The set of characters that DeletePlayers builds is Dead(S).
LEMMA DeadIs ==
    ASSUME SessionTypes, NEW S
    PROVE  UNION {guid[i] : i \in S \cap played} = Dead(S)
  <1>1. \A i \in played : guid[i] \subseteq Guids
    BY DEF SessionTypes, Pointers
  <1> QED BY <1>1 DEF Dead

\* DeletePlayers takes the players of S out of the world, erases the entries it is
\* told to and those Forgotten finds, and cleans the AIs that survive and hear.
LEMMA DeletePlayersEffect ==
    ASSUME SessionTypes, HolderTypes, AITypes, NEW S, NEW erased, NEW left,
           DeletePlayers(S, erased, left)
    PROVE  /\ played' = played \ S
           /\ playerBots' \in [Holders -> SUBSET Guids]
           /\ \A h \in Holders, g \in Guids :
                g \in playerBots'[h] <=>
                    /\ g \in playerBots[h] /\ g \notin erased[h]
                    /\ ~(g \in Dead(S) /\ (h = Random \/ h \in master[g]))
           /\ AITypes'
           /\ \A g \in Guids :
                /\ g \in Dead(S) => master'[g] = {} /\ commands'[g] = {}
                /\ master'[g] \subseteq master[g] /\ commands'[g] \subseteq commands[g]
                /\ g \in playerBots[Random] =>
                       master'[g] \cap left = {} /\ commands'[g] \cap left = {}
  <1> DEFINE dead == UNION {guid[i] : i \in S \cap played}
             Kept(g, refs) == IF g \in dead THEN {}
                              ELSE IF Hears(g) THEN refs \ left ELSE refs
  <1>1. dead = Dead(S)
    BY DeadIs
  <1>2. /\ played' = played \ S
        /\ playerBots' = [h \in Holders |-> (playerBots[h] \ erased[h]) \ Forgotten(h, dead)]
        /\ master' = [g \in Guids |-> Kept(g, master[g])]
        /\ commands' = [g \in Guids |-> Kept(g, commands[g])]
    BY DEF DeletePlayers
  <1> HIDE DEF dead
  <1>3. /\ playerBots' \in [Holders -> SUBSET Guids]
        /\ \A h \in Holders, g \in Guids :
             g \in playerBots'[h] <=>
                 /\ g \in playerBots[h] /\ g \notin erased[h]
                 /\ ~(g \in Dead(S) /\ (h = Random \/ h \in master[g]))
    BY <1>1, <1>2 DEF HolderTypes, Forgotten
  <1>4. \A g \in Guids :
            /\ master'[g] = Kept(g, master[g])
            /\ commands'[g] = Kept(g, commands[g])
    BY <1>2
  <1>5. \A g \in Guids :
            /\ g \in Dead(S) => master'[g] = {} /\ commands'[g] = {}
            /\ master'[g] \subseteq master[g] /\ commands'[g] \subseteq commands[g]
            /\ g \in playerBots[Random] =>
                   master'[g] \cap left = {} /\ commands'[g] \cap left = {}
    BY <1>1, <1>4 DEF Hears
  <1>6. AITypes'
    BY <1>2, <1>5 DEF AITypes, Pointers
  <1> QED BY <1>2, <1>3, <1>5, <1>6

\* DeleteSessions frees the sessions S.
LEMMA DeleteSessionsEffect ==
    ASSUME SessionTypes, NEW S, DeleteSessions(S), played' = played \ S
    PROVE  /\ live' = live \ S /\ SessionTypes'
           /\ \A i \in Ids : i \notin S => guid'[i] = guid[i]
  BY DEF SessionTypes, DeleteSessions, Pointers

\* Drop takes the sessions S from every entry and every reservation that rests on one.
LEMMA DropEffect ==
    ASSUME SessionTypes, HolderTypes, AITypes, NEW S, NEW erased, NEW left,
           Drop(S, erased, left)
    PROVE  /\ pendingBots' \in [Holders -> [Guids -> Pointers(Ids)]]
           /\ botSessions' \in [Holders -> [Guids -> Pointers(Ids)]]
           /\ \A h \in Holders, g \in Guids :
                /\ pendingBots'[h][g] = pendingBots[h][g] \ S
                /\ botSessions'[h][g] = botSessions[h][g] \ S
           /\ \A g \in Guids : g \in pendingBotLogins' <=>
                /\ g \in pendingBotLogins
                /\ \A h \in Holders : pendingBots[h][g] \cap S = {}
           /\ HolderTypes' /\ SessionTypes'
  <1>1. /\ pendingBots' = [h \in Holders |-> [g \in Guids |-> pendingBots[h][g] \ S]]
        /\ botSessions' = [h \in Holders |-> [g \in Guids |-> botSessions[h][g] \ S]]
        /\ pendingBotLogins' =
             pendingBotLogins \ {g \in Guids : \E h \in Holders : pendingBots[h][g] \cap S # {}}
        /\ DeletePlayers(S, erased, left)
        /\ DeleteSessions(S)
    BY DEF Drop
  <1>2. \A P \in Pointers(Ids) : P \ S \in Pointers(Ids)
    BY DEF Pointers
  <1>3. pendingBots' \in [Holders -> [Guids -> Pointers(Ids)]]
    BY <1>1, <1>2 DEF HolderTypes
  <1>4. botSessions' \in [Holders -> [Guids -> Pointers(Ids)]]
    BY <1>1, <1>2 DEF HolderTypes
  <1>5. /\ \A h \in Holders, g \in Guids :
             /\ pendingBots'[h][g] = pendingBots[h][g] \ S
             /\ botSessions'[h][g] = botSessions[h][g] \ S
        /\ \A g \in Guids : g \in pendingBotLogins' <=>
             /\ g \in pendingBotLogins
             /\ \A h \in Holders : pendingBots[h][g] \cap S = {}
    BY <1>1
  <1>6. HolderTypes'
    BY <1>1, <1>3, <1>4, DeletePlayersEffect DEF HolderTypes
  <1>7. SessionTypes'
    BY <1>1, DeletePlayersEffect, DeleteSessionsEffect
  <1> QED BY <1>3, <1>4, <1>5, <1>6, <1>7

\* Dropping sessions keeps the books, provided the holders that owned one are
\* told to erase its player.
LEMMA DropKeepsBooks ==
    ASSUME TypeOK, Books, NEW S, NEW erased, NEW left, Drop(S, erased, left),
           \A h \in Holders, g \in Guids : botSessions[h][g] \cap S # {} => g \in erased[h]
    PROVE  Books'
  <1>1. SessionTypes /\ HolderTypes /\ AITypes
    BY DEF TypeOK
  <1>2. DeletePlayers(S, erased, left) /\ DeleteSessions(S)
    BY DEF Drop
  <1>3. /\ played' = played \ S /\ live' = live \ S
        /\ \A i \in Ids : i \notin S => guid'[i] = guid[i]
    BY <1>1, <1>2, DeletePlayersEffect, DeleteSessionsEffect
  <1>4. \A h \in Holders, g \in Guids : g \in playerBots'[h] =>
            g \in playerBots[h] /\ g \notin erased[h]
    BY <1>1, <1>2, DeletePlayersEffect
  <1>5. /\ \A h \in Holders, g \in Guids :
             /\ pendingBots'[h][g] = pendingBots[h][g] \ S
             /\ botSessions'[h][g] = botSessions[h][g] \ S
        /\ \A g \in Guids : g \in pendingBotLogins' <=>
             /\ g \in pendingBotLogins
             /\ \A h \in Holders : pendingBots[h][g] \cap S = {}
        /\ HolderTypes'
    BY <1>1, DropEffect
  <1>6. Filed'
    BY <1>1, <1>3, <1>5 DEF Books, Filed, SessionTypes
  <1>7. Held'
    BY <1>3, <1>5 DEF Books, Held, Entry
  <1>8. Apart'
    BY <1>5 DEF Books, Apart, Entry
  <1>9. ReservedWhilePending'
    <2> SUFFICES ASSUME NEW g \in Guids
                 PROVE  /\ \A h, k \in Holders :
                             pendingBots'[h][g] # {} /\ pendingBots'[k][g] # {} => h = k
                        /\ g \in pendingBotLogins' <=> \E h \in Holders : pendingBots'[h][g] # {}
      BY DEF ReservedWhilePending
    <2>1. /\ \A h, k \in Holders : pendingBots[h][g] # {} /\ pendingBots[k][g] # {} => h = k
          /\ g \in pendingBotLogins <=> \E h \in Holders : pendingBots[h][g] # {}
      BY DEF Books, ReservedWhilePending
    <2>2. \A h \in Holders : \A i, j \in pendingBots[h][g] : i = j
      BY <1>1 DEF HolderTypes, Pointers
    <2> QED BY <1>5, <2>1, <2>2
  <1>10. EntriesOwned'
    <2> SUFFICES ASSUME NEW h \in Holders, NEW g \in playerBots'[h]
                 PROVE  botSessions'[h][g] # {}
      BY DEF EntriesOwned
    <2>1. g \in Guids
      BY <1>5 DEF HolderTypes
    <2>2. botSessions[h][g] # {} /\ botSessions[h][g] \cap S = {}
      BY <1>4, <2>1 DEF Books, EntriesOwned
    <2> QED BY <1>5, <2>1, <2>2
  <1> QED BY <1>6, <1>7, <1>8, <1>9, <1>10 DEF Books

\* It keeps what is said of the bots, provided the owners who leave are named.
LEMMA DropKeepsBots ==
    ASSUME TypeOK, Books, Bots, NEW S, NEW erased, NEW left, Drop(S, erased, left),
           UNCHANGED client,
           \A m \in Owners : Present(m) => Present(m)' \/ m \in left
    PROVE  Bots'
  <1>1. SessionTypes /\ HolderTypes /\ AITypes
    BY DEF TypeOK
  <1>2. DeletePlayers(S, erased, left) /\ DeleteSessions(S)
    BY DEF Drop
  <1>3. /\ played' = played \ S /\ live' = live \ S
        /\ \A i \in Ids : i \notin S => guid'[i] = guid[i]
    BY <1>1, <1>2, DeletePlayersEffect, DeleteSessionsEffect
  <1>4. \A h \in Holders, g \in Guids :
            g \in playerBots'[h] <=>
                /\ g \in playerBots[h] /\ g \notin erased[h]
                /\ ~(g \in Dead(S) /\ (h = Random \/ h \in master[g]))
    BY <1>1, <1>2, DeletePlayersEffect
  <1>5. \A g \in Guids :
            /\ g \in Dead(S) => master'[g] = {} /\ commands'[g] = {}
            /\ master'[g] \subseteq master[g] /\ commands'[g] \subseteq commands[g]
            /\ g \in playerBots[Random] =>
                   master'[g] \cap left = {} /\ commands'[g] \cap left = {}
    BY <1>1, <1>2, DeletePlayersEffect
  <1>6. \A h \in Holders, g \in Guids : botSessions'[h][g] = botSessions[h][g] \ S
    BY <1>1, DropEffect
  <1>7. Random \in Holders /\ HolderTypes' /\ AITypes'
    BY <1>1, <1>2, DropEffect, DeletePlayersEffect DEF Holders
  <1>8. OnePlayer'
    BY <1>1, <1>3 DEF Bots, OnePlayer, SessionTypes
  <1>9. Mindless'
    BY <1>1, <1>3, <1>5 DEF Bots, Mindless, Dead, SessionTypes
  <1>10. RandomEntriesAlive'
    <2> SUFFICES ASSUME NEW g \in playerBots'[Random]
                 PROVE  \E i \in botSessions'[Random][g] : i \in played'
      BY DEF RandomEntriesAlive
    <2>1. g \in Guids
      BY <1>7 DEF HolderTypes
    <2>2. g \in playerBots[Random] /\ g \notin Dead(S)
      BY <1>4, <1>7, <2>1
    <2>3. PICK i \in botSessions[Random][g] : i \in played
      BY <2>2 DEF Bots, RandomEntriesAlive
    <2>4. g \in guid[i]
      BY <1>7, <2>1, <2>3 DEF Books, Filed
    <2>5. i \notin S
      BY <2>1, <2>2, <2>3, <2>4 DEF Dead
    <2> QED BY <1>3, <1>6, <1>7, <2>1, <2>3, <2>5
  <1>11. RandomBotsHear'
    BY <1>1, <1>4, <1>5, <1>7 DEF Bots, RandomBotsHear, HolderTypes, AITypes, Pointers
  <1> QED BY <1>8, <1>9, <1>10, <1>11 DEF Bots

-----------------------------------------------------------------------------
(* The steps that touch the books. Each keeps the invariant. *)

\* A holder starts the login of a bot whose guid is free.
LEMMA AddPlayerBotStep ==
    ASSUME Inv, NEW h \in Holders, NEW g \in Guids, AddPlayerBot(h, g)
    PROVE  Inv'
  <1>1. PICK i \in Ids \ live :
            /\ live' = live \cup {i}
            /\ guid' = [guid EXCEPT ![i] = {g}]
            /\ pendingBots' = [pendingBots EXCEPT ![h][g] = {i}]
            /\ loading' \in {loading, loading \cup {i}}
    BY DEF AddPlayerBot
  <1>2. /\ Running /\ Exists(h) /\ ~Connected(g) /\ g \notin pendingBotLogins
        /\ g \notin playerBots[h] /\ pendingBots[h][g] = {} /\ botSessions[h][g] = {}
        /\ pendingBotLogins' = pendingBotLogins \cup {g}
        /\ UNCHANGED <<botSessions, playerBots, played, ais, people, pass>>
    BY DEF AddPlayerBot, MayReserve
  <1>3. TypeOK
    BY DEF Inv
  <1>4. /\ {i} \in Pointers(Ids) /\ {g} \in Pointers(Guids)
        /\ {i} # {} /\ {g} # {}
    BY DEF Pointers
  <1>5. TypeOK'
    <2>1. HolderTypes'
      BY <1>1, <1>2, <1>3, <1>4 DEF TypeOK, HolderTypes
    <2>2. SessionTypes'
      BY <1>1, <1>2, <1>3, <1>4 DEF TypeOK, SessionTypes
    <2>3. AITypes' /\ WorldTypes'
      BY <1>2, <1>3 DEF TypeOK, AITypes, WorldTypes, ais, people, pass
    <2> QED BY <2>1, <2>2, <2>3 DEF TypeOK
  <1>6. /\ \A k \in Holders, f \in Guids :
             pendingBots'[k][f] = IF k = h /\ f = g THEN {i} ELSE pendingBots[k][f]
        /\ \A j \in Ids : guid'[j] = IF j = i THEN {g} ELSE guid[j]
    BY <1>1, <1>3 DEF TypeOK, HolderTypes, SessionTypes
  <1>7. i \in Ids /\ i \notin live /\ i \notin played /\ played \subseteq Ids /\ live \subseteq Ids
    BY <1>1, <1>3 DEF TypeOK, SessionTypes
  <1>8. Books'
    <2>1. Filed'
      BY <1>1, <1>2, <1>6, <1>7 DEF Inv, Books, Filed
    <2>2. Held'
      <3>1. \A j \in live, k \in Holders, f \in Guids : j \in Entry(k, f) => j \in Entry(k, f)'
        BY <1>2, <1>6 DEF Entry
      <3>2. i \in Entry(h, g)'
        BY <1>6 DEF Entry
      <3> QED BY <1>1, <3>1, <3>2 DEF Inv, Books, Held
    <2>3. Apart'
      <3>1. \A k \in Holders, f \in Guids : i \notin Entry(k, f)
        BY <1>7 DEF Inv, Books, Filed, Entry
      <3>2. \A k \in Holders, f \in Guids : \A j :
                j \in Entry(k, f)' <=> j \in Entry(k, f) \/ (j = i /\ k = h /\ f = g)
        BY <1>2, <1>6 DEF Entry
      <3> QED BY <3>1, <3>2 DEF Inv, Books, Apart
    <2>4. ReservedWhilePending'
      BY <1>2, <1>4, <1>6 DEF Inv, Books, ReservedWhilePending
    <2>5. EntriesOwned'
      BY <1>2 DEF Inv, Books, EntriesOwned
    <2> QED BY <2>1, <2>2, <2>3, <2>4, <2>5 DEF Books
  <1>9. Bots'
    <2>1. \A j \in played : guid'[j] = guid[j]
      BY <1>6, <1>7
    <2>2. OnePlayer'
      BY <1>2, <2>1 DEF Inv, Bots, OnePlayer, people
    <2>3. Mindless'
      BY <1>2, <2>1 DEF Inv, Bots, Mindless, ais
    <2>4. RandomEntriesAlive' /\ RandomBotsHear'
      BY <1>2 DEF Inv, Bots, RandomEntriesAlive, RandomBotsHear, Present, ais, people
    <2> QED BY <2>2, <2>3, <2>4 DEF Bots
  <1>10. Absent'
    BY <1>2, <1>6, ConstantsAssumption
    DEF Inv, Absent, Exists, Holders, people, pass
  <1>11. NothingLeftBehind'
    BY <1>2 DEF NothingLeftBehind, Running, pass
  <1> QED BY <1>5, <1>8, <1>9, <1>10, <1>11 DEF Inv

\* The core ends the player of a bot session.
LEMMA CoreLogoutStep ==
    ASSUME Inv, NEW i \in Ids, CoreLogout(i)
    PROVE  Inv'
  <1>1. /\ Running /\ i \in played
        /\ DeletePlayers({i}, Only({}, {}), {})
        /\ UNCHANGED <<pendingBots, botSessions, pendingBotLogins, live, guid, loading, people, pass>>
    BY DEF CoreLogout
  <1>2. SessionTypes /\ HolderTypes /\ AITypes /\ WorldTypes
    BY DEF Inv, TypeOK
  <1>3. /\ played' = played \ {i}
        /\ playerBots' \in [Holders -> SUBSET Guids]
        /\ \A h \in Holders, g \in Guids :
             g \in playerBots'[h] =>
                 /\ g \in playerBots[h]
                 /\ ~(g \in Dead({i}) /\ (h = Random \/ h \in master[g]))
        /\ AITypes'
        /\ \A g \in Guids :
             /\ g \in Dead({i}) => master'[g] = {} /\ commands'[g] = {}
             /\ master'[g] \subseteq master[g] /\ commands'[g] \subseteq commands[g]
    <2>1. /\ played' = played \ {i}
          /\ playerBots' \in [Holders -> SUBSET Guids] /\ AITypes'
      BY <1>1, <1>2, DeletePlayersEffect
    <2>2. \A h \in Holders, g \in Guids :
             g \in playerBots'[h] =>
                 /\ g \in playerBots[h]
                 /\ ~(g \in Dead({i}) /\ (h = Random \/ h \in master[g]))
      BY <1>1, <1>2, DeletePlayersEffect
    <2>3. \A g \in Guids :
             /\ g \in Dead({i}) => master'[g] = {} /\ commands'[g] = {}
             /\ master'[g] \subseteq master[g] /\ commands'[g] \subseteq commands[g]
      BY <1>1, <1>2, DeletePlayersEffect
    <2> QED BY <2>1, <2>2, <2>3
  <1>4. TypeOK'
    <2>1. HolderTypes'
      BY <1>1, <1>2, <1>3 DEF HolderTypes
    <2>2. SessionTypes' /\ WorldTypes'
      BY <1>1, <1>2, <1>3 DEF SessionTypes, WorldTypes, people, pass
    <2> QED BY <1>3, <2>1, <2>2 DEF TypeOK
  <1>5. \A h \in Holders : playerBots'[h] \subseteq playerBots[h]
    <2>1. \A h \in Holders : playerBots'[h] \subseteq Guids
      BY <1>3
    <2> QED BY <1>3, <2>1
  <1>6. Books'
    <2>1. Filed' /\ Held' /\ Apart' /\ ReservedWhilePending'
      BY <1>1, <1>3 DEF Inv, Books, Filed, Held, Apart, Entry, ReservedWhilePending
    <2>2. EntriesOwned'
      BY <1>1, <1>5 DEF Inv, Books, EntriesOwned
    <2> QED BY <2>1, <2>2 DEF Books
  <1>7. Bots'
    <2>1. OnePlayer'
      BY <1>1, <1>3 DEF Inv, Bots, OnePlayer, people
    <2>2. Mindless'
      BY <1>1, <1>3 DEF Inv, Bots, Mindless, Dead
    <2>3. RandomEntriesAlive'
      <3> SUFFICES ASSUME NEW g \in playerBots'[Random]
                   PROVE  \E j \in botSessions[Random][g] : j \in played'
        BY <1>1 DEF RandomEntriesAlive
      <3>1. Random \in Holders /\ g \in Guids
        BY <1>3 DEF Holders
      <3>2. g \in playerBots[Random] /\ g \notin Dead({i})
        BY <1>3, <3>1
      <3>3. PICK j \in botSessions[Random][g] : j \in played
        BY <3>2 DEF Inv, Bots, RandomEntriesAlive
      <3>4. g \in guid[j]
        BY <3>1, <3>3 DEF Inv, Books, Filed
      <3> QED BY <1>3, <3>1, <3>2, <3>3, <3>4 DEF Dead
    <2>4. RandomBotsHear'
      BY <1>1, <1>2, <1>3, <1>5 DEF Inv, Bots, RandomBotsHear, Present, people, HolderTypes, Holders
    <2> QED BY <2>1, <2>2, <2>3, <2>4 DEF Bots
  <1>8. Absent' /\ NothingLeftBehind'
    BY <1>1 DEF Inv, Absent, NothingLeftBehind, Running, people, pass
  <1> QED BY <1>4, <1>6, <1>7, <1>8 DEF Inv

\* The login query of a bot has come back and its player enters the world.
LEMMA EnterWorldStep ==
    ASSUME Inv, NEW g \in Guids, NEW i \in pendingBots[cur][g], EnterWorld(g, i),
           pc = "pending", UNCHANGED <<people, pc, cur>>, todo' = todo \ {g}
    PROVE  Inv'
  <1>1. /\ i \in loading /\ ~Connected(g) /\ botSessions[cur][g] = {}
        /\ loading' = loading \ {i}
        /\ played' = played \cup {i}
        /\ master' = [master EXCEPT ![g] = IF cur = Random THEN {} ELSE {cur}]
        /\ playerBots' = [playerBots EXCEPT ![cur] = @ \cup {g}]
        /\ botSessions' = [botSessions EXCEPT ![cur][g] = {i}]
        /\ pendingBots' = [pendingBots EXCEPT ![cur][g] = {}]
        /\ pendingBotLogins' = pendingBotLogins \ {g}
        /\ UNCHANGED <<live, guid, commands>>
    BY DEF EnterWorld, MayEnter
  <1>2. SessionTypes /\ HolderTypes /\ AITypes /\ WorldTypes
    BY DEF Inv, TypeOK
  <1>3. /\ cur \in Holders /\ Random \in Holders /\ pendingBots[cur][g] = {i}
        /\ i \in Ids /\ i \in live /\ i \notin played /\ g \in guid[i]
        /\ \A f \in guid[i] : f = g
    <2>1. cur \in Holders /\ Random \in Holders
      BY <1>2 DEF WorldTypes, Holders
    <2>2. pendingBots[cur][g] \in Pointers(Ids)
      BY <1>2, <2>1 DEF HolderTypes
    <2>3. i \in live /\ i \notin played /\ g \in guid[i]
      BY <2>1 DEF Inv, Books, Filed
    <2> QED BY <1>2, <2>1, <2>2, <2>3 DEF Pointers, SessionTypes
  <1>4. /\ {i} \in Pointers(Ids) /\ {} \in Pointers(Ids) /\ {i} # {}
        /\ {} \in Pointers(Owners) /\ (cur # Random => {cur} \in Pointers(Owners))
    BY <1>3 DEF Pointers, Holders
  <1>5. TypeOK'
    <2>1. pendingBots' \in [Holders -> [Guids -> Pointers(Ids)]]
      BY <1>1, <1>2, <1>3, <1>4 DEF HolderTypes
    <2>2. botSessions' \in [Holders -> [Guids -> Pointers(Ids)]]
      BY <1>1, <1>2, <1>3, <1>4 DEF HolderTypes
    <2>3. HolderTypes'
      BY <1>1, <1>2, <1>3, <2>1, <2>2 DEF HolderTypes
    <2>4. SessionTypes' /\ WorldTypes'
      BY <1>1, <1>2, <1>3 DEF SessionTypes, WorldTypes, people
    <2>5. AITypes'
      BY <1>1, <1>2, <1>4 DEF AITypes
    <2> QED BY <2>3, <2>4, <2>5 DEF TypeOK
  <1>6. \A h \in Holders, f \in Guids :
            /\ pendingBots'[h][f] = IF h = cur /\ f = g THEN {} ELSE pendingBots[h][f]
            /\ botSessions'[h][f] = IF h = cur /\ f = g THEN {i} ELSE botSessions[h][f]
            /\ f \in playerBots'[h] <=> f \in playerBots[h] \/ (h = cur /\ f = g)
            /\ \A j : j \in Entry(h, f)' <=> j \in Entry(h, f)
    <2>1. \A h \in Holders, f \in Guids :
            /\ pendingBots'[h][f] = IF h = cur /\ f = g THEN {} ELSE pendingBots[h][f]
            /\ botSessions'[h][f] = IF h = cur /\ f = g THEN {i} ELSE botSessions[h][f]
      BY <1>1, <1>2, <1>3 DEF HolderTypes
    <2>2. \A h \in Holders, f \in Guids :
            f \in playerBots'[h] <=> f \in playerBots[h] \/ (h = cur /\ f = g)
      BY <1>1, <1>2, <1>3 DEF HolderTypes
    <2>3. \A h \in Holders, f \in Guids : \A j : j \in Entry(h, f)' <=> j \in Entry(h, f)
      BY <1>1, <1>3, <2>1 DEF Entry
    <2> QED BY <2>1, <2>2, <2>3
  <1>7. Books'
    <2>1. Filed'
      <3> SUFFICES ASSUME NEW h \in Holders, NEW f \in Guids
                   PROVE  /\ pendingBots'[h][f] = {} \/ botSessions'[h][f] = {}
                          /\ \A j \in pendingBots'[h][f] : j \in live /\ j \notin played' /\ f \in guid[j]
                          /\ \A j \in botSessions'[h][f] : j \in live /\ f \in guid[j]
        BY <1>1 DEF Filed
      <3>1. i \in Entry(cur, g)
        BY DEF Entry
      <3>2. i \in pendingBots[h][f] => h = cur /\ f = g
        BY <1>3, <3>1 DEF Inv, Books, Apart, Entry
      <3> QED BY <1>1, <1>3, <1>6, <3>2 DEF Inv, Books, Filed
    <2>2. Held'
      BY <1>1, <1>6 DEF Inv, Books, Held
    <2>3. Apart'
      BY <1>6 DEF Inv, Books, Apart
    <2>4. ReservedWhilePending'
      <3> SUFFICES ASSUME NEW f \in Guids
                   PROVE  /\ \A h, k \in Holders :
                                pendingBots'[h][f] # {} /\ pendingBots'[k][f] # {} => h = k
                          /\ f \in pendingBotLogins' <=>
                                \E h \in Holders : pendingBots'[h][f] # {}
        BY DEF ReservedWhilePending
      <3>1. /\ \A h, k \in Holders : pendingBots[h][f] # {} /\ pendingBots[k][f] # {} => h = k
            /\ f \in pendingBotLogins <=> \E h \in Holders : pendingBots[h][f] # {}
        BY DEF Inv, Books, ReservedWhilePending
      <3>2. CASE f = g
        <4>1. \A h \in Holders : pendingBots'[h][f] = {}
          BY <1>3, <1>6, <3>1, <3>2
        <4> QED BY <1>1, <3>2, <4>1
      <3>3. CASE f # g
        <4>1. \A h \in Holders : pendingBots'[h][f] = pendingBots[h][f]
          BY <1>6, <3>3
        <4>2. f \in pendingBotLogins' <=> f \in pendingBotLogins
          BY <1>1, <3>3
        <4> QED BY <3>1, <4>1, <4>2
      <3> QED BY <3>2, <3>3
    <2>5. EntriesOwned'
      <3>1. \A h \in Holders : playerBots[h] \subseteq Guids
        BY <1>2 DEF HolderTypes
      <3>2. \A h \in Holders : playerBots'[h] \subseteq Guids
        BY <1>5 DEF TypeOK, HolderTypes
      <3> QED BY <1>4, <1>6, <3>1, <3>2 DEF Inv, Books, EntriesOwned
    <2> QED BY <2>1, <2>2, <2>3, <2>4, <2>5 DEF Books
  <1>8. Bots'
    <2>1. client[g] # "world" /\ \A j \in played : g \notin guid[j]
      BY <1>1 DEF Connected
    <2>2. OnePlayer'
      BY <1>1, <1>3, <2>1 DEF Inv, Bots, OnePlayer, people
    <2>3. \A f \in Guids : f # g => master'[f] = master[f]
      BY <1>1, <1>2 DEF AITypes
    <2>4. Mindless'
      BY <1>1, <1>3, <2>3 DEF Inv, Bots, Mindless
    <2>5. g \notin playerBots[Random]
      BY <1>3, <2>1 DEF Inv, Bots, Books, Filed, RandomEntriesAlive
    <2>6. playerBots[Random] \subseteq Guids /\ playerBots'[Random] \subseteq Guids
      BY <1>2, <1>3, <1>5 DEF TypeOK, HolderTypes
    <2>7. RandomEntriesAlive'
      BY <1>1, <1>3, <1>6, <2>5, <2>6 DEF Inv, Bots, RandomEntriesAlive
    <2>8. RandomBotsHear'
      <3>1. commands[g] = {}
        BY <2>1 DEF Inv, Bots, Mindless
      <3>2. cur = Random => master'[g] = {}
        BY <1>1, <1>2 DEF AITypes
      <3> QED BY <1>1, <1>3, <1>6, <2>3, <2>5, <2>6, <3>1, <3>2
              DEF Inv, Bots, RandomBotsHear, Present, people
    <2> QED BY <2>2, <2>4, <2>7, <2>8 DEF Bots
  <1>9. Absent'
    BY <1>3, <1>6, ConstantsAssumption DEF Inv, Absent, Holders, people
  <1>10. NothingLeftBehind'
    BY DEF NothingLeftBehind
  <1> QED BY <1>5, <1>7, <1>8, <1>9, <1>10 DEF Inv

\* The login query of a bot has come back without a player.
LEMMA FailLoginStep ==
    ASSUME Inv, NEW g \in Guids, NEW i \in pendingBots[cur][g], FailLogin(g, i),
           pc = "pending", UNCHANGED <<people, pc, cur>>, todo' = todo \ {g}
    PROVE  Inv'
  <1>1. /\ pendingBots' = [pendingBots EXCEPT ![cur][g] = {}]
        /\ pendingBotLogins' = pendingBotLogins \ {g}
        /\ DeletePlayers({i}, Only({cur}, {g}), {})
        /\ DeleteSessions({i})
        /\ UNCHANGED botSessions
    BY DEF FailLogin, Unreserved, Failed
  <1>2. SessionTypes /\ HolderTypes /\ AITypes /\ WorldTypes
    BY DEF Inv, TypeOK
  <1>3. /\ cur \in Holders /\ Random \in Holders /\ pendingBots[cur][g] = {i}
        /\ i \in Ids /\ i \in live /\ i \notin played
        /\ botSessions[cur][g] = {}
    <2>1. cur \in Holders /\ Random \in Holders
      BY <1>2 DEF WorldTypes, Holders
    <2>2. pendingBots[cur][g] \in Pointers(Ids)
      BY <1>2, <2>1 DEF HolderTypes
    <2>3. i \in live /\ i \notin played /\ botSessions[cur][g] = {}
      BY <2>1 DEF Inv, Books, Filed
    <2> QED BY <1>2, <2>1, <2>2, <2>3 DEF Pointers, SessionTypes
  <1>4. /\ played' = played
        /\ playerBots' \in [Holders -> SUBSET Guids]
        /\ \A h \in Holders, f \in Guids : f \in playerBots'[h] => f \in playerBots[h]
        /\ AITypes'
        /\ \A f \in Guids :
             master'[f] \subseteq master[f] /\ commands'[f] \subseteq commands[f]
    <2>1. played \ {i} = played
      BY <1>3
    <2> QED BY <1>1, <1>2, <2>1, DeletePlayersEffect
  <1>5. /\ live' = live \ {i} /\ SessionTypes'
        /\ \A j \in Ids : j # i => guid'[j] = guid[j]
    <2>1. played' = played \ {i}
      BY <1>1, <1>2, DeletePlayersEffect
    <2> QED BY <1>1, <1>2, <2>1, DeleteSessionsEffect
  <1>6. \A h \in Holders : playerBots'[h] \subseteq playerBots[h] /\ playerBots'[h] \subseteq Guids
    <2>1. \A h \in Holders : playerBots'[h] \subseteq Guids
      BY <1>4
    <2> QED BY <1>4, <2>1
  <1>7. TypeOK'
    <2>1. {} \in Pointers(Ids)
      BY DEF Pointers
    <2>2. pendingBots' \in [Holders -> [Guids -> Pointers(Ids)]]
      BY <1>1, <1>2, <1>3, <2>1 DEF HolderTypes
    <2>3. HolderTypes'
      BY <1>1, <1>2, <1>4, <2>2 DEF HolderTypes
    <2>4. WorldTypes'
      BY <1>2 DEF WorldTypes, people
    <2> QED BY <1>4, <1>5, <2>3, <2>4 DEF TypeOK
  <1>8. \A h \in Holders, f \in Guids :
            pendingBots'[h][f] = IF h = cur /\ f = g THEN {} ELSE pendingBots[h][f]
    BY <1>1, <1>2, <1>3 DEF HolderTypes
  <1>9. \A h \in Holders, f \in Guids : i \in Entry(h, f) => h = cur /\ f = g
    BY <1>3 DEF Inv, Books, Apart, Entry
  <1>10. \A h \in Holders, f \in Guids : \A j :
             j \in Entry(h, f)' <=> j \in Entry(h, f) /\ j # i
    BY <1>1, <1>3, <1>8, <1>9 DEF Entry
  <1>11. Books'
    <2>1. Filed'
      <3>1. \A h \in Holders, f \in Guids : \A j \in botSessions[h][f] : j # i
        BY <1>3, <1>9 DEF Entry
      <3>2. \A h \in Holders, f \in Guids : \A j \in pendingBots'[h][f] :
                j # i /\ j \in pendingBots[h][f]
        BY <1>8, <1>9 DEF Entry
      <3>3. \A j \in live : j \in Ids
        BY <1>2 DEF SessionTypes
      <3> QED BY <1>1, <1>4, <1>5, <1>8, <3>1, <3>2, <3>3 DEF Inv, Books, Filed
    <2>2. Held'
      BY <1>5, <1>10 DEF Inv, Books, Held
    <2>3. Apart'
      BY <1>10 DEF Inv, Books, Apart
    <2>4. ReservedWhilePending'
      BY <1>1, <1>3, <1>8 DEF Inv, Books, ReservedWhilePending
    <2>5. EntriesOwned'
      BY <1>1, <1>6 DEF Inv, Books, EntriesOwned
    <2> QED BY <2>1, <2>2, <2>3, <2>4, <2>5 DEF Books
  <1>12. Bots'
    <2>1. \A j \in played : guid'[j] = guid[j]
      BY <1>2, <1>3, <1>5 DEF SessionTypes
    <2>2. OnePlayer'
      BY <1>4, <2>1 DEF Inv, Bots, OnePlayer, people
    <2>3. Mindless'
      BY <1>4, <2>1 DEF Inv, Bots, Mindless
    <2>4. RandomEntriesAlive' /\ RandomBotsHear'
      BY <1>1, <1>3, <1>4, <1>6 DEF Inv, Bots, RandomEntriesAlive, RandomBotsHear, Present, people
    <2> QED BY <2>2, <2>3, <2>4 DEF Bots
  <1>13. Absent'
    BY <1>1, <1>3, <1>8, ConstantsAssumption DEF Inv, Absent, Holders, people
  <1>14. NothingLeftBehind'
    BY DEF NothingLeftBehind
  <1> QED BY <1>7, <1>11, <1>12, <1>13, <1>14 DEF Inv

\* A step that drops sessions keeps the invariant when the manager of whoever
\* leaves is emptied, and the shutdown empties all of them.
LEMMA DropStep ==
    ASSUME Inv, NEW S, NEW erased, NEW left, Drop(S, erased, left),
           UNCHANGED client, WorldTypes',
           \A h \in Holders, g \in Guids : botSessions[h][g] \cap S # {} => g \in erased[h],
           \A m \in Owners : Present(m) => Present(m)' \/ m \in left,
           Absent', NothingLeftBehind'
    PROVE  Inv'
  <1>1. TypeOK /\ SessionTypes /\ HolderTypes /\ AITypes /\ Books /\ Bots
    BY DEF Inv, TypeOK
  <1>2. DeletePlayers(S, erased, left)
    BY DEF Drop
  <1>3. TypeOK'
    BY <1>1, <1>2, DropEffect, DeletePlayersEffect DEF TypeOK
  <1> QED BY <1>1, <1>3, DropKeepsBooks, DropKeepsBots DEF Inv

\* A command takes one bot out of its holder.
LEMMA RemoveCommandStep ==
    ASSUME Inv, NEW h \in Holders, NEW g \in Guids, RemoveCommand(h, g)
    PROVE  Inv'
  <1>1. PICK S : /\ S = IF pendingBots[h][g] # {} THEN pendingBots[h][g] ELSE botSessions[h][g]
                 /\ Drop(S, Only({h}, {g}), {})
    BY DEF RemoveCommand, LogoutPlayerBot
  <1>2. Running /\ UNCHANGED <<people, pass>>
    BY DEF RemoveCommand
  <1>3. SessionTypes /\ HolderTypes /\ AITypes /\ WorldTypes
    BY DEF Inv, TypeOK
  <1>4. WorldTypes' /\ UNCHANGED client /\ \A m \in Owners : Present(m) => Present(m)'
    BY <1>2, <1>3 DEF WorldTypes, people, pass, Present
  <1>5. \A k \in Holders, f \in Guids : botSessions[k][f] \cap S # {} => f \in Only({h}, {g})[k]
    <2> SUFFICES ASSUME NEW k \in Holders, NEW f \in Guids, NEW i \in botSessions[k][f], i \in S
                 PROVE  k = h /\ f = g
      BY DEF Only
    <2> QED BY <1>1 DEF Inv, Books, Apart, Entry
  <1>6. \A k \in Holders, f \in Guids :
            /\ pendingBots'[k][f] \subseteq pendingBots[k][f]
            /\ botSessions'[k][f] \subseteq botSessions[k][f]
    BY <1>1, <1>3, DropEffect
  <1>7. Absent'
    BY <1>2, <1>6 DEF Inv, Absent, Holders, people, pass
  <1>8. NothingLeftBehind'
    BY <1>2 DEF NothingLeftBehind, Running, pass
  <1> QED BY <1>1, <1>4, <1>5, <1>7, <1>8, DropStep

\* UpdateSessions visits one bot session of its holder.
LEMMA UpdateActiveStep ==
    ASSUME Inv, NEW g \in Guids, UpdateActive(g)
    PROVE  Inv'
  <1>1. pc = "active" /\ UNCHANGED <<people, pc, cur>> /\ todo' = todo \ {g}
    BY DEF UpdateActive
  <1>2. SessionTypes /\ HolderTypes /\ AITypes /\ WorldTypes
    BY DEF Inv, TypeOK
  <1>3. WorldTypes' /\ UNCHANGED client /\ \A m \in Owners : Present(m) => Present(m)'
    BY <1>1, <1>2 DEF WorldTypes, people, Present
  <1>4. NothingLeftBehind'
    BY <1>1 DEF NothingLeftBehind
  <1>5. CASE Drop(botSessions[cur][g], Only({cur}, {g}), {})
    <2>1. PICK S : S = botSessions[cur][g] /\ Drop(S, Only({cur}, {g}), {})
      BY <1>5
    <2>2. \A k \in Holders, f \in Guids : botSessions[k][f] \cap S # {} => f \in Only({cur}, {g})[k]
      <3> SUFFICES ASSUME NEW k \in Holders, NEW f \in Guids, NEW i \in botSessions[k][f], i \in S
                   PROVE  k = cur /\ f = g
        BY DEF Only
      <3> QED BY <1>2, <2>1 DEF Inv, Books, Apart, Entry, WorldTypes
    <2>3. \A k \in Holders, f \in Guids :
              /\ pendingBots'[k][f] \subseteq pendingBots[k][f]
              /\ botSessions'[k][f] \subseteq botSessions[k][f]
      BY <2>1, <1>2, DropEffect
    <2>4. Absent'
      BY <1>1, <2>3 DEF Inv, Absent, Holders, people
    <2> QED BY <1>3, <1>4, <2>1, <2>2, <2>4, DropStep
  <1>6. CASE UNCHANGED <<holders, sessions, ais>>
    <2>1. HolderTypes' /\ SessionTypes' /\ AITypes'
      BY <1>2, <1>6 DEF HolderTypes, SessionTypes, AITypes, holders, sessions, ais
    <2>2. Books'
      <3>1. Filed' /\ Held' /\ Apart'
        BY <1>6 DEF Inv, Books, Filed, Held, Apart, Entry, holders, sessions
      <3>2. ReservedWhilePending' /\ EntriesOwned'
        BY <1>6 DEF Inv, Books, ReservedWhilePending, EntriesOwned, holders
      <3> QED BY <3>1, <3>2 DEF Books
    <2>3. Bots' /\ Absent'
      BY <1>1, <1>6 DEF Inv, Bots, OnePlayer, Mindless, RandomEntriesAlive, RandomBotsHear,
                        Present, Absent, holders, sessions, ais, people
    <2> QED BY <1>3, <1>4, <2>1, <2>2, <2>3 DEF Inv, TypeOK
  <1> QED BY <1>5, <1>6 DEF UpdateActive

\* SessionsOf misses no session of an entry.
LEMMA SessionsOfIs ==
    ASSUME Filed, NEW H \in SUBSET Holders, NEW i
    PROVE  i \in SessionsOf(H) <=> \E h \in H, g \in Guids : i \in Entry(h, g)
  BY DEF SessionsOf, Entry, Filed

\* The owner of a holder logs out: all of its bots go.
LEMMA OwnerLogoutStep ==
    ASSUME Inv, NEW m \in Owners, OwnerLogout(m)
    PROVE  Inv'
  <1>1. PICK S : S = SessionsOf({m}) /\ Drop(S, Only({m}, Guids), {m})
    BY DEF OwnerLogout, LogoutAllBots
  <1>2. /\ pc = "idle" /\ owner' = [owner EXCEPT ![m] = "out"] /\ UNCHANGED <<client, pass>>
    BY DEF OwnerLogout
  <1>3. SessionTypes /\ HolderTypes /\ AITypes /\ WorldTypes /\ Filed /\ m \in Holders
    BY DEF Inv, Books, TypeOK, Holders
  <1>4. WorldTypes' /\ UNCHANGED client /\ \A n \in Owners : Present(n) => Present(n)' \/ n \in {m}
    BY <1>2, <1>3 DEF WorldTypes, pass, Present
  <1>5. \A k \in Holders, f \in Guids : botSessions[k][f] \cap S # {} => f \in Only({m}, Guids)[k]
    <2> SUFFICES ASSUME NEW k \in Holders, NEW f \in Guids, NEW i \in botSessions[k][f], i \in S
                 PROVE  k = m
      BY DEF Only
    <2>1. \E g \in Guids : i \in Entry(m, g)
      BY <1>1, <1>3, SessionsOfIs
    <2> QED BY <1>3, <2>1 DEF Inv, Books, Apart, Entry
  <1>6. \A k \in Holders, f \in Guids :
            /\ pendingBots'[k][f] = pendingBots[k][f] \ S
            /\ botSessions'[k][f] = botSessions[k][f] \ S
    BY <1>1, <1>3 DEF Drop
  <1>7. \A f \in Guids : pendingBots[m][f] \subseteq S /\ botSessions[m][f] \subseteq S
    <2>1. \A f \in Guids : \A i \in Entry(m, f) : i \in S
      BY <1>1, <1>3, SessionsOfIs
    <2> QED BY <2>1 DEF Entry
  <1>8. Absent'
    BY <1>2, <1>3, <1>6, <1>7 DEF Inv, Absent, Holders, pass, WorldTypes
  <1>9. NothingLeftBehind'
    BY <1>2 DEF NothingLeftBehind, pass
  <1> QED BY <1>1, <1>4, <1>5, <1>8, <1>9, DropStep

\* The server stops: the bots of every holder go.
LEMMA ShutdownStep ==
    ASSUME Inv, ShutdownPlayerbots
    PROVE  Inv'
  <1>1. PICK S : S = SessionsOf(Managed) /\ Drop(S, Only(Managed, Guids), {})
    BY DEF ShutdownPlayerbots, LogoutAllBots
  <1>2. pc' = "stopped" /\ UNCHANGED <<people, cur, todo>>
    BY DEF ShutdownPlayerbots
  <1>3. SessionTypes /\ HolderTypes /\ AITypes /\ WorldTypes /\ Filed /\ Managed \subseteq Holders
    BY DEF Inv, Books, TypeOK, Managed, Holders
  <1>4. WorldTypes' /\ UNCHANGED client /\ \A n \in Owners : Present(n) => Present(n)'
    BY <1>2, <1>3 DEF WorldTypes, people, Present
  <1>5. \A h \in Holders : h \notin Managed =>
            \A g \in Guids : pendingBots[h][g] = {} /\ botSessions[h][g] = {}
    BY DEF Managed, Present, Holders, Inv, Absent
  <1>6. \A h \in Holders, g \in Guids : Entry(h, g) \subseteq S
    <2> SUFFICES ASSUME NEW h \in Holders, NEW g \in Guids, NEW i \in Entry(h, g)
                 PROVE  i \in S
      OBVIOUS
    <2>1. h \in Managed
      BY <1>5 DEF Entry
    <2> QED BY <1>1, <1>3, <2>1, SessionsOfIs
  <1>7. \A k \in Holders, f \in Guids : botSessions[k][f] \cap S # {} => f \in Only(Managed, Guids)[k]
    BY <1>5 DEF Only
  <1>8. /\ \A k \in Holders, f \in Guids :
             /\ pendingBots'[k][f] = pendingBots[k][f] \ S
             /\ botSessions'[k][f] = botSessions[k][f] \ S
        /\ \A g \in Guids : g \in pendingBotLogins' <=>
             /\ g \in pendingBotLogins
             /\ \A h \in Holders : pendingBots[h][g] \cap S = {}
        /\ HolderTypes'
    BY <1>1, <1>3, DropEffect
  <1>9. Absent'
    BY <1>2, <1>8 DEF Inv, Absent, Holders, people
  <1>10. live' = {}
    <2>1. live' = live \ S
      BY <1>1 DEF Drop, DeleteSessions
    <2> QED BY <1>6, <2>1 DEF Inv, Books, Held
  <1>11. pendingBotLogins' = {}
    <2> SUFFICES ASSUME NEW g \in pendingBotLogins' PROVE FALSE
      OBVIOUS
    <2>1. g \in Guids
      BY <1>8 DEF HolderTypes
    <2>2. PICK h \in Holders : pendingBots[h][g] # {}
      BY <1>8, <2>1 DEF Inv, Books, ReservedWhilePending
    <2> QED BY <1>6, <1>8, <2>1, <2>2 DEF Entry
  <1>12. \A h \in Holders : playerBots'[h] = {}
    <2> SUFFICES ASSUME NEW h \in Holders, NEW g \in playerBots'[h] PROVE FALSE
      OBVIOUS
    <2>1. g \in Guids
      BY <1>8 DEF HolderTypes
    <2>2. Books'
      BY <1>1, <1>7, DropKeepsBooks DEF Inv
    <2>3. botSessions'[h][g] # {}
      BY <2>2 DEF Books, EntriesOwned
    <2> QED BY <1>6, <1>8, <2>1, <2>3 DEF Entry
  <1>13. NothingLeftBehind'
    BY <1>10, <1>11, <1>12 DEF NothingLeftBehind
  <1> QED BY <1>1, <1>4, <1>7, <1>9, <1>13, DropStep

-----------------------------------------------------------------------------
(* The steps that leave the books alone. *)

\* UpdateSessions visits one pending login.
LEMMA UpdatePendingStep ==
    ASSUME Inv, NEW g \in Guids, UpdatePending(g)
    PROVE  Inv'
  <1>1. pc = "pending" /\ UNCHANGED <<people, pc, cur>> /\ todo' = todo \ {g}
    BY DEF UpdatePending
  <1>2. CASE \E i \in pendingBots[cur][g] : EnterWorld(g, i)
    BY <1>1, <1>2, EnterWorldStep
  <1>3. CASE \E i \in pendingBots[cur][g] : FailLogin(g, i)
    BY <1>1, <1>3, FailLoginStep
  <1>4. CASE UNCHANGED <<holders, sessions, ais>>
    <2>1. TypeOK'
      BY <1>1, <1>4 DEF Inv, TypeOK, HolderTypes, SessionTypes, AITypes, WorldTypes,
                        holders, sessions, ais, people
    <2>2. Filed' /\ Held' /\ Apart'
      BY <1>4 DEF Inv, Books, Filed, Held, Apart, Entry, holders, sessions
    <2>3. ReservedWhilePending' /\ EntriesOwned'
      BY <1>4 DEF Inv, Books, ReservedWhilePending, EntriesOwned, holders
    <2>4. Bots' /\ Absent' /\ NothingLeftBehind'
      BY <1>1, <1>4 DEF Inv, Bots, OnePlayer, Mindless, RandomEntriesAlive, RandomBotsHear,
                        Present, Absent, NothingLeftBehind, holders, sessions, ais, people
    <2> QED BY <2>1, <2>2, <2>3, <2>4 DEF Inv, Books
  <1> QED BY <1>2, <1>3, <1>4 DEF UpdatePending

\* The snapshots and the end of a pass change pc, cur and todo only.
LEMMA PassStep ==
    ASSUME Inv,
           \/ \E h \in Holders : BeginUpdateSessions(h)
           \/ BeginActive \/ EndUpdateSessions
           \/ UNCHANGED vars
    PROVE  Inv'
  <1>1. UNCHANGED <<holders, sessions, ais, people>>
    BY DEF BeginUpdateSessions, BeginActive, EndUpdateSessions, vars
  <1>2. \/ UNCHANGED pass
        \/ /\ pc # "stopped" /\ pc' \in {"idle", "pending", "active"}
           /\ cur' \in Holders /\ todo' \subseteq Guids
           /\ pc' # "idle" => Exists(cur')
    BY ConstantsAssumption DEF BeginUpdateSessions, BeginActive, EndUpdateSessions, vars, Updated, Exists,
           Inv, TypeOK, WorldTypes, Absent, Holders, pass
  <1>3. TypeOK'
    BY <1>1, <1>2 DEF Inv, TypeOK, HolderTypes, SessionTypes, AITypes, WorldTypes,
                      holders, sessions, ais, people, pass
  <1>4. Filed' /\ Held' /\ Apart'
    BY <1>1 DEF Inv, Books, Filed, Held, Apart, Entry, holders, sessions
  <1>5. ReservedWhilePending' /\ EntriesOwned'
    BY <1>1 DEF Inv, Books, ReservedWhilePending, EntriesOwned, holders
  <1>6. Bots'
    BY <1>1 DEF Inv, Bots, OnePlayer, Mindless, RandomEntriesAlive, RandomBotsHear,
                Present, holders, sessions, ais, people
  <1>7. Absent' /\ NothingLeftBehind'
    BY <1>1, <1>2, ConstantsAssumption
    DEF Inv, Absent, NothingLeftBehind, Exists, holders, sessions, people, pass
  <1> QED BY <1>3, <1>4, <1>5, <1>6, <1>7 DEF Inv, Books

\* The AI of a bot hears from players who are in the world only.
LEMMA AIStep ==
    ASSUME Inv, NEW g \in Guids,
           \/ \E m \in Owners : HandleCommand(m, g) \/ SetMaster(m, g)
           \/ UpdateAI(g) \/ LeaveGroup(g)
    PROVE  Inv'
  <1>1. UNCHANGED <<holders, sessions, people, pass>>
    BY DEF HandleCommand, SetMaster, UpdateAI, LeaveGroup
  <1>2. HasAI(g)
    BY DEF HandleCommand, SetMaster, UpdateAI, LeaveGroup
  <1>3. AITypes
    BY DEF Inv, TypeOK
  <1>4. /\ AITypes'
        /\ \A f \in Guids : f # g => master'[f] = master[f] /\ commands'[f] = commands[f]
        /\ \A m \in master'[g] : m \in master[g] \/ Present(m)
        /\ \A m \in commands'[g] : m \in commands[g] \/ Present(m)
    <2>1. CASE \E m \in Owners : HandleCommand(m, g)
      BY <1>3, <2>1 DEF AITypes, HandleCommand, Present
    <2>2. CASE \E m \in Owners : SetMaster(m, g)
      BY <1>3, <2>2 DEF AITypes, SetMaster, Present, Pointers
    <2>3. CASE UpdateAI(g)
      BY <1>3, <2>3 DEF AITypes, UpdateAI
    <2>4. CASE LeaveGroup(g)
      BY <1>3, <2>4 DEF AITypes, LeaveGroup, Pointers
    <2> QED BY <2>1, <2>2, <2>3, <2>4
  <1>5. TypeOK'
    BY <1>1, <1>4 DEF Inv, TypeOK, HolderTypes, SessionTypes, WorldTypes,
                      holders, sessions, people, pass
  <1>6. Filed' /\ Held' /\ Apart'
    BY <1>1 DEF Inv, Books, Filed, Held, Apart, Entry, holders, sessions
  <1>7. ReservedWhilePending' /\ EntriesOwned'
    BY <1>1 DEF Inv, Books, ReservedWhilePending, EntriesOwned, holders
  <1>8. OnePlayer' /\ RandomEntriesAlive' /\ Absent' /\ NothingLeftBehind'
    BY <1>1 DEF Inv, Bots, OnePlayer, RandomEntriesAlive, Absent, NothingLeftBehind,
                holders, sessions, people, pass
  <1>9. Mindless'
    BY <1>1, <1>2, <1>4 DEF Inv, Bots, Mindless, HasAI, sessions
  <1>10. RandomBotsHear'
    <2>1. playerBots[Random] \subseteq Guids
      BY DEF Inv, TypeOK, HolderTypes, Holders
    <2> QED BY <1>1, <1>4, <2>1 DEF Inv, Bots, RandomBotsHear, Present, holders, people
  <1> QED BY <1>5, <1>6, <1>7, <1>8, <1>9, <1>10 DEF Inv, Books, Bots

\* Real players come, lose their connection, and use the character of a bot.
LEMMA PeopleStep ==
    ASSUME Inv,
           \/ \E m \in Owners : OwnerLogin(m) \/ OwnerDisconnect(m)
           \/ \E g \in Guids : ClientLogin(g) \/ ClientLogout(g)
    PROVE  Inv'
  <1>1. UNCHANGED <<holders, sessions, ais, pass>> /\ pc = "idle"
    BY DEF OwnerLogin, OwnerDisconnect, ClientLogin, ClientLogout
  <1>2. WorldTypes
    BY DEF Inv, TypeOK
  <1>3. /\ WorldTypes'
        /\ \A m \in Owners : owner'[m] = owner[m] \/ Present(m)'
        /\ \A g \in Guids : client'[g] = "world" => client[g] = "world" \/ ~Connected(g)
    <2>1. CASE \E m \in Owners : OwnerLogin(m) \/ OwnerDisconnect(m)
      BY <1>1, <1>2, <2>1 DEF WorldTypes, OwnerLogin, OwnerDisconnect, Present, pass
    <2>2. CASE \E g \in Guids : ClientLogin(g) \/ ClientLogout(g)
      BY <1>1, <1>2, <2>2 DEF WorldTypes, ClientLogin, ClientLogout, MayEnter, pass
    <2> QED BY <2>1, <2>2
  <1>4. TypeOK'
    BY <1>1, <1>3 DEF Inv, TypeOK, HolderTypes, SessionTypes, AITypes, holders, sessions, ais
  <1>5. Filed' /\ Held' /\ Apart'
    BY <1>1 DEF Inv, Books, Filed, Held, Apart, Entry, holders, sessions
  <1>6. ReservedWhilePending' /\ EntriesOwned'
    BY <1>1 DEF Inv, Books, ReservedWhilePending, EntriesOwned, holders
  <1>7. OnePlayer'
    BY <1>1, <1>3 DEF Inv, Bots, OnePlayer, Connected, sessions
  <1>8. Mindless' /\ RandomEntriesAlive'
    BY <1>1 DEF Inv, Bots, Mindless, RandomEntriesAlive, holders, sessions, ais
  <1>9. RandomBotsHear'
    <2>1. \A g \in playerBots[Random] : master[g] \subseteq Owners /\ commands[g] \subseteq Owners
      BY DEF Inv, TypeOK, HolderTypes, AITypes, Holders, Pointers
    <2> QED BY <1>1, <1>3, <2>1 DEF Inv, Bots, RandomBotsHear, Present, holders, ais
  <1>10. Absent' /\ NothingLeftBehind'
    BY <1>1, <1>3 DEF Inv, Absent, NothingLeftBehind, Present, holders, sessions, pass
  <1> QED BY <1>4, <1>5, <1>6, <1>7, <1>8, <1>9, <1>10 DEF Inv, Books, Bots

-----------------------------------------------------------------------------
(* The theorems. *)

\* The server starts with empty holders.
LEMMA InitInv == Init => Inv
  <1> SUFFICES ASSUME Init PROVE Inv
    OBVIOUS
  <1>1. \A S : {} \in Pointers(S)
    BY DEF Pointers
  <1>2. \A h \in Holders, g \in Guids : pendingBots[h][g] = {} /\ botSessions[h][g] = {}
    BY DEF Init
  <1>3. TypeOK
    BY <1>1 DEF Init, TypeOK, HolderTypes, SessionTypes, AITypes, WorldTypes, Holders
  <1>4. Filed /\ Held /\ Apart
    BY <1>2 DEF Init, Filed, Held, Apart, Entry
  <1>5. ReservedWhilePending /\ EntriesOwned
    BY <1>2 DEF Init, ReservedWhilePending, EntriesOwned
  <1>6. OnePlayer /\ Mindless /\ RandomEntriesAlive /\ RandomBotsHear
    BY DEF Init, OnePlayer, Mindless, RandomEntriesAlive, RandomBotsHear, Holders
  <1>7. Absent /\ NothingLeftBehind
    BY <1>2 DEF Init, Absent, NothingLeftBehind, Holders
  <1> QED BY <1>3, <1>4, <1>5, <1>6, <1>7 DEF Inv, Books, Bots

\* Every step keeps Inv.
LEMMA NextInv == Inv /\ [Next]_vars => Inv'
  <1> SUFFICES ASSUME Inv, [Next]_vars PROVE Inv'
    OBVIOUS
  <1>1. ASSUME NEW h \in Holders, BeginUpdateSessions(h) PROVE Inv'
    BY <1>1, PassStep
  <1>2. ASSUME NEW g \in Guids, UpdatePending(g) \/ UpdateActive(g) PROVE Inv'
    BY <1>2, UpdatePendingStep, UpdateActiveStep
  <1>3. CASE BeginActive \/ EndUpdateSessions
    BY <1>3, PassStep
  <1>4. ASSUME NEW h \in Holders, NEW g \in Guids, AddPlayerBot(h, g) \/ RemoveCommand(h, g)
        PROVE  Inv'
    BY <1>4, AddPlayerBotStep, RemoveCommandStep
  <1>5. ASSUME NEW i \in Ids, CoreLogout(i) PROVE Inv'
    BY <1>5, CoreLogoutStep
  <1>6. ASSUME NEW m \in Owners, NEW g \in Guids, HandleCommand(m, g) \/ SetMaster(m, g)
        PROVE  Inv'
    BY <1>6, AIStep
  <1>7. ASSUME NEW g \in Guids, UpdateAI(g) \/ LeaveGroup(g) PROVE Inv'
    BY <1>7, AIStep
  <1>8. ASSUME NEW g \in Guids, ClientLogin(g) \/ ClientLogout(g) PROVE Inv'
    BY <1>8, PeopleStep
  <1>9. ASSUME NEW m \in Owners, OwnerLogin(m) \/ OwnerDisconnect(m) PROVE Inv'
    BY <1>9, PeopleStep
  <1>10. ASSUME NEW m \in Owners, OwnerLogout(m) PROVE Inv'
    BY <1>10, OwnerLogoutStep
  <1>11. CASE ShutdownPlayerbots
    BY <1>11, ShutdownStep
  <1>12. CASE UNCHANGED vars
    BY <1>12, PassStep
  <1> QED
    BY <1>1, <1>2, <1>3, <1>4, <1>5, <1>6, <1>7, <1>8, <1>9, <1>10, <1>11, <1>12
    DEF Next, UpdateStep, Stopped

\* Inv is an invariant.
LEMMA Invariance == Spec => []Inv
  BY InitInv, NextInv, PTL DEF Spec

\* The maps of the holders hold at most one session for a character, and the
\* fields of a session object exist exactly as long as the object.
THEOREM TypeCorrect == Spec => []TypeOK
  <1>1. Inv => TypeOK
    BY DEF Inv
  <1> QED BY <1>1, Invariance, PTL

\* Every bot session is held by exactly one entry of one holder, a player pointer
\* only beside the session that owns it, and ShutdownPlayerbots leaves nothing:
\* UpdateSessions, LogoutPlayerBot, LogoutAllBots and a failed login leak no
\* session and delete none twice.
THEOREM BooksBalance == Spec => []Ownership
  <1>1. Inv => Ownership
    <2> SUFFICES ASSUME Inv PROVE OwnedOnce
      BY DEF Inv, Books, Ownership
    <2>1. \A i \in live : \E h \in Holders, g \in guid[i] : i \in pendingBots[h][g] \cup botSessions[h][g]
      <3> SUFFICES ASSUME NEW i \in live
                   PROVE  \E h \in Holders, g \in guid[i] : i \in pendingBots[h][g] \cup botSessions[h][g]
        OBVIOUS
      <3>1. PICK h \in Holders, g \in Guids : i \in Entry(h, g)
        BY DEF Inv, Books, Held
      <3>2. g \in guid[i]
        BY <3>1 DEF Inv, Books, Filed, Entry
      <3> QED BY <3>1, <3>2 DEF Entry
    <2>2. \A h, k \in Holders, g, f \in Guids :
              (pendingBots[h][g] \cup botSessions[h][g]) \cap (pendingBots[k][f] \cup botSessions[k][f]) # {}
              => h = k /\ g = f
      BY DEF Inv, Books, Apart, Entry
    <2> QED BY <2>1, <2>2 DEF OwnedOnce, Inv, Books, Filed
  <1> QED BY <1>1, Invariance, PTL

\* However bot logins, failures and real clients interleave, a character has one
\* login under way at most, reserved in pendingBotLogins exactly as long, and one
\* player at most.
THEOREM LoginsAreExclusive == Spec => []LoginsExclusive
  <1>1. Inv => LoginsExclusive
    BY DEF Inv, Books, Bots, LoginsExclusive
  <1> QED BY <1>1, Invariance, PTL

\* The players that the loops of RandomPlayerbotMgr dereference are alive and its
\* own: PlayerbotPlayerDelete reaches the random manager on every path that
\* destroys a player.
THEOREM RandomManagerSafe == Spec => []RandomEntriesAlive
  <1>1. Inv => RandomEntriesAlive
    BY DEF Inv, Bots
  <1> QED BY <1>1, Invariance, PTL

\* A bot of the random manager keeps no pointer, as its master or as the sender
\* of a queued command, to a player who has left.
THEOREM RandomBotsForget == Spec => []RandomBotsHear
  <1>1. Inv => RandomBotsHear
    BY DEF Inv, Bots
  <1> QED BY <1>1, Invariance, PTL

=============================================================================
