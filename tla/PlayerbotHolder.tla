---------------------------- MODULE PlayerbotHolder ----------------------------
(***************************************************************************)
(* Who owns the socket-less sessions of the playerbot plugin. Every holder  *)
(* (the PlayerbotMgr of a real player, and the one RandomPlayerbotMgr)      *)
(* keeps sessions that are still loading (pendingBots), sessions it owns    *)
(* (botSessions) and raw pointers to their players (playerBots). All of it  *)
(* runs on the world thread; what interleaves is the update pass of one     *)
(* holder with commands, logouts and the core deleting players.             *)
(* Maps to pointers are functions to sets: {} is no entry.                  *)
(***************************************************************************)
CONSTANTS
    Guids,      \* characters that may be bots
    RandomBots, \* those with an "add" event: RandomPlayerbotMgr::IsRandomBot
    Owners,     \* real players, who own a PlayerbotMgr while they are in the world
    Random,     \* the RandomPlayerbotMgr
    Ids         \* bound: session objects alive at one time

ASSUME ConstantsAssumption == RandomBots \subseteq Guids /\ Random \notin Owners

VARIABLES
    pendingBots,        \* per holder
    botSessions,        \* per holder
    playerBots,         \* per holder: the keys of the map
    pendingBotLogins,   \* the reservations shared by all holders
    live,               \* bot sessions constructed and not deleted
    guid,               \* the character of a session, {} when there is no object
    loading,            \* sessions whose m_playerLoading is set
    played,             \* sessions whose _player is set
    master,             \* PlayerbotAI::master of the bot's player: {} or one owner
    commands,           \* the senders in PlayerbotAI::chatCommands
    owner,              \* the real player: "out", "in" or "linkdead"
    client,             \* a real client's login with the character of a bot
    pc,                 \* where the world thread is in UpdateSessions
    cur,                \* the holder it updates
    todo                \* the guids its snapshot has left

holders  == <<pendingBots, botSessions, playerBots, pendingBotLogins>>
sessions == <<live, guid, loading, played>>
ais      == <<master, commands>>
people   == <<owner, client>>
pass     == <<pc, cur, todo>>
vars     == <<holders, sessions, ais, people, pass>>

Holders == Owners \cup {Random}

Init ==
    /\ pendingBots = [h \in Holders |-> [g \in Guids |-> {}]]
    /\ botSessions = [h \in Holders |-> [g \in Guids |-> {}]]
    /\ playerBots = [h \in Holders |-> {}]
    /\ pendingBotLogins = {}
    /\ live = {} /\ loading = {} /\ played = {}
    /\ guid = [i \in Ids |-> {}]
    /\ master = [g \in Guids |-> {}]
    /\ commands = [g \in Guids |-> {}]
    /\ owner = [m \in Owners |-> "out"]
    /\ client = [g \in Guids |-> "none"]
    /\ pc = "idle" /\ cur = Random /\ todo = {}

Present(m) == owner[m] # "out"

\* The holder exists: a real player's goes with the player.
Exists(h) == h = Random \/ (h \in Owners /\ owner[h] # "out")

\* ObjectAccessor::FindConnectedPlayer.
Connected(g) == client[g] = "world" \/ \E i \in played : g \in guid[i]

\* Commands and handlers run between two updates of sessions, or are reached
\* from the callbacks of one.
Running == pc # "stopped"

-----------------------------------------------------------------------------
(* Deleting sessions and players. *)

\* Mutant: the managers keep their pointer to the player.
MutForgotten(h, dead) == {}

\* PlayerbotPlayerDelete erases the entry of the random manager and the one of
\* the manager of the bot's master.
Forgotten(h, dead) == {g \in dead : h = Random \/ h \in master[g]}

\* Mutant: the bots are not told that a player left.
MutHears(g) == FALSE

\* RandomPlayerbotMgr::OnPlayerLogout goes through the bots of the random manager.
Hears(g) == g \in playerBots[Random]

\* The players of the sessions S are destroyed with their AI, the entries erased
\* are taken from the holders, and the owners in left log out.
DeletePlayers(S, erased, left) ==
    LET dead    == UNION {guid[i] : i \in S \cap played}
        Kept(g, refs) == IF g \in dead THEN {} ELSE IF Hears(g) THEN refs \ left ELSE refs
    IN /\ played' = played \ S
       /\ playerBots' = [h \in Holders |-> (playerBots[h] \ erased[h]) \ Forgotten(h, dead)]
       /\ master' = [g \in Guids |-> Kept(g, master[g])]
       /\ commands' = [g \in Guids |-> Kept(g, commands[g])]

\* delete of the sessions S: their query callbacks go with them.
DeleteSessions(S) ==
    /\ live' = live \ S
    /\ loading' = loading \ S
    /\ guid' = [i \in Ids |-> IF i \in S THEN {} ELSE guid[i]]

Only(H, G) == [h \in Holders |-> IF h \in H THEN G ELSE {}]

\* The sessions S leave their holders and are deleted with their players.
Drop(S, erased, left) ==
    /\ pendingBots' = [h \in Holders |-> [g \in Guids |-> pendingBots[h][g] \ S]]
    /\ botSessions' = [h \in Holders |-> [g \in Guids |-> botSessions[h][g] \ S]]
    /\ pendingBotLogins' =
           pendingBotLogins \ {g \in Guids : \E h \in Holders : pendingBots[h][g] \cap S # {}}
    /\ DeletePlayers(S, erased, left)
    /\ DeleteSessions(S)

\* LogoutPlayerBot: the pending session goes, or else the owned one.
LogoutPlayerBot(h, g) ==
    Drop(IF pendingBots[h][g] # {} THEN pendingBots[h][g] ELSE botSessions[h][g],
         Only({h}, {g}), {})

\* The sessions the holders H have entries of.
SessionsOf(H) ==
    {i \in live : \E h \in H, g \in Guids : i \in pendingBots[h][g] \cup botSessions[h][g]}

\* LogoutAllBots of the holders H, while the owners in left log out.
LogoutAllBots(H, left) == Drop(SessionsOf(H), Only(H, Guids), left)

-----------------------------------------------------------------------------
(* AddPlayerBot, LogoutPlayerBot and what calls them. *)

\* pendingBotLogins.insert(guid).second
MayReserve(g) == g \notin pendingBotLogins

\* AddPlayerBot, from ProcessBot or the "add" command. The queries of the login
\* are under way afterwards, unless they could not be prepared. An exception
\* takes the reservation and the session back: no step.
AddPlayerBot(h, g) ==
    /\ Running /\ Exists(h)
    /\ g \notin playerBots[h] /\ pendingBots[h][g] = {} /\ botSessions[h][g] = {}
    /\ ~Connected(g)
    /\ MayReserve(g)
    /\ pendingBotLogins' = pendingBotLogins \cup {g}
    /\ \E i \in Ids \ live :
        /\ live' = live \cup {i}
        /\ guid' = [guid EXCEPT ![i] = {g}]
        /\ pendingBots' = [pendingBots EXCEPT ![h][g] = {i}]
        /\ loading' \in {loading, loading \cup {i}}
    /\ UNCHANGED <<botSessions, playerBots, played, ais, people, pass>>

\* ProcessBotCommand "remove"; random bots are removed the same way.
RemoveCommand(h, g) ==
    /\ Running /\ Exists(h)
    /\ pendingBots[h][g] # {} \/ (Connected(g) /\ g \in playerBots[h])
    /\ LogoutPlayerBot(h, g)
    /\ UNCHANGED <<people, pass>>

\* The core logs the player of an owned session out: AccountMgr::DeleteAccount.
\* The session stays with its holder.
CoreLogout(i) ==
    /\ Running
    /\ i \in played
    /\ DeletePlayers({i}, Only({}, {}), {})
    /\ UNCHANGED <<pendingBots, botSessions, pendingBotLogins, live, guid, loading, people, pass>>

-----------------------------------------------------------------------------
(* PlayerbotHolder::UpdateSessions, one step for each guid of its snapshots. *)

\* UpdatePlayerbotSessions skips managers whose owner is disconnected.
Updated(h) == h = Random \/ (h \in Owners /\ owner[h] = "in")

BeginUpdateSessions(h) ==
    /\ pc = "idle" /\ Updated(h)
    /\ pc' = "pending"
    /\ cur' = h
    /\ todo' = {g \in Guids : pendingBots[h][g] # {}}
    /\ UNCHANGED <<holders, sessions, ais, people>>

\* HandlePlayerLogin rejects the login of a character that is connected.
MayEnter(g) == ~Connected(g)

\* The queries are answered, the bot is in the world and OnBotLogin succeeded:
\* the holder takes the session over.
EnterWorld(g, i) ==
    /\ i \in loading
    /\ MayEnter(g)
    /\ botSessions[cur][g] = {}
    /\ loading' = loading \ {i}
    /\ played' = played \cup {i}
    /\ master' = [master EXCEPT ![g] = IF cur = Random THEN {} ELSE {cur}]
    /\ playerBots' = [playerBots EXCEPT ![cur] = @ \cup {g}]
    /\ botSessions' = [botSessions EXCEPT ![cur][g] = {i}]
    /\ pendingBots' = [pendingBots EXCEPT ![cur][g] = {}]
    /\ pendingBotLogins' = pendingBotLogins \ {g}
    /\ UNCHANGED <<live, guid, commands>>

\* Mutant: the reservation of a login that failed is kept.
MutUnreserved(g) == pendingBotLogins

Unreserved(g) == pendingBotLogins \ {g}

\* Mutant: the session of a login that failed is dropped, not deleted.
MutFailed(i) == {}

\* The session of a login that failed is deleted.
Failed(i) == {i}

\* The login was rejected, the bot did not reach the world, or OnBotLogin threw.
FailLogin(g, i) ==
    /\ pendingBots' = [pendingBots EXCEPT ![cur][g] = {}]
    /\ pendingBotLogins' = Unreserved(g)
    /\ DeletePlayers({i}, Only({cur}, {g}), {})
    /\ DeleteSessions(Failed(i))
    /\ UNCHANGED botSessions

\* One guid of the first snapshot. A guid logged out meanwhile is skipped, and a
\* session whose queries are under way is left alone.
UpdatePending(g) ==
    /\ pc = "pending" /\ g \in todo
    /\ todo' = todo \ {g}
    /\ \/ /\ pendingBots[cur][g] \subseteq loading
          /\ UNCHANGED <<holders, sessions, ais>>
       \/ \E i \in pendingBots[cur][g] : EnterWorld(g, i) \/ FailLogin(g, i)
    /\ UNCHANGED <<people, pc, cur>>

BeginActive ==
    /\ pc = "pending" /\ todo = {}
    /\ pc' = "active"
    /\ todo' = {g \in Guids : botSessions[cur][g] # {}}
    /\ UNCHANGED <<holders, sessions, ais, people, cur>>

\* Mutant: a session without a player is not reclaimed.
MutReclaimed(i, out) == i \in played /\ out

\* The session has no player once its packets have been handled (out: one of
\* them, or the answer to a teleport, logged the player out).
Reclaimed(i, out) == i \notin played \/ out

\* One guid of the second snapshot. A guid logged out meanwhile is skipped.
UpdateActive(g) ==
    /\ pc = "active" /\ g \in todo
    /\ todo' = todo \ {g}
    /\ \/ /\ \E i \in botSessions[cur][g], out \in BOOLEAN : Reclaimed(i, out)
          /\ Drop(botSessions[cur][g], Only({cur}, {g}), {})
       \/ /\ \A i \in botSessions[cur][g] : ~Reclaimed(i, FALSE)
          /\ UNCHANGED <<holders, sessions, ais>>
    /\ UNCHANGED <<people, pc, cur>>

EndUpdateSessions ==
    /\ pc = "active" /\ todo = {}
    /\ pc' = "idle"
    /\ UNCHANGED <<holders, sessions, ais, people, cur, todo>>

-----------------------------------------------------------------------------
(* The AI of a bot that is in the world. *)

HasAI(g) == \E i \in played : g \in guid[i]

\* A chat command is queued with a pointer to its sender: PlayerbotAI::HandleCommand.
HandleCommand(m, g) ==
    /\ Running /\ owner[m] = "in" /\ HasAI(g)
    /\ commands' = [commands EXCEPT ![g] = @ \cup {m}]
    /\ UNCHANGED <<holders, sessions, master, people, pass>>

\* The bot's next tick drains the commands and reads their senders.
UpdateAI(g) ==
    /\ pc = "idle" /\ HasAI(g) /\ commands[g] # {}
    /\ commands' = [commands EXCEPT ![g] = {}]
    /\ UNCHANGED <<holders, sessions, master, people, pass>>

\* A bot without a master takes one from its group (UpdateAIInternal, OnPlayerLogin);
\* a random bot takes the one who invites it.
SetMaster(m, g) ==
    /\ pc = "idle" /\ owner[m] = "in" /\ HasAI(g)
    /\ master[g] = {} \/ g \in RandomBots
    /\ master' = [master EXCEPT ![g] = {m}]
    /\ UNCHANGED <<holders, sessions, commands, people, pass>>

\* LeaveGroupAction of a random bot.
LeaveGroup(g) ==
    /\ pc = "idle" /\ HasAI(g) /\ g \in RandomBots
    /\ master' = [master EXCEPT ![g] = {}]
    /\ UNCHANGED <<holders, sessions, commands, people, pass>>

-----------------------------------------------------------------------------
(* Real players. *)

OwnerLogin(m) ==
    /\ pc = "idle" /\ owner[m] = "out"
    /\ owner' = [owner EXCEPT ![m] = "in"]
    /\ UNCHANGED <<holders, sessions, ais, client, pass>>

OwnerDisconnect(m) ==
    /\ pc = "idle" /\ owner[m] = "in"
    /\ owner' = [owner EXCEPT ![m] = "linkdead"]
    /\ UNCHANGED <<holders, sessions, ais, client, pass>>

\* LogoutPlayer of a real player: the logout hook, then the delete hook, which
\* destroys its PlayerbotMgr.
OwnerLogout(m) ==
    /\ pc = "idle" /\ Present(m)
    /\ owner' = [owner EXCEPT ![m] = "out"]
    /\ LogoutAllBots({m}, {m})
    /\ UNCHANGED <<client, pass>>

\* A real client asks for the character of a bot, and its queries are answered.
ClientLogin(g) ==
    /\ pc = "idle"
    /\ \/ client[g] = "none" /\ client' = [client EXCEPT ![g] = "loading"]
       \/ /\ client[g] = "loading"
          /\ client' = [client EXCEPT ![g] = IF MayEnter(g) THEN "world" ELSE "none"]
    /\ UNCHANGED <<holders, sessions, ais, owner, pass>>

ClientLogout(g) ==
    /\ pc = "idle" /\ client[g] # "none"
    /\ client' = [client EXCEPT ![g] = "none"]
    /\ UNCHANGED <<holders, sessions, ais, owner, pass>>

\* The holders ShutdownPlayerbots goes through.
Managed == {Random} \cup {m \in Owners : Present(m)}

ShutdownPlayerbots ==
    /\ pc = "idle"
    /\ LogoutAllBots(Managed, {})
    /\ pc' = "stopped"
    /\ UNCHANGED <<people, cur, todo>>

Stopped == pc = "stopped" /\ UNCHANGED vars

-----------------------------------------------------------------------------
UpdateStep ==
    \/ \E g \in Guids : UpdatePending(g) \/ UpdateActive(g)
    \/ BeginActive
    \/ EndUpdateSessions

Next ==
    \/ \E h \in Holders : BeginUpdateSessions(h)
    \/ UpdateStep
    \/ \E h \in Holders, g \in Guids : AddPlayerBot(h, g) \/ RemoveCommand(h, g)
    \/ \E i \in Ids : CoreLogout(i)
    \/ \E m \in Owners, g \in Guids : HandleCommand(m, g) \/ SetMaster(m, g)
    \/ \E g \in Guids : UpdateAI(g) \/ LeaveGroup(g) \/ ClientLogin(g) \/ ClientLogout(g)
    \/ \E m \in Owners : OwnerLogin(m) \/ OwnerDisconnect(m) \/ OwnerLogout(m)
    \/ ShutdownPlayerbots
    \/ Stopped

\* PlayerbotWorldUpdate updates the random manager on every world tick, and the
\* pass visits a finite snapshot without waiting for anything.
Spec == Init /\ [][Next]_vars /\ SF_vars(BeginUpdateSessions(Random)) /\ WF_vars(UpdateStep)

-----------------------------------------------------------------------------
\* What a map holds for a key: one pointer, or none.
Pointers(S) == {P \in SUBSET S : \A x, y \in P : x = y}

HolderTypes ==
    /\ pendingBots \in [Holders -> [Guids -> Pointers(Ids)]]
    /\ botSessions \in [Holders -> [Guids -> Pointers(Ids)]]
    /\ playerBots \in [Holders -> SUBSET Guids]
    /\ pendingBotLogins \subseteq Guids

SessionTypes ==
    /\ live \subseteq Ids /\ loading \subseteq live /\ played \subseteq live
    /\ guid \in [Ids -> Pointers(Guids)]
    /\ \A i \in Ids : i \in live <=> guid[i] # {}

AITypes ==
    /\ master \in [Guids -> Pointers(Owners)]
    /\ commands \in [Guids -> SUBSET Owners]

WorldTypes ==
    /\ owner \in [Owners -> {"out", "in", "linkdead"}]
    /\ client \in [Guids -> {"none", "loading", "world"}]
    /\ pc \in {"idle", "pending", "active", "stopped"}
    /\ cur \in Holders /\ todo \subseteq Guids

\* The maps hold at most one session for a guid, and sessions that do not exist
\* have no fields.
TypeOK == HolderTypes /\ SessionTypes /\ AITypes /\ WorldTypes

\* Every bot session that exists is held by exactly one entry of one holder, as
\* pending or as owned, and every entry holds a session that exists: no path of
\* UpdateSessions, LogoutPlayerBot or a failed login leaks or deletes twice.
OwnedOnce ==
    LET Entry(h, g) == pendingBots[h][g] \cup botSessions[h][g] IN
    /\ \A h \in Holders, g \in Guids : pendingBots[h][g] = {} \/ botSessions[h][g] = {}
    /\ \A i \in live : \E h \in Holders, g \in guid[i] : i \in Entry(h, g)
    /\ \A h, k \in Holders, g, f \in Guids :
           Entry(h, g) \cap Entry(k, f) # {} => h = k /\ g = f
    /\ \A h \in Holders, g \in Guids : Entry(h, g) \subseteq live

\* A character is reserved in pendingBotLogins exactly while one holder, and no
\* other, has a login of it pending: a failed login never blocks the next one.
ReservedWhilePending ==
    \A g \in Guids :
        LET waiting == {h \in Holders : pendingBots[h][g] # {}} IN
        /\ \A h, k \in waiting : h = k
        /\ g \in pendingBotLogins <=> waiting # {}

\* A character is in the world once at most, whatever bots and clients log in
\* with it: HandlePlayerLogin and AddPlayerBot look for a connected player.
OnePlayer ==
    \A g \in Guids :
        LET players == {i \in played : g \in guid[i]} IN
        /\ \A i, j \in players : i = j
        /\ client[g] = "world" => players = {}

\* A pointer to a bot's player is kept only beside the session that owns it.
EntriesOwned ==
    \A h \in Holders : \A g \in playerBots[h] : botSessions[h][g] # {}

\* The players the random manager's loops dereference are alive and its own.
RandomEntriesAlive ==
    \A g \in playerBots[Random] : \E i \in botSessions[Random][g] : i \in played

\* A bot of the random manager has no pointer, as its master or as the sender of
\* a queued command, to a player who has left: OnPlayerLogout drops them.
RandomBotsHear ==
    \A g \in playerBots[Random] : \A m \in master[g] \cup commands[g] : Present(m)

\* Nothing is left of the bots once ShutdownPlayerbots is done.
NothingLeftBehind ==
    pc = "stopped" => live = {} /\ pendingBotLogins = {} /\ \A h \in Holders : playerBots[h] = {}

\* The books of the holders agree with the objects at every step and are empty
\* after the shutdown: no session leaks, none has two owners, and no player
\* pointer is kept without the session behind it.
Ownership == OwnedOnce /\ EntriesOwned /\ NothingLeftBehind

\* However bot logins, failures and real clients interleave, a character has one
\* login under way at most, reserved exactly as long, and one player at most.
LoginsExclusive == ReservedWhilePending /\ OnePlayer

\* A session of the random manager whose player the core removed is reclaimed by
\* one of the next updates.
StaleReclaimed ==
    LET Stale(i) == \E g \in Guids : i \in botSessions[Random][g] /\ i \notin played IN
    \A i \in Ids : Stale(i) ~> ~Stale(i)

\* The comment in OnPlayerLogout: commands that captured a player who quits are
\* dropped while he is alive.
NoCommandFromTheGone ==
    \A g \in Guids : \A m \in commands[g] : Present(m)

=============================================================================
