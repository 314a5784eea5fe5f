# TLA+ models of the world server

This project specifies and checks the parts of the 3.4.3 world server in which
threads, network peers, database answers and object lifetimes meet. Each
component is a TLA+ module translated from the C++ source; TLC checks it on
small instances and TLAPS proves the central invariants for every instance.

Paths below are relative to the repository's `src/` directory.

## 1. Inventory

### Threads

* The **world thread** runs `World::Update` again and again: sessions, world
  state, `MapManager::Update`, bots.
* `MapUpdate.Threads` **map workers** run `Map::Update` for the maps the world
  thread hands them (`server/game/Maps/MapUpdater.cpp`).
* The **network threads** each own a set of sockets and run their handlers and,
  once per millisecond, `WorldSocket::Update` (`server/shared/Networking`).
* **Database workers** execute queries; their answers are picked up by the
  thread that asked (`QueryCallbackProcessor`).

### Components

| component | state | operations | talks to | hard part | must hold |
|---|---|---|---|---|---|
| Map update workers | `pending_requests`, `_queue`, `_cancelationToken`, `_shutdown` | `schedule_update`, `wait`, `update_finished`, `WorkerThread`, `deactivate` | world thread, maps | two mutexes and two condition variables, shutdown | barrier, one thread per map, no lost request, every tick ends |
| Map manager, instance ids | `i_maps`, `_freeInstanceIds`, `_nextInstanceId` | `CreateMap`, `DestroyMap`, `RegisterInstanceId`, `GenerateInstanceId`, `FreeInstanceId` | players' recent instances, instance locks | ids outliving maps, growth of the bitset | next id is the lowest free one, ids stay inside the bitset |
| Session list and login queue | `m_sessions`, `addSessQueue`, `m_QueuedPlayer`, `m_disconnects` | `AddSession`, `AddSession_`, `RemoveQueuedPlayer`, `UpdateSessions`, `KickAll` | network threads, sessions | replacement of a session that is queued or loading, several removals in one pass | one owner, one session per account, limit kept, fair queue |
| World socket | `_authPhase`, `_worldSession`, `_pendingWorldSession`, `_closed`, `_closing`, `_queryProcessor` | the handshake packets and callbacks, `OnClose`, `Update` | world thread through `AddSession` and `_linkSocketQueue` | closing from two threads, late answers, two sockets per session | the session under construction has one owner and is published once, no session freed under a socket that uses it |
| World session | `m_Socket[2]`, `_player`, `m_playerLoading`, `expireTime`, `forceExit`, `_recvQueue` | `QueuePacket`, `Update`, `LogoutPlayer`, `KickPlayer`, `AbortLogin`, destructor | sockets, players, maps | deletion while the network thread uses it; one packet queue emptied by two threads in turn | as above; sessions without a connection go; every packet is handled or dropped once, and none is stuck |
| Playerbot session ownership | `pendingBots`, `botSessions`, `playerBots`, `pendingBotLogins`; the AIs' `master` and `chatCommands` | `AddPlayerBot`, `UpdateSessions`, `LogoutPlayerBot`, `LogoutAllBots`, hooks | core, real players, random manager | raw pointers across an update pass, failing logins, the core deleting players | sessions owned once, a character in the world once, no dangling pointer |
| Random playerbot scheduling | event table, current bots | `ProcessBot`, `Randomize`, `ScheduleTeleport` | holders | time-outs of events | only its share in session ownership is modelled |
| Instance locks | temporary and permanent locks, shared data, weak pointers by id, pending binds; two tables | `CreateInstanceLockForNewInstance`, `UpdateInstanceLockForPlayer`, `UpdateSharedInstanceLock`, `UpdateInstanceLockExtensionForPlayer`, `ResetInstanceLocksForPlayer`, `Load` | instance maps, players, database | promotion of a temporary lock, raw pointers from maps, crashes while statements are posted | one state per instance, nobody saved to a living boss, executed saves stay |
| Outgoing packet queues | `_bufferQueue`, `_writeQueue`, `_isWritingAsync`, `_closing` | `SendPacket`, `Update`, `HandleQueue`, `CloseSocket`, `DelayedCloseSocket` | every thread that sends | a lock-free queue, partial writes, close before flush | a FIFO; the wire carries what was sent, in order; nothing waits for ever |
| Player trade | `m_trade` of both players, bags and gold, the same in the database | the trade handlers, `TradeData`, `TradeCancel`, the transaction at the end | inventory, spells, saves, logout | stale accept packets, raw pointers, items that leave meanwhile, crashes | what was shown and is left is exchanged, nothing else; nothing is made or lost |
| Character login | login state of a session | `HandlePlayerLoginOpcode`, `HandleContinuePlayerLogin`, `HandlePlayerLogin` | sockets, database | several round trips | the order is in WorldSocket and PlayerbotHolder |
| Database workers | queue of tasks, connections | `Enqueue`, `QueryCallback` | every component | asynchronous answers | no module of its own: InstanceLocks has the queue of one worker, elsewhere answers arrive after any delay |
| Event processor | ordered events | `AddEvent`, `Update`, `KillAllEvents` | spells, AI | re-entrancy | not modelled yet |
| Groups, dungeon finder, battleground queues | members, roles, queues | many | players | long protocols on one thread | not modelled yet |
| Auctions, mail, guild bank | items, money | many | database transactions | conservation of items and money | not modelled yet |
| Battle.net server, spells, entities, AI, collision, data stores, tools | | | | | out of scope, see section 9 |

`PROJECT.json` has the same list with sources, and under "hazards" every place
where this code can go wrong in a way a test would hardly reach, with its line
and the property that watches it.

## 2. Plan

Done, in this order because every other part of the server relies on the first
ones: MapUpdater, InstanceIds, WorldSessions, WorldSocket, PlayerbotHolder; then
SocketWriter on MPSCQueue (with the abstract Fifo), InstanceLocks on InstanceIds,
SessionUpdate, Trade; the proofs for MapUpdater, InstanceIds and Trade, then for
WorldSocket, PlayerbotHolder, SessionUpdate, WorldSessions and SocketWriter, and last
for the locks of InstanceLocks, conservation in Trade and MapTick. Every safety
property of the passing runs is now also a theorem.

Next, most important first:

1. Map lookups by workers (`MapManager::FindMap` under `_mapsLock`) as an
   extension of MapUpdater.
2. `RandomPlayerbotEvents`, `DatabasePool`, `EventProcessor`, groups and queues,
   auctions and mail after the pattern of Trade.
3. A further abstract specification: an admission queue, implemented by
   WorldSessions.

## 3. Modules and the code

`PROJECT.json` maps every definition to the lines it translates. Definitions
keep the names of the source. Definitions whose name starts with `Mut` are
plausible mistakes in the definition that follows them, used to show that each
property can fail.

### MapUpdater

State: `i_maps`; the updater's `pending_requests`, the queue, `shutdown`,
`cancelationToken`; `lock` is true only where `_lock` is held across two steps
(`schedule_update` counts and then pushes under it). `pc`, `todo` and `touched`
say where the world thread is, which maps its loop has not reached and which map
it works on; `wpc` and `request` do the same for each worker. `scheduled` and
`updated` are history.

A step is what runs without giving another thread a chance to matter: one
critical section, one return from `Map::Update`. A condition variable is a
"blocked" position left by a notification or spuriously. `CanUnload` is
a free choice (whether the unload timer has run out depends on game time), and
so is whether `DestroyMap` finds players. `activated` is chosen at the start:
when `MapUpdate.Threads` is 0 there are no workers and the world thread updates
the maps itself.

Abstracted: the iteration order over `i_maps` (any order), the work of
`Map::Update`, the tick timer. Map identities are reused after destruction, as
the keys of `i_maps` are.

### MapTick

What the users of the updater rely on, without threads, locks and requests: a tick
begins with all maps (`ahead`), unloads some, hands others out (`given`) and has
somebody go `inside` each of them once; only when all have been left does
`DelayedUpdate` visit every map, and session handlers and the shutdown come after.
`ImplementsMapTick` of MapUpdater is the refinement. Its mapping finds a given map
in the queue, in the hands of the thread that pushes it or in those of a worker that
has not called `Map::Update` yet. `TickComplete`, which says the same of the end of
a tick by means of history variables, is proved but not repeated in the run.

### InstanceIds

State: the bitset as `size` and `used` (its false bits), `next`, the ids still
to be registered at startup, and the clients: `live` dungeon maps, `timed` maps
whose unload timer runs, the map each player is `inside`, and the id `recent`ly
used per player and dungeon. Actions: `RegisterInstanceId` in the order of the
query, `EnterDungeon` (the branch of `CreateMap` for a dungeon without a reset
schedule and an ungrouped player, map creation included), `LeaveDungeon`,
`ResetInstances` with `InstanceMap::Reset`, `DestroyMap`.

Abstracted: raids and locks (InstanceLocks), groups, difficulty
levels, battleground and garrison maps, which take ids in the same way.

### InstanceLocks

Extends InstanceIds: the pool of ids, the live maps and who is inside are its
variables, and raids are its `Dungeons`. State of the manager: lock objects
(`locks`, in the temporary or the permanent table, or "freed" while a map still
points to them), the shared data objects, the weak pointers by id. State of the
world: the lock each live map was created with, its expiry event, the pending
bind of each player, the week. State of the database: the rows of
`character_instance_lock` and of `instance`.

A handler is one action that computes the tables as the C++ does (the fold over
the players in the map is the loop of `UpdateInstanceLock`). It changes memory at
once and only posts its statements, since `Execute` and `CommitTransaction` put a
task on the queue of the database pool (`DatabaseWorkerPool.cpp:347-371, 596-603`).
`rows` and `inst` are the tables as they will be when all of it is executed, `posted`
is the list of the states they pass before, the first of which is what the database
holds now (`Disk`). `Commit` posts the deletions of shared data that nobody holds, a
statement each, and then the transaction; `ExecuteNext` is the worker. The server can
go down in any state (`Restart`: a crash, or `Close`, lines 213-236, which
stops the pool's executor and drops the queue), and then what is posted is lost.
`Load` is `InitInstanceIds` with `InstanceLockMgr::Load`; ids are then registered one
by one. An `ASSERT` that fails, and the use of a lock that was freed, put the
server down (`failed`), so that the other properties are about a server that runs.

The queue is executed in order because there is one worker
(`CharacterDatabase.WorkerThreads = 1`, `worldserver.conf.dist:148`). The deletions
`Load` makes count as one item. That the database refuses a statement is not modelled.

Abstracted: the instance's save string, the entrance, difficulty levels, time
(counted in reset periods). Only raids bound to an instance id are modelled;
`IsInstanceIdBound` is false for flexible difficulties. A player of `Leaders`
stands for the group's `RecentInstanceOwner`.

### WorldSessions

State: session objects (`live`, `open`, `player`, `expire`, `forced`), the two
containers `adding` and `listed`, the login queue with `inQueue` and `admitted`
(`InitializeSession` was called), the limit, the disconnect table and the time.
The world thread's position in `UpdateSessions` is `pc` and `todo`; network
threads add sessions and close sockets between any two of its steps. A session
is named by its account and an incarnation, so an account can log in while an
older session of it is queued, loading, playing or disconnected.

`RemoveQueuedPlayer` is an operator that returns what the function returns, the
queue and the session admitted; `DropSession` uses it twice because
`UpdateSessions` does. `UpdateSession` is a whole `WorldSession::Update`.

Abstracted: packets (what they do to the player of the session is a free choice
along `PlayerStep`), timers in ticks.

### WorldSocket

State per connection: `status` (open, closing, closed; "shut" is the interval
between the exchange of `_closed` and `OnClose`), `phase`, `kind`, the
outstanding read, the outstanding query, the network thread's `step`, the key of
an instance connection, `ptr` for `_worldSession`, and `kicks`, the sockets whose
`OnClose` its thread still has to run inside `KickPlayer`. State per session, named by
the socket that creates it: its life, its instance socket, its login, the last
instance key drawn. World thread: what it is closing or linking. Closing by the
world thread takes two steps (exchange and `OnClose`), so that the network
thread can run in between. So does closing by `KickPlayer`, which `AbortLogin`
calls on a network thread: `KickRealm` exchanges `_closed` of the realm socket
(`Socket.h:152-164`), `KickOnClose` runs its `OnClose` later, `KickInstance` does the
same with the instance socket, and `KickReturn` ends the handler. Another thread that
calls `CloseSocket` in between finds the exchange done and goes on.

Abstracted: contents, encryption and compression; whether a packet is well formed, a
password right or a ban present is a free choice. `_worldSessionLock` is held
over one step everywhere except from `AbortLogin` to `KickReturn`, where it is
explicit: nobody else runs `OnClose` of that socket.

### Fifo, MPSCQueue, SocketWriter

`MPSCQueue` is `MPSCQueueIntrusive`: `head`, `tail` and the links through the
elements, with one action per atomic operation of `Enqueue` and `Dequeue`.
`Fifo` is what users rely on: an `Enqueue` takes effect once between call and
return, a `Dequeue` returns the oldest element, or nothing with an excuse (the
queue was empty, or an `Enqueue` was under way). `Contract` is the refinement
mapping; its history variables are `queue` (elements exchanged in) and `excuse`.

`SocketWriter` extends it with the users: threads that call `SendPacket`, the
network thread that packs packets into buffers and writes them, the
operating system that takes all, a part or nothing, a peer that resets, and
threads that close the socket at once or delayed. The test of `_writeQueue` in
`DelayedCloseSocket` is not synchronised with the network thread: while that one
changes the queue the outcome is a free choice, and `stale` remembers that it
was wrong. A packet is as many equal bytes as its size, and `sent` is the bytes of the
packets in the order of `_bufferQueue`, to be compared with `wire`. Memory is
sequentially consistent, which the code's acquire and release
pairs on each link justify for one consumer.

### SessionUpdate

State: `_recvQueue`, the local variables of the `Update` that runs
(`requeuePackets`, `processedPackets`), the player, `m_playerRecentlyLogout`,
the logout timer, the socket. A step is one call of `LockedQueue::next` with the
handling of its packet, or the end of an `Update`; network threads append
between any two. World and map updates alternate and never overlap: this is what
`Barrier` and `OneThreadPerMap` of MapUpdater state. One opcode stands for each
combination of status and processing place that `Update` treats differently;
what handlers do to the player is a free choice where it depends on game state.

### Trade

State: `m_trade` of every player (the trader, the offer, the acceptance, the
spell), belongings in memory and in the database, who is in the world. The
server state index is a random number; instead of the number a TradeData keeps
the set of offers that were sent to the partner under the current index, so an
accept packet that matches is about one of these (`InTime`), and any other is
refused. Trade handlers run on the world thread, so each is one action;
`HandleAcceptTradeOpcode` is one action for every way out. `MoveItems` is the
loop of `moveItems`, slot by slot, with its way back when an item does not fit.
`Spend`, `PutAway`, `GetBack` and `Bind` are what the rest of the game does to
gold and items while a trade is open; `SaveToDB`, `LogoutPlayer`, `Login` and
`Crash` are the fault model.

Abstracted: the checks of `HandleInitiateTradeOpcode` and of the set-item handler
that only send a status; distance (acceptance may be refused at any time); bags as a
number of places; stack sizes (a changed stack is `SetCount`). The two tests of bound
items are two: `CanBeTraded` (`bound`), and `IsBindedNotWith`, which is about the
other player: `Allowed` says who may have an item in spite of it. `ItemsRight` asks it
of the accepting player's items only, since the same test of the trader's is commented
out (`TradeHandler.cpp:337-342`). A bot accepts like a client that always has the
current index.

Transactions are applied whole, in the order they were queued, and at once. That is
sound here, unlike for the locks: one worker executes them in order, nothing of the
modelled state outlives a crash but the tables, and so a crash that loses the last
transactions is a crash that happened before they were queued.

### PlayerbotHolder

State: for every holder (one per real player in the world and the random
manager) the three maps of `PlayerbotHolder`, the shared reservations, the bot
sessions, the AI's `master` and the senders of queued commands, the real players
and real clients that log in with the same characters. All of it runs on the
world thread, but `UpdateSessions` walks a snapshot and what its callbacks reach
(commands, logouts, the core deleting a player) happens between two entries of
it. `DeletePlayers` is the delete hook with the logout hook; `Drop`,
`LogoutPlayerBot` and `LogoutAllBots` are built on it.

Abstracted: the bots' behaviour, listing and parsing of commands.

## 4. Runs

| run | instance | distinct states | shows |
|---|---|---|---|
| `map_updater` | 3 maps, 2 workers or none | 29 913 | barrier, exclusive access, no lost request, every tick and the shutdown end, MapTick is implemented |
| `instance_ids` | 2 players, 2 dungeons, stored ids up to 2, ids up to 3 | 185 576 | the next id is the lowest free one, no index leaves the bitset |
| `instance_locks` | 2 players, 1 raid with 1 encounter, 2 ids, 1 reset; 1 player extends his lock, the other's a game master resets | 419 025 | one state per instance, nobody saved to a living boss, executed saves stay until the reset, the lock of a live map stays |
| `instance_locks_assert` | the same, no reset | violation | finding 1 |
| `world_sessions` | 3 accounts, one of which skips the queue, 2 incarnations, limits 1 and 2, expiry 1, 1 pending | 734 372 | ownership, a consistent queue, limit, no idle place, fairness |
| `world_sessions_live` | 2 accounts, limit 1, expiry 2 | 23 852 | published sessions are taken, lost ones go |
| `world_socket` | 3 connections, 2 keys | 3 000 811 | ownership of the pending session, safe pointers, everything handed over once |
| `world_socket_live` | 2 connections, 1 key | 27 014 | every handshake ends |
| `socket_writer` | 3 threads, 2 packet objects of two sizes, 3 sends | 252 523 | the queue is a FIFO, wire in order, packets freed once, everything sent, delayed close ends |
| `session_update` | 4 packets, limit 1 (two packets per update) | 82 151 | packets handled or dropped once, order of early packets, leftovers and logins get their turn |
| `trade` | 3 players, 2 items, 1 traded slot, 1 gold piece, 1 place | 156 106 | paired pointers, acceptance about the current offer, conservation, exchange of what is left |
| `playerbot_holder` | 2 characters (1 random bot), 1 owner and the random manager, 3 sessions | 379 608 | ownership, exclusive logins, entries of the random manager, shutdown, stale sessions are reclaimed |

Further configurations, kept beside these, each check one property that the code
does not have (section 6): `InstanceIdsPrivate.cfg` (module MCInstanceIds),
`WorldSessionsTolerance.cfg` (MCWorldSessions), `WorldSocketRelink.cfg`,
`WorldSocketKick.cfg` and `WorldSocketAbort.cfg` (MCWorldSocket),
`PlayerbotHolderCommand.cfg` (PlayerbotHolder), `TradeItemLeft.cfg` (MCTrade),
`SocketWriterDelayed.cfg` (SocketWriter). TLC finds the counterexample of
`WorldSocketKick.cfg` (42 states) in about a minute, those of the others in seconds.

Properties that belong together are checked as one: `QueueConsistent`,
`SessionsMoveOn`, `Ownership` and `LoginsExclusive` are conjunctions of named
parts. The modules' type invariants are not repeated in the runs; all of them are proved.

Why the bounds are enough:

* Two workers race with each other and with the world thread; three maps allow
  one queued, one held and one being destroyed or pushed at the same time.
* Ids up to 3 over stored ids up to 2 reach gaps, growth of the bitset and
  reuse; `MaxId` only limits how many new ids are drawn.
* Three accounts and limits 1 and 2 give one or two active sessions and a queue
  of two (the account that skips the queue can fill the only place), with a
  second incarnation for a reconnect. An expiry of one tick drops a disconnected
  session at its first update, one of two ticks lets it wait. `MaxPending` = 1 keeps
  `addSessQueue` short: the loop takes one at a time, and others are published
  between two turns.
* One realm connection and two instance connections, or two accounts and one
  instance connection, are the smallest sets in which a socket is replaced. A
  second key makes the first one stale.
* Raids: with one player following the other into his instance, two ids and one
  encounter there are a fresh, a saved, an expired and an extended lock, two
  instances at once, and an id that is given out again after a restart. Locks are
  extended before the last reset (no reset would follow a later one), and the game
  master comes in the last period. `MaxPosted` = 1: a handler posts its deletion and
  its transaction, and the next one that writes waits for the worker. More in the
  queue would only bring memory further ahead of the database: a server that goes
  down forgets memory and starts from one of the states the tables pass, whichever it is.
  `MaxCopies` = 2 lets a player have an old and a new lock object of one instance;
  at the bound no further object is made.
* Packets: two objects, freed and allocated again, reach the case in which an
  element is enqueued anew while its old successor is still being linked; a
  third send overlaps both. One size fits a buffer, the other does not.
* Four packets with a limit of two per update are an early packet, a login, a
  leftover and one more that arrives during the update.
* Trade: with three players one can begin a trade while an accept packet of the
  previous one is still under way; `Loose` and `Spenders` let one item and one
  player's gold change outside the trade, `Room` = 1 and `MaxMoney` = 1 put bags
  and gold at their limits. `Allowed` keeps one item from the third player.
* A real player's manager and the random manager compete for two characters, of
  which one may change its master; with three sessions at once one holder can be
  loading while a stale session of each kind is left.

The theorems of section 7 hold for every value of these bounds.

Symmetry is used in runs that check safety only, over sets of interchangeable
model values. Deadlock is checked except in the WorldSocket, SocketWriter and
SessionUpdate runs: there a connection is used once, so a state in which it is
closed and forgotten is a legal end.

## 5. Fairness

* MapUpdater: weak fairness of the world thread while it is in a tick or in
  shutdown, and of each worker: the operating system runs threads that can run.
  Nothing is assumed of spurious wake-ups, of map creation or of the start of a
  tick. That `Map::Update` returns is part of the fairness of a worker.
* WorldSessions: weak fairness of the world thread; strong fairness of leaving
  the loop over `addSessQueue`, since a login takes round trips and database
  queries and cannot refill it each time it is emptied.
* WorldSocket: a network thread finishes a handler it has begun (`OnClose`, a
  packet); a closing socket gets its last bytes written; the time-out test of
  `WorldSocket::Update` comes round between two reads (strong fairness). No
  packet, query answer or action of the world thread is assumed to come.
* SocketWriter: each thread finishes the `SendPacket` or `DelayedCloseSocket` it
  is in (weak, per thread); the network thread runs `Update` again and again
  (weak), which the timer in `NetworkThread::Update` does; a pending asynchronous
  write is called back in the end (strong, since other handlers of the
  thread come between): a peer that never reads again is `Break` or a time-out
  that closes the socket. No send and no close is assumed to come.
* SessionUpdate: weak fairness of the updates, which the main loop and the map
  updates run again and again. Nothing is assumed of the client.
* PlayerbotHolder: the random manager is updated on every world tick (strong,
  since other work comes between), and an update pass goes through its finite
  snapshot.

## 6. Findings

Where the code does otherwise than a comment, an assertion or a document of the
repository says. The first is run `instance_locks_assert`; the others are shown by the
further configurations of section 4.

1. `ASSERT(instanceLock->GetInstanceId() == updateEvent.InstanceId)`
   (`InstanceLockMgr.cpp:340`): a player who has opened an instance of his own and
   killed nothing has a temporary lock. `CanJoinInstanceLock` lets him into his
   leader's instance because the lock is new; when a boss dies there the
   temporary lock, of the other id, is promoted and the assertion ends the server. With a reset in
   play (`MaxWeek` = 1) the assertion in line 319 can fail as well, and a
   map can be left with a pointer to a lock that was replaced.
2. `MapManager::CreateMap` re-enters a dungeon under a remembered id that
   `DestroyMap` has freed, without marking it used; `GenerateInstanceId` then
   gives it to somebody else and the two players share the instance
   (`PrivateInstance`; `MapManager.cpp:136`: "return the right instance for the
   object, based on its InstanceId").
3. `HasRecentlyDisconnected` (`World.cpp:469`) subtracts the present from the
   past: the tolerance for disconnected players never runs out
   (`ToleranceExpires`; `worldserver.conf.dist:449`: "Tolerance (in seconds) for
   disconnected players before reentering the queue").
4. A second instance connection with the same key replaces the first in
   `m_Socket` without closing it; the first stays open with a pointer that
   dangles once the session is deleted (`NoSocketOutlivesSession`;
   `WorldSession.cpp:171`: "If have unclosed socket, close it"). `KnownSocketsSafe`
   shows that the sockets the session knows are safe, but for finding 5.
5. `KickPlayer` called from `AbortLogin` on a network thread closes the session's
   *other* sockets too: it exchanges `_closed` of the realm socket and runs `OnClose`
   afterwards (`WorldSession.cpp:757-767`, `Socket.h:152-164`). In between, the world
   thread finds both sockets closed, deletes the session without waiting for
   `_worldSessionLock` (its own `CloseSocket` does nothing, the exchange is done), and the
   thread of the realm socket handles a packet with the pointer, lock held
   (`LockGuardsSession`; `WorldSocket.h:135`: "accessing WorldSession is not threadsafe,
   only do it when holding `_worldSessionLock`"). This takes two network threads; the
   default is one (`Network.Threads = 1`, `worldserver.conf.dist:3206`).
6. `CMSG_CONNECT_TO_FAILED` reaches `KickPlayer`, and through it `OnClose` of
   the same socket, with `_worldSessionLock` held (`NoSelfDeadlock`;
   `WorldSocket.cpp:268-269`: "never do it under _worldSessionLock").
7. Commands of a player who quits are dropped from the random manager's bots
   only; another player's bot keeps them with the pointer
   (`NoCommandFromTheGone`; `RandomPlayerbotMgr.cpp:852-854`). `RandomBotsHear`
   is the part that holds.
8. `HandleAcceptTradeOpcode` looks only at the offered items `TradeData::GetItem` still
   finds. One that was sold, mailed or put away since it was shown is skipped there and
   in `setAcceptTradeMode` (`TradeHandler.cpp:311, 470-511`): the exchange is done
   without it, and the partner pays in full (`EveryItemPasses`; `TradeHandler.cpp:308`:
   "not accept if some items now can't be trade (cheating)"). Only a change of a stack's
   count or its splitting (`Player.cpp:12611`) reaches the trade; nothing cancels it when the item goes.
   `ExchangeOfWhatIsLeft` is the part that holds.
9. `DelayedCloseSocket` closes at once when `_writeQueue` is empty, while the
   answer sent just before is still in `_bufferQueue` and is never written
   (`DelayedCloseFlushes`; `Socket.h:166`: "Marks the socket for closing after
   write buffer becomes empty"). `DelayedCloseEnds` is the part that holds, unless the
   racing test misses that the queue was empty.

A comment in `WorldSession::Update` (`WorldSession.cpp:418`) says early packets
are added "to the bottom of the queue"; `LockedQueue::readd` puts them at
the front, which is what keeps them in order (`LoggedInInOrder`). More of them than one update
processes would hold back the login behind them: `LoginReached` says how many
may be in front.

One weakness not contradicted by any document is visible in PlayerbotHolder without a run of its own: the delete
hook erases a bot from the random manager and from the manager of the bot's
*current* master. A random bot that a player added and that then left the group
has another master or none, so the player's manager keeps its entry until its
next update. `EntriesOwned` (an entry is never without its session) and
`RandomEntriesAlive` (the random manager is not affected) hold.

Another is in InstanceLocks: after a boss kill the saves of everybody in the raid are in
memory only until the database worker has executed the transaction. A crash, or an
orderly stop that drops the queue, takes them, and the boss is alive again.
`SavedStaysSaved` allows this for exactly the saves that are posted and not executed;
`SavedBossesAreDead` says that the instance and its locks lose it together.

## 7. Proofs

The proofs are in modules of their own and use the specification as TLC checks
it. They hold for every value of the constants under the assumptions named in
the modules.

### MapUpdater_proofs

Assumptions: `Workers` is finite (`WorkersAssumption`), `None` is not a map
(`NoneAssumption`). `Maps` may be infinite.

* `CountInv` is the inductive invariant behind `TypeCorrect`, `BarrierHolds` and
  `NoRequestIsLost`. None of these is inductive alone: that the barrier holds
  after `wait()` follows from `pending_requests` being zero, and this says
  something only because `pending_requests` is exactly the length of the queue
  plus the number of workers that hold a request plus the one being pushed
  (`Accounting`). Preserving that count needs `Control` (who holds the lock,
  when the token and the shutdown flag are set) and `Requests` (what a worker's
  position says of its request); the subtraction in `update_finished` stays in
  the naturals for the same reason.
* `MapInv` gives `OneThreadPerMapHolds` and `NoDeadMapIsUpdated`: a map in flight
  exists and is no longer on the world thread's list, so what the loop still
  touches is disjoint from what the workers have.
* `TickInv` gives `TickIsComplete`: a scheduled map is updated, queued, held by a
  worker or being pushed; when the barrier opens the last three are empty.
* `ImplementsTick` is the refinement of MapTick. `WorldSimulates` and `Simulates` say
  which step of the tick each step is; counting, queueing and waking are none. That
  beginning an update takes its map from what is given, and from nowhere else, is
  `OneThreadPerMap`; that the loops begin with nobody inside is the accounting again,
  with `LoopDone` (the world thread waits when it has been through its list).

Each preservation lemma has one case per action; world steps that leave workers
and queue alone share a lemma.

### InstanceLocks_proofs

The theorems about `Spec` are those of InstanceIds, the ones about `LSpec` those of
InstanceLocks. Assumptions: `BoundsAssumption` of InstanceIds (the bounds are naturals)
and `LockBoundsAssumption` (`Players` is finite, leaders are players, there may be one
lock object of a name at least). Raids, encounters and ids are arbitrary.

* `TypeCorrect`, `NextIsLowestFreeHolds`, `IdsInBitsetHolds`: `Inv` adds that `used` lies
  inside the bitset, and that while locks are being registered everything registered
  lies below everything still stored. This is where the `ORDER BY` of the query enters:
  `RegisterInstanceId` advances the hint only when the id equals it, which keeps
  it at the lowest free id only for ids in ascending order. `GrowBitset` and
  `AdvanceBitset` are the two branches of `GenerateInstanceId`, `FreeStep` is
  `FreeInstanceId`.
* `LockInv` is the invariant of the locks. `LockTable` is about locks and their rows: ids
  of locks are taken and belong to one raid (`Registered`), locks share the data found
  under their id (`Sharing`), there is one of a kind (`Single`), the rows are exactly the
  permanent locks (`RowsMatch`), what a lock has done its instance has done (`Masks`), the
  locks of live maps exist (`MapLocks`). `DataTable` says that shared data with an
  encounter done is in its table, `NoOrphans` that data nobody holds is gone, `Pointers`
  that live maps and their locks belong together. `OneStatePerInstanceHolds` and
  `SavedBossesAreDeadHolds` follow; neither is inductive, since a restart builds all
  of memory from what the two tables are at that moment. `Pending` therefore says of
  every posted state that a server can start from it: `Loadable` is what `RowsMatch` and
  `DataTable` leave of the tables alone, and the ids in it stay taken (`Passable`). A
  handler adds the present tables and the ones without deleted instances (`PassTables`);
  the worker takes the oldest away (`ExecuteInv`); what `Load` makes of any of them
  satisfies `LockInv` again.
* `UpdateInstanceLock` is a fold over the players in the map. `PartlyUpdated` and
  `EveryoneUpdated` go through it one player at a time: after some of them the table
  is well formed, the locks of those are promoted or updated and the others are as they
  were (`Settled`). The induction is over the finite set of players (`SubsetInduction`).
* `SavedStaysSavedHolds` and `InUseUntilResetHolds` are about steps. `StepKeeps` says what a
  step can do to a lock that has not expired: it stays, with its kind if it is
  permanent; or a game master resets one that is not in use; or the server went down.
  `LoadedLock` finds the lock again after that, if the row of the save is in `Disk`, the
  tables as they are when the server starts; if it is not, the save is posted
  and not executed, which is the one exception the property makes.

The proof of the step of `ConfirmPendingBind` showed an error of the model, now
corrected: a restart clears all pending binds, and the handlers also said what
becomes of them.

### Trade_proofs

Assumption: `TradeAssumption` (players and items are finite sets, `None` is neither, the
bounds are naturals, initial belongings are of their types and disjoint).

* `PointersPaired`: `Linked` (every TradeData's trader is another player in the world
  whose TradeData names the owner back) is inductive by itself; `SetItem`,
  `SetSpell` and `SetMoney` keep the traders, `Cancelled` removes both sides.
* `AcceptanceCurrent` needs `Current` beside it: every offer sent under a
  TradeData's present index is the offer it has, and what an acceptance was
  about is the partner's present offer. The first part makes an accept packet
  that passes the index test current when it is counted; the second is kept
  because `Changed` withdraws both acceptances. The lemmas say of each
  TradeData operator what it keeps and what it resets; one case per action
  follows.
* `NothingIsMadeOrLost`: `Balanced` says of every player that memory and the database
  agree on his worth (gold, and gold spent), and of every item that they agree on whose
  it is. Conservation alone is not inductive, since a crash replaces memory by
  the database, and `SaveToDB` writes one player only. `ItemsMoved` is what the loop over
  the slots does: by induction on the slots, each item changes hands once or stays,
  and the way back of an item that does not fit restores its place. `SumMoved` is that
  a payment leaves the sum over all players alone.
* `ExchangeIsOfWhatIsLeft`: `WhoExchanges` says that belongings pass between two traders in
  `HandleAcceptTradeOpcode` only; with `Current` both acceptances are about the present
  offers. `ItemsMoved` gives what passes. `Offered` says of every window that its items are
  the owner's and such as the other may have: `SetTradeItem` lets nothing else in, and
  an item leaves its owner afterwards only if it is in `Loose`. So nothing else can be
  missing, and where `Loose` is empty the exchange is exactly what was shown.

### WorldSocket_proofs

Assumption: `MaxKey` is a natural number. `Sockets` is arbitrary.

* `SessionsOwned` and `NoUseAfterFree` rest on one inductive invariant. `Handshake`
  says which queries, reads and sessions a phase of the handshake allows, which is
  what keeps a late answer from making a second session. `Pointers` says whom a
  socket may point to, and that a session knows an instance socket only while it is
  in `m_sessions`; `Fresh` that an instance socket not linked yet is nobody's. `Shut`
  gives every socket between the exchange of `_closed` and its `OnClose` a thread that
  will run it: its own, the world thread, or one that is in `KickPlayer` (`Kicked`).
  `Closing` is what the world thread's loop over the sockets of a session has achieved
  so far. `Freed` is the delicate part: a session may be freed before its realm socket
  has forgotten it, but then that socket is shut, and none of its handlers is
  running unless it is one of `Kicked`. `NoUseAfterFree` makes that one exception, and
  `LockGuardsSession` shows that it is needed (finding 5).
* `HandedOverOnce` is about all later steps of a connection: `Encrypted` is never left, nothing is
  handed over from there, and a session moves along `SessionMoves` only. It needs
  `Handshake`: three packets and three callbacks change the phase or the session, each
  with a guard of its own, and a query or an acknowledgement that is still outstanding
  when the connection is authenticated must find nothing to do.

### PlayerbotHolder_proofs

Assumption: `ConstantsAssumption` (random bots are characters, the random manager is
no real player). Characters, owners and sessions are arbitrary.

* `Books` is the ledger: an entry has live sessions of the character it is filed
  under (`Filed`), every session has an entry (`Held`), none has two (`Apart`), the
  reservations are those of the logins under way. `BooksBalance` and
  `LoginsAreExclusive` follow. `Absent` is needed because a holder disappears with its
  owner: nothing may be left in it, and no update may be inside it.
* `RandomManagerSafe` and `RandomBotsForget` need `Mindless` (a character without a
  player has no AI, hence no master and no commands), since a bot that logs in again
  must not find pointers of its former life.
* The lemmas say what `DeletePlayers`, `Drop` and `LogoutAllBots` do, entry by entry;
  one lemma per action uses them.

### SessionUpdate_proofs

Assumption: the limit and the number of packets are naturals.

* `NoPacketLostOrRepeated`: `Places` says that each packet received is in exactly one
  place. It survives `Readd`, which moves what was put aside, only because the
  two sequences have no number in common.
* `HandledInOrder` needs three more parts: what is put aside was received before
  what is still queued, and both are in order (`Ordered`); packets are put aside only
  while there is no player, and the same update does not bring one (`Aside`); a packet
  for a player is handled only when nothing older waits (`Behind`). `readd` at the
  *front* of the queue is what keeps `Ordered`.

### WorldSessions_proofs

Assumption: `ConstantsAssumption` (types of the bounds, at least one limit, an expiry
of a tick or more). Accounts, the limits and the tolerance are arbitrary.

* `QueueIsConsistent` and `SessionsOwnedOnce`: the invariant adds that sessions in the
  queue are never admitted and admitted ones are listed (`Admitted`), and where the
  world thread is (`Order`).
* `LimitIsKept` and `PlacesAreFilled` compare numbers of sessions, so the invariant also
  says that `m_sessions` is finite (`Finite`), although the set of accounts may not
  be. The lemmas about counting (`Outside`, `RemovedCount`, `InsertNumbers`,
  `DropNumbers`) give the active sessions after `AddSession_` and after the two
  removals of `UpdateSessions` in terms of those before: a reconnect or a
  drop frees at most one place and gives at most one away.
* `ServedInOrder` needs only that the queue has no duplicates: `RemoveQueuedPlayer`
  admits the first one that is left.

### SocketWriter_proofs

Assumption: `NodesDiffer` (the dummy and `nullptr` are not packets) and the bounds are
naturals. Threads and packets are arbitrary.

* The inductive invariant says that there is a list of different nodes from `_tail` to
  `_head` (`Chain`) in which each is linked to the next, or a producer is between
  its exchange and its store and will link exactly these two; without the dummy the
  list is the abstract queue. `Enqueues` and `Dequeues` say where the calls are with
  respect to that list: a node that is not exchanged in yet is not in it, and what the
  consumer has loaded is still the link of the tail, or was nothing. The list itself
  is not a variable: the proof of every step names the list after it (the same, one
  node more, or its tail).
* `BufferQueueImplementsFifo` is the refinement: the exchange of an element is
  `Fifo`'s `Enqueue`, a successful return of `Dequeue` is its `DequeueElement`, and the
  stores, the skipping of the dummy and its way back into the queue are stuttering. A
  `Dequeue` that returns nothing needs its excuse: `Excuses` says that a call that
  began with an element in the queue, and during which no `Enqueue` was under way,
  sees every link it needs.
* `NoPacketLeaks` is kept by the same invariant (`Accounted`), since a packet
  is freed only after the list has lost it.
* `WireIsInOrder` is not inductive: a buffer written in parts stays in order only if all
  pieces behind the wire are in place. `Flow` says that, while the connection lasts, the
  wire, the buffers of `_writeQueue`, the buffer Update fills, the packet in the thread's
  hands and the packets of `_bufferQueue` lie one behind the other in what was sent. The
  positions are a function that is asserted to exist (`Offsets`), so no induction over
  the sequences is needed: each step extends, shortens or shifts it.

### Induction

The theorems of the library that do induction take an operator, which none of the
provers can instantiate. Trade_proofs and InstanceLocks_proofs therefore state their two
rules for sets of values that are "good" (`UpTo`, `SubsetInduction`) and derive them from
the well-foundedness of the numbers and of the subsets of a finite set, which the
library proves (`WFMin`). A fold or a recursive function is then described by a
function on the subsets of its argument that takes off one chosen element at a time
(`IsPartial`), whose existence is proved in the same way.

## 8. Model-checked only

* The liveness properties `TickEnds`, `ShutdownEnds`, `SessionsMoveOn`, `HandshakeEnds`,
  `EverythingSent`, `DelayedCloseEnds`, `LeftoverProcessed`, `LoginReached` and
  `StaleReclaimed`: the proof system has no rules for fairness.
* The violations of section 6.

Some properties are stated with quantifiers where a fold or a count would be as natural
(`PacketsAccounted` and `LoggedInInOrder` of SessionUpdate, `LimitRespected` of
WorldSessions), and `sent` of SocketWriter is the stream of bytes rather than the list
of packets: TLC and the provers then check one formula.

## 9. Not modelled

* Spells, entities, AI, scripts, collision, navigation: game rules and geometry
  over large numeric state. Data stores and tools: file formats and generated tables.
* The Battle.net server is a process of its own; the world server sees only the
  account row it leaves in the login database.
* Encryption, compression and packet layout: they decide whether a packet is
  accepted, which the models leave free.
* Data races on a single word or container (`_instanceConnectKey` between the
  network and the world thread, `i_maps.erase` against `FindMap`): listed as hazards
  with the extension that would cover them.
* World's timers, resets, broadcasts and configuration.
* Groups, the dungeon finder, battleground queues, auctions, mail and guild banks:
  sequential on the world thread and large; planned after the proofs (section 2).
* `TradeCancel` called from a map thread (a taxi flight begins while a trade is open) beside
  the trade handlers; several asynchronous database workers, which would
  apply transactions in another order.
* Instance locks that are not bound to an instance id.
* The build with IOCP, in which `QueuePacket` starts the write itself.

## 10. Running

In this directory, `tlc -config MapUpdater.cfg MapUpdater` runs one
configuration (`PROJECT.json` lists the module of each), and
`tlapm MapUpdater_proofs.tla` checks the proofs of a module. The runs take from
seconds to about three minutes.
