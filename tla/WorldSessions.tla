----------------------------- MODULE WorldSessions -----------------------------
(***************************************************************************)
(* The session list of World: sessions published by the network threads     *)
(* (AddSession), inserted by the world thread (AddSession_), the login      *)
(* queue in front of the player limit (AddQueuedPlayer, RemoveQueuedPlayer, *)
(* HasRecentlyDisconnected), the per-tick pass over the sessions            *)
(* (UpdateSessions, WorldSession::Update) and shutdown (KickAll, ~World).   *)
(***************************************************************************)
EXTENDS Integers, FiniteSets, SequencesExt

CONSTANTS
    Accounts,       \* game accounts
    Privileged,     \* accounts holding RBAC_PERM_SKIP_QUEUE
    Incarnations,   \* session objects an account may have at one time
    Limits,         \* player limits an administrator may set, 0 is none
    Expiry,         \* expireTime, in world ticks
    Tolerance,      \* CONFIG_INTERVAL_DISCONNECT_TOLERANCE, in world ticks
    MaxPending,     \* bound: sessions waiting in addSessQueue
    MaxTime         \* bound: game time

ASSUME ConstantsAssumption ==
    /\ Privileged \subseteq Accounts
    /\ Limits \subseteq Nat /\ Limits # {}
    /\ Expiry \in Nat \ {0}
    /\ Tolerance \in Nat /\ MaxPending \in Nat /\ MaxTime \in Nat

VARIABLES
    live,           \* session objects constructed and not deleted
    adding,         \* addSessQueue
    listed,         \* the values of m_sessions
    queue,          \* m_QueuedPlayer
    inQueue,        \* sessions whose m_inQueue is set
    admitted,       \* sessions whose InitializeSession has been called
    open,           \* sessions whose realm socket is open
    player,         \* _player and m_playerLoading of a session
    expire,         \* expireTime of a session
    forced,         \* sessions whose forceExit is set
    limit,          \* m_playerLimit
    disconnects,    \* m_disconnects, Never when the account has no entry
    now,            \* GameTime::GetGameTime
    pc,             \* where the world thread is in UpdateSessions
    todo,           \* sessions the pass of UpdateSessions has not visited
    stopping        \* the main loop has ended

objects == <<live, open, player, expire, forced>>
world   == <<adding, listed, queue, inQueue, admitted>>
control == <<limit, disconnects, now, pc, todo, stopping>>
vars    == <<objects, world, control>>

Sessions == Accounts \X Incarnations
Account(s) == s[1]
Never == -1

PlayerStates == {"none", "loading", "world"}

Init ==
    /\ live = {} /\ adding = <<>> /\ listed = {} /\ queue = <<>>
    /\ inQueue = {} /\ admitted = {} /\ open = {} /\ forced = {}
    /\ player = [s \in Sessions |-> "none"]
    /\ expire = [s \in Sessions |-> Expiry]
    /\ limit \in Limits
    /\ disconnects = [a \in Accounts |-> Never]
    /\ now = 0
    /\ pc = "idle"
    /\ todo = {}
    /\ stopping = FALSE

-----------------------------------------------------------------------------
\* WorldSocket hands an authenticated session to World (AddSession) from a
\* network thread; its socket is open.
AddSession(s) ==
    /\ pc \in {"idle", "add", "update"}
    /\ s \notin live
    /\ Len(adding) < MaxPending
    /\ live' = live \cup {s}
    /\ open' = open \cup {s}
    /\ adding' = Append(adding, s)
    /\ UNCHANGED <<player, expire, forced, listed, queue, inQueue, admitted, control>>

\* A network thread closes the realm socket: the peer left or sent garbage.
Disconnect(s) ==
    /\ s \in open
    /\ open' = open \ {s}
    /\ UNCHANGED <<live, player, expire, forced, world, control>>

-----------------------------------------------------------------------------
\* Mutant: the session that leaves is counted although it was not queued.
MutWithout(found, active) == active

\* Sessions outside the queue once the one that leaves is discounted.
Without(found, active) == IF ~found /\ active > 0 THEN active - 1 ELSE active

\* Mutant: off by one.
MutHasRoom(sessions) == limit = 0 \/ sessions <= limit

HasRoom(sessions) == limit = 0 \/ sessions < limit

\* The first in queue is accepted.
Accept(rest) == {Head(rest)}

\* Mutant: the last one to come is accepted.
MutRemoveQueuedPlayer(q, size, s) ==
    LET rest == RemoveFirst(q, s)
        pop  == HasRoom(Without(Contains(q, s), size - Len(q))) /\ rest # <<>>
    IN [found |-> Contains(q, s),
        queue |-> IF pop THEN Front(rest) ELSE rest,
        admitted |-> IF pop THEN {Last(rest)} ELSE {}]

\* World::RemoveQueuedPlayer with size sessions in m_sessions: what it returns,
\* the queue it leaves and the session it admits, if any.
RemoveQueuedPlayer(q, size, s) ==
    LET rest == RemoveFirst(q, s)
        pop  == HasRoom(Without(Contains(q, s), size - Len(q))) /\ rest # <<>>
    IN [found |-> Contains(q, s),
        queue |-> IF pop THEN Tail(rest) ELSE rest,
        admitted |-> IF pop THEN Accept(rest) ELSE {}]

\* delete: the destructor closes the socket; the fields of a deleted object
\* are put back to those of a new one.
Delete(gone) ==
    /\ live' = live \ gone
    /\ player' = [s \in Sessions |-> IF s \in gone THEN "none" ELSE player[s]]
    /\ expire' = [s \in Sessions |-> IF s \in gone THEN Expiry ELSE expire[s]]
    /\ forced' = forced \ gone
    /\ open' = open \ gone

\* World::HasRecentlyDisconnected: difftime(i->second, now) < tolerance.
HasRecentlyDisconnected(a) ==
    Tolerance > 0 /\ disconnects[a] # Never /\ disconnects[a] - now < Tolerance

\* The session of the same account already in m_sessions, if any.
Old(s) == {o \in listed : Account(o) = Account(s)}

\* RemoveSession fails while the old session loads a player: the new one goes.
RejectSession(s) ==
    /\ \E o \in Old(s) : player[o] = "loading"
    /\ Delete({s})
    /\ UNCHANGED <<listed, queue, inQueue, admitted>>

\* Mutant: the session being replaced stays in the login queue.
MutLeaveQueue(s) == [found |-> FALSE, queue |-> queue, admitted |-> {}]

\* The old session is taken out of the queue before it is deleted.
LeaveQueue(s) ==
    IF Old(s) = {} THEN [found |-> FALSE, queue |-> queue, admitted |-> {}]
    ELSE RemoveQueuedPlayer(queue, Cardinality(listed), CHOOSE o \in Old(s) : TRUE)

\* Mutant: the old session is dropped from m_sessions but not deleted.
MutReplaced(s) == {}

\* Sessions deleted when s takes its place in m_sessions.
Replaced(s) == Old(s)

\* The rest of AddSession_: the old session is replaced, then s is queued when
\* the server is full, and initialized otherwise.
InsertSession(s) ==
    LET left      == LeaveQueue(s)
        sessions  == (listed \ Old(s)) \cup {s}
        count     == IF left.found THEN Cardinality(sessions) ELSE Cardinality(sessions) - 1
        mustQueue == /\ limit > 0 /\ count >= limit
                     /\ Account(s) \notin Privileged
                     /\ ~HasRecentlyDisconnected(Account(s))
    IN /\ \A o \in Old(s) : player[o] # "loading"
       /\ Delete(Replaced(s))
       /\ listed' = sessions
       /\ queue' = IF mustQueue THEN Append(left.queue, s) ELSE left.queue
       /\ inQueue' = (inQueue \ Old(s)) \cup (IF mustQueue THEN {s} ELSE {})
       /\ admitted' = ((admitted \cup left.admitted) \ Old(s))
                          \cup (IF mustQueue THEN {} ELSE {s})

\* One turn of the addSessQueue loop of UpdateSessions: World::AddSession_.
AddSession_ ==
    /\ pc = "add"
    /\ adding # <<>>
    /\ adding' = Tail(adding)
    /\ RejectSession(Head(adding)) \/ InsertSession(Head(adding))
    /\ UNCHANGED control

-----------------------------------------------------------------------------
\* World::UpdateSessions begins; the network link queue is not modelled here.
BeginUpdateSessions ==
    /\ pc = "idle"
    /\ pc' = "add"
    /\ UNCHANGED <<objects, world, limit, disconnects, now, todo, stopping>>

\* addSessQueue is empty: the pass over m_sessions begins.
BeginPass ==
    /\ pc = "add"
    /\ adding = <<>>
    /\ pc' = "update"
    /\ todo' = listed
    /\ UNCHANGED <<objects, world, limit, disconnects, now, stopping>>

\* What packets, query callbacks and the logout timer may do to the player of a
\* session in one WorldSession::Update. Login is refused while m_inQueue, and a
\* login that completes without its sockets is dropped.
PlayerStep(s, connected, p) ==
    \/ p = player[s]
    \/ player[s] = "none" /\ p = "loading" /\ connected /\ s \notin inQueue
    \/ player[s] = "loading" /\ p = "world" /\ connected
    \/ player[s] = "loading" /\ p = "none"
    \/ player[s] = "world" /\ p = "none"

\* Mutant: expireTime is not counted down.
MutCountdown(s) == expire[s]

\* expireTime -= min(diff, expireTime), with a tick as the unit.
Countdown(s) == expire[s] - 1

\* IsConnectionIdle: nothing was received for too long and m_inQueue is false.
MayIdle(s) == s \in open /\ s \notin inQueue

\* A session without its sockets goes when its minute is over, when it was
\* kicked, or when it has no player.
Expired(s, p) == Countdown(s) < 1 \/ s \in forced \/ p # "world"

\* WorldSession::Update returned true.
KeepSession(s, connected, lost, p, ready) ==
    /\ (connected /\ ~lost) \/ ~Expired(s, p)
    /\ player' = [player EXCEPT ![s] = p]
    /\ expire' = [expire EXCEPT ![s] = IF connected /\ ~lost THEN @ ELSE Countdown(s)]
    /\ open' = IF connected THEN open ELSE open \ {s}
    /\ inQueue' = IF ready THEN inQueue \ {s} ELSE inQueue
    /\ UNCHANGED <<live, forced, listed, queue, admitted, disconnects>>

\* WorldSession::Update returned false: UpdateSessions takes the session out of
\* the queue (twice, as the code does), notes the disconnect and deletes it.
DropSession(s, connected, lost, p) ==
    LET first  == RemoveQueuedPlayer(queue, Cardinality(listed), s)
        second == RemoveQueuedPlayer(first.queue, Cardinality(listed), s)
    IN /\ ~(connected /\ ~lost) /\ Expired(s, p)
       /\ queue' = second.queue
       /\ admitted' = (admitted \cup first.admitted \cup second.admitted) \ {s}
       /\ inQueue' = inQueue \ {s}
       /\ disconnects' = IF ~first.found /\ Tolerance > 0
                         THEN [disconnects EXCEPT ![Account(s)] = now] ELSE disconnects
       /\ listed' = listed \ {s}
       /\ Delete({s})

\* One turn of the pass: the socket may be closed for idling, packets and query
\* callbacks run (ready: InitializeSessionCallback is among them), and the
\* instance socket of a player may be found lost.
UpdateSession(s) ==
    /\ pc = "update"
    /\ s \in todo
    /\ todo' = todo \ {s}
    /\ \E idle, lost, ready \in BOOLEAN, p \in PlayerStates :
        LET connected == s \in open /\ ~idle IN
        /\ idle => MayIdle(s)
        /\ ready => s \in admitted
        /\ PlayerStep(s, connected, p)
        /\ lost => p # "none"
        /\ KeepSession(s, connected, lost, p, ready) \/ DropSession(s, connected, lost, p)
    /\ UNCHANGED <<adding, limit, now, pc, stopping>>

\* The pass ends. The update that follows KickAll is the last one; otherwise
\* game time may have advanced when the next one comes.
EndPass ==
    /\ pc = "update"
    /\ todo = {}
    /\ pc' = IF stopping THEN "stopped" ELSE "idle"
    /\ now' \in {now, IF now < MaxTime THEN now + 1 ELSE now}
    /\ UNCHANGED <<objects, world, limit, disconnects, todo, stopping>>

-----------------------------------------------------------------------------
\* Commands run while packets are handled or between two updates.
CommandTime == pc \in {"idle", "update"} /\ ~stopping

\* World::SetPlayerAmountLimit, the plimit command.
SetPlayerAmountLimit(l) ==
    /\ CommandTime
    /\ limit' = l
    /\ UNCHANGED <<objects, world, disconnects, now, pc, todo, stopping>>

\* WorldSession::KickPlayer of every session of S.
KickPlayers(S) ==
    /\ open' = open \ S
    /\ forced' = forced \cup S
    /\ UNCHANGED <<live, player, expire>>

\* A command, a ban or a handler kicks one session.
KickPlayer(s) ==
    /\ CommandTime
    /\ s \in listed \ forced
    /\ KickPlayers({s})
    /\ UNCHANGED <<world, control>>

\* World::SetPlayerSecurityLimit raised the level: KickAllLess.
KickAllLess ==
    /\ CommandTime
    /\ KickPlayers({s \in listed : Account(s) \notin Privileged})
    /\ UNCHANGED <<world, control>>

\* World::KickAll, once the main loop has ended.
KickAll ==
    /\ pc = "idle"
    /\ ~stopping
    /\ stopping' = TRUE
    /\ queue' = <<>>
    /\ KickPlayers(listed)
    /\ UNCHANGED <<adding, listed, inQueue, admitted, limit, disconnects, now, pc, todo>>

\* World::~World, after StopNetwork.
DestroyWorld ==
    /\ pc = "stopped"
    /\ pc' = "gone"
    /\ listed' = {}
    /\ inQueue' = inQueue \ listed
    /\ admitted' = admitted \ listed
    /\ Delete(listed)
    /\ UNCHANGED <<adding, queue, limit, disconnects, now, todo, stopping>>

\* The process has ended.
Terminated == pc = "gone" /\ UNCHANGED vars

WorldThread ==
    \/ AddSession_ \/ BeginUpdateSessions \/ BeginPass \/ EndPass
    \/ \E s \in Sessions : UpdateSession(s)
    \/ DestroyWorld

Next ==
    \/ \E s \in Sessions : AddSession(s) \/ Disconnect(s) \/ KickPlayer(s)
    \/ WorldThread
    \/ \E l \in Limits : SetPlayerAmountLimit(l)
    \/ KickAllLess
    \/ KickAll
    \/ Terminated

\* The main loop calls UpdateSessions again and again and never blocks in it. A
\* login takes round trips and database queries, so the loop over addSessQueue
\* does not find a new session each time it has emptied the queue.
Spec == Init /\ [][Next]_vars /\ WF_vars(WorldThread) /\ SF_vars(BeginPass)

-----------------------------------------------------------------------------
ListTypes ==
    /\ adding \in Seq(Sessions) /\ Len(adding) <= MaxPending
    /\ queue \in Seq(Sessions)
    /\ listed \subseteq Sessions
    /\ inQueue \subseteq Sessions
    /\ admitted \subseteq Sessions
    /\ todo \subseteq listed

ObjectTypes ==
    /\ live \subseteq Sessions
    /\ open \subseteq live
    /\ forced \subseteq live
    /\ player \in [Sessions -> PlayerStates]
    /\ expire \in [Sessions -> 1..Expiry]

ControlTypes ==
    /\ limit \in Limits
    /\ disconnects \in [Accounts -> {Never} \cup 0..MaxTime]
    /\ now \in 0..MaxTime
    /\ pc \in {"idle", "add", "update", "stopped", "gone"}
    /\ stopping \in BOOLEAN

\* The shape of the session list, the login queue and the session objects.
TypeOK == ListTypes /\ ObjectTypes /\ ControlTypes

\* Until ~World, m_QueuedPlayer holds each session once and only sessions of
\* m_sessions that still wait, so that no pointer in it dangles and the unsigned
\* m_sessions.size() - m_QueuedPlayer.size() never wraps.
QueueSound ==
    pc # "gone" =>
        /\ IsInjective(queue)
        /\ ToSet(queue) \subseteq (listed \cap inQueue) \ admitted

\* A session object has one owner, addSessQueue or m_sessions, until it is
\* deleted, and m_sessions has one session per account: replacing, rejecting
\* and dropping sessions neither leaks one nor deletes one twice.
OwnedOnce ==
    /\ IsInjective(adding)
    /\ live = listed \cup ToSet(adding)
    /\ listed \cap ToSet(adding) = {}
    /\ \A s, t \in listed : Account(s) = Account(t) => s = t

\* Nobody is left in limbo: while the server runs, a session of m_sessions is
\* either initialized or waits in the queue.
AdmittedOrQueued ==
    ~stopping => listed = admitted \cup ToSet(queue)

\* The two sides of the login queue, together: m_QueuedPlayer points to waiting
\* sessions of m_sessions only, and whoever is not initialized is in it.
QueueConsistent == QueueSound /\ AdmittedOrQueued

Active == Cardinality(listed) - Len(queue)

Ordinary == {s \in listed \ ToSet(queue) : Account(s) \notin Privileged}

\* Sessions that AddSession_ lets in whatever the limit is.
Exempt(s) == Account(s) \in Privileged \/ HasRecentlyDisconnected(Account(s))

\* PlayerLimit is the "Maximum number of players in the world. Excluding Mods,
\* GMs and Admins": a step that lets an ordinary session in leaves no more
\* ordinary sessions outside the queue than the limit, not counting one that comes
\* in on the disconnect tolerance. Neither a reconnect that replaces an active or a
\* queued session nor the double RemoveQueuedPlayer of UpdateSessions frees more
\* than one place.
LimitRespected ==
    [][LET entering == admitted' \ admitted IN
       limit > 0 /\ (\E s \in entering : ~Exempt(s))
       => Cardinality(Ordinary' \ {s \in entering : Exempt(s)}) <= limit]_vars

\* While the server runs, only an administrator opens a place that nobody in
\* the queue is given: any other step that ends below the limit with sessions queued began that way.
NoIdleSlot ==
    [][(~stopping' /\ queue' # <<>> /\ Active' < limit' /\ limit' = limit)
       => (queue # <<>> /\ Active < limit)]_vars

\* First come, first served: a session let in from the queue leaves nobody
\* waiting who was in front of it.
QueueFair ==
    [][\A i, j \in DOMAIN queue :
        i < j /\ queue[j] \in admitted' => ~Contains(queue', queue[i])]_vars

\* A session that has lost its socket is dropped from m_sessions, so its place
\* goes to somebody else.
LostSessionsGo ==
    \A s \in Sessions : (s \in listed /\ s \notin open) ~> (s \notin listed)

\* A session handed over by a network thread is taken out of addSessQueue
\* unless the server stops first.
PublishedSessionsTaken ==
    \A s \in Sessions : Contains(adding, s) ~> (~Contains(adding, s) \/ stopping)

\* No session is stuck: UpdateSessions takes over what the network threads have
\* published and lets go of what has lost its connection.
SessionsMoveOn == LostSessionsGo /\ PublishedSessionsTaken

\* worldserver.conf: DisconnectToleranceInterval is a "Tolerance (in seconds) for
\* disconnected players before reentering the queue": a session that passes a
\* full queue for it was not gone for longer than the interval.
ToleranceExpires ==
    [][\A s \in admitted' \ admitted :
        (/\ limit > 0 /\ Cardinality(listed') > limit
         /\ Account(s) \notin Privileged
         /\ ~Contains(queue, s)
         /\ disconnects[Account(s)] # Never)
        => now - disconnects[Account(s)] <= Tolerance]_vars
================================================================================
