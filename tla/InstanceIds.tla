------------------------------ MODULE InstanceIds ------------------------------
(***************************************************************************)
(* Instance ids: the free-id bitset of MapManager (InitInstanceIds,         *)
(* RegisterInstanceId, GenerateInstanceId, FreeInstanceId) and its heaviest *)
(* client, the five-man dungeon of an ungrouped player                      *)
(* (MapManager::CreateMap, InstanceMap, MapManager::DestroyMap and          *)
(* Player::m_recentInstances).                                              *)
(***************************************************************************)
EXTENDS Integers, FiniteSets

CONSTANTS
    Players,    \* ungrouped players
    Dungeons,   \* map ids of dungeons without a reset schedule
    MaxStored,  \* bound: highest instance id found in the database at startup
    MaxId       \* bound: ids GenerateInstanceId may reach

ASSUME BoundsAssumption == MaxStored \in Nat /\ MaxId \in Nat

VARIABLES
    size,       \* _freeInstanceIds->size()
    used,       \* indices whose bit is false, 0 included
    next,       \* _nextInstanceId
    stored,     \* instance ids of character_instance_lock still to be loaded
    live,       \* keys <<dungeon, id>> of i_maps
    timed,      \* live maps whose m_unloadTimer is not 0
    inside,     \* key of the map each player is in, <<>> when outside
    recent      \* Player::m_recentInstances, 0 when there is no entry

pool    == <<size, used, next>>
clients == <<live, timed, inside, recent>>
vars    == <<pool, stored, clients>>

Outside == <<>>
Present(key) == {p \in Players : inside[p] = key}

\* MapManager::InitInstanceIds: the bitset covers every id of the two tables and
\* one more; 0 is never handed out.
Init ==
    /\ \E max \in 0..MaxStored :
        /\ size = max + 2
        /\ stored \in SUBSET (1..max)
    /\ used = {0}
    /\ next = 1
    /\ live = {}
    /\ timed = {}
    /\ inside = [p \in Players |-> Outside]
    /\ recent = [p \in Players |-> [d \in Dungeons |-> 0]]

\* Mutant: the query lost its ORDER BY instanceId.
MutNextStored(id) == id \in stored

\* Rows come ORDER BY instanceId.
NextStored(id) == id \in stored /\ \A other \in stored : id <= other

\* MapManager::RegisterInstanceId, once per stored lock while the server starts.
RegisterInstanceId ==
    /\ \E id \in stored :
        /\ NextStored(id)
        /\ used' = used \cup {id}
        /\ next' = (IF next = id THEN next + 1 ELSE next)
        /\ stored' = stored \ {id}
    /\ UNCHANGED <<size, clients>>

\* dynamic_bitset::find_next(next): the free indices above next once next is taken.
FreeAbove == {i \in (next + 1)..(size - 1) : i \notin used}

\* Mutant: the bitset does not grow when it is full.
MutGenerateInstanceId ==
    /\ next <= MaxId
    /\ used' = used \cup {next}
    /\ size' = size
    /\ IF FreeAbove = {}
       THEN next' = size
       ELSE next' \in FreeAbove /\ \A i \in FreeAbove : next' <= i

\* MapManager::GenerateInstanceId; the returned id is next.
GenerateInstanceId ==
    /\ next <= MaxId
    /\ used' = used \cup {next}
    /\ IF FreeAbove = {}
       THEN next' = size /\ size' = size + 1
       ELSE /\ size' = size
            /\ next' \in FreeAbove
            /\ \A i \in FreeAbove : next' <= i

\* MapManager::FreeInstanceId
FreeInstanceId(id) ==
    /\ next' = (IF id < next THEN id ELSE next)
    /\ used' = used \ {id}
    /\ size' = size

\* InstanceMap::AddPlayerToMap: the unload timer stops.
AddPlayerToMap(p, key) ==
    /\ inside' = [inside EXCEPT ![p] = key]
    /\ timed' = timed \ {key}

\* MapManager::CreateMap for a dungeon without reset schedule: the recent
\* instance id if there is one, else a new one; the map is found or created.
EnterDungeon(p, d) ==
    /\ stored = {}
    /\ inside[p] = Outside
    /\ LET known == recent[p][d] # 0
           id    == IF known THEN recent[p][d] ELSE next
           key   == <<d, id>> IN
       /\ IF known THEN UNCHANGED pool ELSE GenerateInstanceId
       /\ live' = live \cup {key}
       /\ recent' = (IF key \in live THEN recent ELSE [recent EXCEPT ![p][d] = id])
       /\ AddPlayerToMap(p, key)
    /\ UNCHANGED stored

\* InstanceMap::RemovePlayerFromMap: the last one to leave starts the timer.
LeaveDungeon(p) ==
    /\ inside[p] # Outside
    /\ inside' = [inside EXCEPT ![p] = Outside]
    /\ timed' = (IF Present(inside[p]) = {p} THEN timed \cup {inside[p]} ELSE timed)
    /\ UNCHANGED <<pool, stored, live, recent>>

\* Player::ResetInstances and InstanceMap::Reset: an empty map is unloaded at
\* the next update and forgotten; one with players is forgotten only when the
\* difficulty changed; an entry without a map stays.
ResetInstances(p, onChangeDifficulty) ==
    /\ LET keyOf(d)  == <<d, recent[p][d]>>
           found     == {d \in Dungeons : keyOf(d) \in live}
           empty     == {d \in found : Present(keyOf(d)) = {}}
           forgotten == IF onChangeDifficulty THEN found ELSE empty IN
       /\ forgotten # {}
       /\ timed' = timed \cup {keyOf(d) : d \in empty}
       /\ recent' = [recent EXCEPT ![p] =
                        [d \in Dungeons |-> IF d \in forgotten THEN 0 ELSE recent[p][d]]]
    /\ UNCHANGED <<pool, stored, live, inside>>

\* Map::CanUnload and the HavePlayers test of DestroyMap.
Unloadable(key) == key \in timed /\ Present(key) = {}

\* MapManager::DestroyMap once the unload timer has run out.
DestroyMap(key) ==
    /\ Unloadable(key)
    /\ live' = live \ {key}
    /\ timed' = timed \ {key}
    /\ FreeInstanceId(key[2])
    /\ UNCHANGED <<stored, inside, recent>>

Next ==
    \/ RegisterInstanceId
    \/ \E p \in Players :
        \/ \E d \in Dungeons : EnterDungeon(p, d)
        \/ LeaveDungeon(p)
        \/ \E onChangeDifficulty \in BOOLEAN : ResetInstances(p, onChangeDifficulty)
    \/ \E key \in live : DestroyMap(key)

Spec == Init /\ [][Next]_vars

------------------------------------------------------------------------------
\* The shape of the bitset and of its clients; players are only in live maps.
TypeOK ==
    /\ size \in Nat
    /\ used \subseteq Nat
    /\ next \in Nat
    /\ stored \subseteq Nat
    /\ live \subseteq Dungeons \X Nat
    /\ timed \subseteq live
    /\ inside \in [Players -> live \cup {Outside}]
    /\ recent \in [Players -> [Dungeons -> Nat]]

\* The lowest free id of a bitset, 0 excepted.
LowestFree(id, bits, taken) ==
    /\ id \in 1..(bits - 1)
    /\ id \notin taken
    /\ 0..(id - 1) \subseteq taken

\* "Find the lowest available id" (MapManager.cpp:466): whatever ids were stored,
\* generated and freed, _nextInstanceId is free, inside the bitset (the ASSERT of
\* GenerateInstanceId), never 0, and no lower id is free.
NextIsLowestFree == LowestFree(next, size, used)

\* FreeInstanceId sets the bit of the map's id without a range check: the ids of
\* live maps, and the remembered ids maps are created from, are in the bitset.
IdsInBitset ==
    /\ \A key \in live : key[2] \in 1..(size - 1)
    /\ \A p \in Players, d \in Dungeons : recent[p][d] \in 0..(size - 1)

\* What CreateMap's comment asks for, "return the right instance for the object,
\* based on its InstanceId": two players who are in no group never meet in a
\* dungeon.
PrivateInstance ==
    \A p, q \in Players : inside[p] # Outside /\ inside[p] = inside[q] => p = q
==============================================================================
