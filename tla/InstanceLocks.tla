----------------------------- MODULE InstanceLocks -----------------------------
(***************************************************************************)
(* Raid locks: InstanceLockMgr and what InstanceMap, MapManager::CreateMap   *)
(* and the player's pending bind do with it. Raids here have a reset         *)
(* schedule and are bound to their instance id: all locks of an instance      *)
(* share one SharedInstanceLockData, which the `instance` table keeps, and    *)
(* character_instance_lock keeps the permanent locks. Ids come from the pool  *)
(* of InstanceIds; Dungeons are the raids. A handler changes memory at once   *)
(* and only posts its statements: the worker of CharacterDatabase executes    *)
(* them later, in order. The server may go down at any time, and what is      *)
(* posted and not executed is lost. Time is counted in reset periods.         *)
(***************************************************************************)
EXTENDS InstanceIds, SequencesExt

CONSTANTS
    Encounters, \* bosses of a raid
    Leaders,    \* players into whose instance others follow
    Extenders,  \* players who extend their locks; bound: before the last reset
    Unbound,    \* players whose locks a game master resets; bound: in the last period
    MaxCopies,  \* bound: objects one player has for one instance at a time
    MaxWeek,    \* bound: resets
    MaxPosted   \* bound: with so many items not executed no handler posts more

ASSUME LockBoundsAssumption ==
    /\ IsFiniteSet(Players) /\ Leaders \subseteq Players
    /\ MaxCopies \in Nat \ {0}
    /\ MaxWeek \in Nat
    /\ MaxPosted \in Nat

VARIABLES
    locks,      \* InstanceLock objects, in either table of InstanceLockMgr
    data,       \* SharedInstanceLockData objects
    byId,       \* _instanceLockDataById: weak pointers
    mapLock,    \* InstanceMap::i_instanceLock of the live map with this id
    expire,     \* InstanceMap::i_instanceExpireEvent
    bind,       \* Player::_pendingBindId
    week,       \* resets that have passed
    rows,       \* table character_instance_lock, once all that is posted is executed
    inst,       \* table instance: the encounters done; likewise
    posted,     \* the states the two tables pass before that; the first is the present one
    failed      \* "assert": an ASSERT failed; "freed": a freed lock was used; else "no"

mgr   == <<locks, data, byId>>
world == <<mapLock, expire, bind, week>>
db    == <<rows, inst, posted>>
lvars == <<vars, mgr, world, db, failed>>

Ids == 1..MaxId
Keys == Players \X Dungeons
LockNames == Keys \X Ids \X (1..MaxCopies)  \* <<key, instance id, copy>>
DataNames == Ids \X (1..MaxCopies)
Nullptr == <<>>
Nothing == [st |-> "none"]

Key(l) == l[1]
IdOf(l) == l[2]
Alloc(l) == locks[l].st \in {"temp", "perm"}

LInit ==
    /\ Init
    /\ locks = [l \in LockNames |-> Nothing]
    /\ data = [s \in DataNames |-> Nothing]
    /\ byId = [i \in Ids |-> Nullptr]
    /\ mapLock = [i \in Ids |-> Nullptr]
    /\ expire = [i \in Ids |-> 0]
    /\ bind = [p \in Players |-> 0]
    /\ week = 0
    /\ rows = [k \in Keys |-> Nothing]
    /\ inst = [i \in Ids |-> Nothing]
    /\ posted = <<>>
    /\ failed = "no"

\* The server is up: locks are loaded, no ASSERT has failed.
Up == stored = {} /\ failed = "no"

-----------------------------------------------------------------------------
(* The database. *)

\* Execute, PExecute and CommitTransaction: the caller goes on, the tables do not
\* change yet. before: the states of the tables before each of the posted items.
Post(before) ==
    /\ Len(posted) < MaxPosted
    /\ posted' = posted \o before

Tables == [rows |-> rows, inst |-> inst]

\* What a server that starts now would read.
Disk == IF posted = <<>> THEN Tables ELSE Head(posted)

\* The one worker thread executes the oldest item.
ExecuteNext ==
    /\ posted # <<>>
    /\ posted' = Tail(posted)
    /\ UNCHANGED <<vars, mgr, world, rows, inst, failed>>

-----------------------------------------------------------------------------
(* InstanceLockMgr. ls is the state of the lock objects. *)

\* GetNextResetTime is the end of this period.
Expired(lock) == lock.expiry < week

Held(ls, k, st) == {l \in {k} \X Ids \X (1..MaxCopies) : ls[l].st = st}

\* FindActiveInstanceLock that ignores temporary and expired locks.
ActivePerm(ls, k) == {l \in Held(ls, k, "perm") : ~Expired(ls[l]) \/ ls[l].ext}

\* FindActiveInstanceLock: a set of one, or empty for nullptr.
FindActive(ls, k) ==
    IF ActivePerm(ls, k) # {} THEN ActivePerm(ls, k) ELSE Held(ls, k, "temp")

The(set) == CHOOSE x \in set : TRUE

\* Names for a new object; none are left at the bound.
FreeNames(ls, k, id) ==
    {l \in {k} \X {id} \X (1..MaxCopies) :
        ls[l] = Nothing /\ \A n \in 1..(l[3] - 1) : ls[<<k, id, n>>] # Nothing}

\* Locks that hold this shared data.
Holders(ls, s) == {l \in LockNames : ls[l].st \in {"temp", "perm"} /\ ls[l].shared = s}

\* The permanent lock of k is replaced: it is freed, and a map that has it keeps a
\* pointer to nothing.
Without(ls, k) ==
    [l \in LockNames |->
        IF l \notin Held(ls, k, "perm") THEN ls[l]
        ELSE IF \E i \in Ids : mapLock[i] = l THEN [ls[l] EXCEPT !.st = "freed"]
        ELSE Nothing]

\* The new lock of UpdateInstanceLockForPlayer or CreateInstanceLockForNewInstance.
Lock(st, s) ==
    [st |-> st, expiry |-> week, ext |-> FALSE, new |-> st = "temp", use |-> FALSE,
     mask |-> {}, shared |-> s]

\* An expired lock that was extended is active for another period.
Renewed(lock) ==
    IF Expired(lock) THEN [lock EXCEPT !.expiry = week, !.ext = FALSE] ELSE lock

\* The lock that UpdateInstanceLockForPlayer updates, once it is in the permanent
\* table: the active one, the temporary one promoted, or a new one. ok: the ASSERTs hold.
Bound(ls, ds, k, id) ==
    LET s == byId[id]
        fits(l) == IdOf(l) = id /\ ls[l].shared = s
        active == ActivePerm(ls, k)
        temp == Held(ls, k, "temp")
        fresh == The(FreeNames(ls, k, id))
    IN  IF active # {}
        THEN [ls |-> ls, l |-> The(active), ok |-> fits(The(active))]
        ELSE IF temp # {}
        THEN [ls |-> [Without(ls, k) EXCEPT ![The(temp)].st = "perm"],
              l |-> The(temp), ok |-> fits(The(temp))]
        ELSE IF s # Nullptr /\ Holders(ls, s) # {} /\ ds[s].id = id
        THEN [ls |-> [Without(ls, k) EXCEPT ![fresh] = Lock("perm", s)], l |-> fresh, ok |-> TRUE]
        ELSE [ls |-> ls, l |-> Nullptr, ok |-> FALSE]

\* Mutant: the row is written before the encounter is added.
MutUpdateInstanceLockForPlayer(st, ds, k, id, mask) ==
    LET b == Bound(st.ls, ds, k, id)
        old == Renewed([b.ls[b.l] EXCEPT !.new = FALSE])
    IN  IF ~st.ok \/ ~b.ok THEN [st EXCEPT !.ok = FALSE]
        ELSE [ls |-> [b.ls EXCEPT ![b.l] = [old EXCEPT !.mask = @ \cup mask]],
              rows |-> [st.rows EXCEPT ![k] = [id |-> id, expiry |-> old.expiry,
                                               ext |-> old.ext, mask |-> old.mask]],
              ok |-> TRUE]

\* UpdateInstanceLockForPlayer: the lock table, the row to be written, the ASSERTs.
UpdateInstanceLockForPlayer(st, ds, k, id, mask) ==
    LET b == Bound(st.ls, ds, k, id)
        lock == Renewed([b.ls[b.l] EXCEPT !.new = FALSE, !.mask = @ \cup mask])
    IN  IF ~st.ok \/ ~b.ok THEN [st EXCEPT !.ok = FALSE]
        ELSE [ls |-> [b.ls EXCEPT ![b.l] = lock],
              rows |-> [st.rows EXCEPT ![k] = [id |-> id, expiry |-> lock.expiry,
                                               ext |-> lock.ext, mask |-> lock.mask]],
              ok |-> TRUE]

\* ~SharedInstanceLockData: the data nobody holds any more, and of it what
\* OnSharedInstanceLockDataDelete takes out of the map and the table.
Dropped(ls, ds) == {s \in DataNames : ds[s] # Nothing /\ Holders(ls, s) = {}}
DroppedIds(ls, ds) == {ds[s].id : s \in Dropped(ls, ds)} \cap {i \in Ids : byId[i] \in Dropped(ls, ds)}

\* The lock objects become ls, the shared data ds less what is dropped.
SetLocks(ls, ds) ==
    /\ locks' = ls
    /\ LET gone == Dropped(ls, ds)
           ids == DroppedIds(ls, ds)
       IN  /\ data' = [s \in DataNames |-> IF s \in gone THEN Nothing ELSE ds[s]]
           /\ byId' = [i \in Ids |-> IF i \in ids THEN Nullptr ELSE byId[i]]

\* The server has started again: InitInstanceIds, then InstanceLockMgr::Load. A lock
\* whose instance row is missing is not loaded, and its rows are deleted.
Load(rs, is, why) ==
    LET saved == {k \in Keys : rs[k] # Nothing}
        kept == {k \in saved : is[rs[k].id] # Nothing}
        max == Max({0} \cup {rs[k].id : k \in saved} \cup {i \in Ids : is[i] # Nothing})
        lockOf(k) == <<k, rs[k].id, 1>>
        needed == {<<rs[k].id, 1>> : k \in kept}
    IN  /\ size' = max + 2 /\ used' = {0} /\ next' = 1
        /\ stored' = {rs[k].id : k \in saved}
        /\ live' = {} /\ timed' = {}
        /\ inside' = [p \in Players |-> Outside]
        /\ locks' = [l \in LockNames |->
                       IF Key(l) \in kept /\ l = lockOf(Key(l))
                       THEN [Lock("perm", <<IdOf(l), 1>>)
                               EXCEPT !.expiry = rs[Key(l)].expiry, !.ext = rs[Key(l)].ext,
                                      !.mask = rs[Key(l)].mask]
                       ELSE Nothing]
        /\ data' = [s \in DataNames |->
                       IF s \in needed THEN [id |-> s[1], mask |-> is[s[1]].mask] ELSE Nothing]
        /\ byId' = [i \in Ids |-> IF <<i, 1>> \in needed THEN <<i, 1>> ELSE Nullptr]
        /\ mapLock' = [i \in Ids |-> Nullptr]
        /\ expire' = [i \in Ids |-> 0]
        /\ bind' = [p \in Players |-> 0]
        /\ rows' = [k \in Keys |-> IF k \in kept THEN rs[k] ELSE Nothing]
        /\ inst' = is
        /\ posted' = (IF kept = saved THEN <<>> ELSE <<[rows |-> rs, inst |-> is]>>)
        /\ failed' = why
        /\ UNCHANGED <<recent, week>>

\* The server goes down: what is not executed is gone, and the next start loads the rest.
GoDown(why) == Load(Disk.rows, Disk.inst, why)

\* A failed ASSERT, or a freed lock was used.
Fail(why) == GoDown(why)

-----------------------------------------------------------------------------
(* MapManager::CreateMap and InstanceMap. *)

\* CannotEnter, CanJoinInstanceLock: not a player saved to another instance.
MayJoin(p, d, id) ==
    \A l \in FindActive(locks, <<p, d>>) : locks[l].new \/ IdOf(l) = id

\* AddPlayerToMap: a player not yet saved to what is done here is asked to be.
AsksToBind(p, d, m) ==
    /\ ~locks[m].new
    /\ \A l \in FindActive(locks, <<p, d>>) :
        (Expired(locks[l]) /\ locks[l].ext) \/ locks[l].mask # locks[m].mask

\* CreateMap when the instance's owner has no active lock: a new instance, with a
\* temporary lock for the owner.
EnterNewRaid(p, owner, d) ==
    /\ Up
    /\ inside[p] = Outside
    /\ FindActive(locks, <<owner, d>>) = {}
    /\ GenerateInstanceId
    /\ LET s == <<next, Min({n \in 1..MaxCopies : data[<<next, n>>] = Nothing})>>
           l == The(FreeNames(locks, <<owner, d>>, next))
       IN  /\ locks' = [locks EXCEPT ![l] = [Lock("temp", s) EXCEPT !.use = TRUE]]
           /\ data' = [data EXCEPT ![s] = [id |-> 0, mask |-> {}]]
           /\ byId' = [byId EXCEPT ![next] = s]
           /\ mapLock' = [mapLock EXCEPT ![next] = l]
    /\ expire' = [expire EXCEPT ![next] = week]
    /\ live' = live \cup {<<d, next>>}
    /\ IF MayJoin(p, d, next)
       THEN AddPlayerToMap(p, <<d, next>>)
       ELSE timed' = timed \cup {<<d, next>>} /\ inside' = inside
    /\ UNCHANGED <<stored, recent, bind, week, db, failed>>

\* CreateMap when he has one: the instance of that lock exists, or is created with it;
\* it may still refuse the player.
EnterRaid(p, owner, d) ==
    /\ Up
    /\ inside[p] = Outside
    /\ \E l \in FindActive(locks, <<owner, d>>) :
        LET key == <<d, IdOf(l)>>
            known == key \in live
            m == IF known THEN mapLock[IdOf(l)] ELSE l
        IN  IF ~Alloc(m) THEN Fail("freed")
            ELSE /\ locks' = (IF known THEN locks ELSE [locks EXCEPT ![l].use = TRUE])
                 /\ mapLock' = [mapLock EXCEPT ![IdOf(l)] = m]
                 /\ expire' = (IF known THEN expire ELSE [expire EXCEPT ![IdOf(l)] = locks[l].expiry])
                 /\ live' = live \cup {key}
                 /\ IF MayJoin(p, d, IdOf(l))
                    THEN /\ AddPlayerToMap(p, key)
                         /\ bind' = (IF AsksToBind(p, d, m) THEN [bind EXCEPT ![p] = IdOf(l)] ELSE bind)
                    ELSE /\ timed' = (IF known THEN timed ELSE timed \cup {key})
                         /\ UNCHANGED <<inside, bind>>
                 /\ UNCHANGED <<pool, stored, recent, data, byId, week, db, failed>>

\* InstanceMap::RemovePlayerFromMap: the last one to leave looks at the lock.
Leave(p, pending) ==
    IF Present(inside[p]) = {p} /\ ~Alloc(mapLock[inside[p][2]]) THEN Fail("freed")
    ELSE /\ LeaveDungeon(p)
         /\ bind' = pending
         /\ UNCHANGED <<mgr, mapLock, expire, week, db, failed>>

LeaveRaid(p) ==
    /\ Up
    /\ inside[p] # Outside
    /\ Leave(p, bind)

\* MapManager::DestroyMap: the id stays taken; the lock is no longer in use.
DestroyRaid(key) ==
    /\ Up
    /\ Unloadable(key)
    /\ LET m == mapLock[key[2]]
       IN  IF ~Alloc(m) THEN Fail("freed")
           ELSE /\ locks' = [locks EXCEPT ![m].use = FALSE]
                /\ mapLock' = [mapLock EXCEPT ![key[2]] = Nullptr]
                /\ expire' = [expire EXCEPT ![key[2]] = 0]
                /\ live' = live \ {key}
                /\ timed' = timed \ {key}
                /\ UNCHANGED <<pool, stored, inside, recent, data, byId, bind, week, db, failed>>

\* Crash, or Close, which drops what is posted, and restart.
Restart == GoDown("no")

Less(table, gone) == [i \in Ids |-> IF i \in gone THEN Nothing ELSE table[i]]

\* A handler ends: memory is changed, a DELETE is posted for each instance nobody holds
\* any more, then the rest as one transaction.
Commit(ls, ds, rs, is, pending) ==
    LET gone == DroppedIds(ls, ds)
        order == SetToSeq(gone)
    IN  /\ SetLocks(ls, ds)
        /\ rows' = rs
        /\ inst' = Less(is, gone)
        /\ Post([n \in 1..(Len(order) + 1) |->
                    [rows |-> rows, inst |-> Less(inst, {order[m] : m \in 1..(n - 1)})]])
        /\ bind' = pending
        /\ UNCHANGED <<vars, mapLock, expire, week, failed>>

\* Mutant: the encounter is recorded in the players' locks only.
MutShared(id, e) == [data EXCEPT ![byId[id]].id = id]

\* UpdateSharedInstanceLock for the instance, its encounters e added.
Shared(id, e) == [data EXCEPT ![byId[id]] = [id |-> id, mask |-> @.mask \cup e]]

\* UpdateInstanceLockForPlayer for every player in the map.
UpdateEveryone(ds, key, mask) ==
    FoldSet(LAMBDA p, st : UpdateInstanceLockForPlayer(st, ds, <<p, key[1]>>, key[2], mask),
            [ls |-> locks, rows |-> rows, ok |-> TRUE], Present(key))

\* InstanceMap::UpdateInstanceLock: an encounter ends, or (e = {}) other data is saved.
\* The shared data is updated, then the lock of every player in the map; without
\* players Map::Update moves no creature and nothing ends.
UpdateInstanceLock(key, e) ==
    /\ Up
    /\ Present(key) # {}
    /\ \A p \in Present(key) : FreeNames(locks, <<p, key[1]>>, key[2]) # {}
    /\ LET id == key[2]
           m == mapLock[id]
           ds == Shared(id, e)
           end == UpdateEveryone(ds, key, e \cup locks[m].mask)
       IN  IF ~Alloc(m) THEN Fail("freed")
           ELSE IF byId[id] = Nullptr \/ Holders(locks, byId[id]) = {} THEN Fail("assert")
           ELSE IF ~end.ok THEN Fail("assert")
           ELSE Commit(end.ls, ds, end.rows, [inst EXCEPT ![id] = [mask |-> ds[byId[id]].mask]], bind)

\* The pending bind is accepted or its time is up: ConfirmPendingBind,
\* CreateInstanceLockForPlayer.
ConfirmPendingBind(p) ==
    /\ Up
    /\ bind[p] # 0
    /\ IF inside[p] = Outside \/ inside[p][2] # bind[p]
       THEN /\ bind' = [bind EXCEPT ![p] = 0]
            /\ UNCHANGED <<vars, mgr, mapLock, expire, week, db, failed>>
       ELSE LET key == inside[p]
                m == mapLock[key[2]]
                end == UpdateInstanceLockForPlayer([ls |-> locks, rows |-> rows, ok |-> TRUE],
                            data, <<p, key[1]>>, key[2], locks[m].mask)
            IN  /\ FreeNames(locks, <<p, key[1]>>, key[2]) # {}
                /\ IF ~Alloc(m) THEN Fail("freed")
                   ELSE IF ~end.ok THEN Fail("assert")
                   ELSE Commit(end.ls, data, end.rows, inst, [bind EXCEPT ![p] = 0])

\* It is declined, or the player logs out: he is put at the graveyard.
DeclinePendingBind(p) ==
    /\ Up
    /\ bind[p] # 0
    /\ inside[p] # Outside
    /\ Leave(p, [bind EXCEPT ![p] = 0])

\* The next reset.
Reset ==
    /\ Up
    /\ week < MaxWeek
    /\ week' = week + 1
    /\ UNCHANGED <<vars, mgr, mapLock, expire, bind, db, failed>>

\* InstanceMap::Update after the reset: the players in the map are asked to be saved to
\* it again; an empty map is unloaded.
Expire(key) ==
    /\ Up
    /\ expire[key[2]] < week
    /\ LET id == key[2]
       IN  IF Present(key) # {} /\ ~Alloc(mapLock[id]) THEN Fail("freed")
           ELSE /\ bind' = [p \in Players |-> IF inside[p] = key THEN id ELSE bind[p]]
                /\ timed' = (IF Present(key) = {} THEN timed \cup {key} ELSE timed)
                /\ expire' = [expire EXCEPT ![id] = week]
                /\ UNCHANGED <<pool, stored, live, inside, recent, mgr, mapLock, week, db, failed>>

\* HandleSetSavedInstanceExtend, not in the raid: UpdateInstanceLockExtensionForPlayer.
Extend(p, d, ext) ==
    /\ Up
    /\ inside[p] # Outside => inside[p][1] # d
    /\ \E l \in Held(locks, <<p, d>>, "perm") :
        /\ locks[l].ext # ext
        /\ locks' = [locks EXCEPT ![l].ext = ext]
        /\ rows' = [rows EXCEPT ![<<p, d>>].ext = ext]
    /\ Post(<<Tables>>)
    /\ UNCHANGED <<vars, data, byId, world, inst, failed>>

\* Mutant: IsInUse is not looked at.
MutResetInstanceLocks(p, d) ==
    /\ Up
    /\ \E l \in Held(locks, <<p, d>>, "perm") :
        /\ ~Expired(locks[l])
        /\ locks' = [locks EXCEPT ![l].expiry = week - 1, ![l].ext = FALSE]
        /\ rows' = [rows EXCEPT ![<<p, d>>].expiry = week - 1, ![<<p, d>>].ext = FALSE]
    /\ Post(<<Tables>>)
    /\ UNCHANGED <<vars, data, byId, world, inst, failed>>

\* ResetInstanceLocksForPlayer, by a game master: not a lock in use.
ResetInstanceLocks(p, d) ==
    /\ Up
    /\ \E l \in Held(locks, <<p, d>>, "perm") :
        /\ ~locks[l].use
        /\ ~Expired(locks[l])
        /\ locks' = [locks EXCEPT ![l].expiry = week - 1, ![l].ext = FALSE]
        /\ rows' = [rows EXCEPT ![<<p, d>>].expiry = week - 1, ![<<p, d>>].ext = FALSE]
    /\ Post(<<Tables>>)
    /\ UNCHANGED <<vars, data, byId, world, inst, failed>>

\* RegisterInstanceId for the locks that are loaded.
Register ==
    /\ RegisterInstanceId
    /\ UNCHANGED <<mgr, world, db, failed>>

LNext ==
    \/ Register
    \/ ExecuteNext
    \/ Restart
    \/ Reset
    \/ \E p \in Players :
        \/ \E d \in Dungeons :
            \/ \E owner \in {p} \cup Leaders : EnterNewRaid(p, owner, d) \/ EnterRaid(p, owner, d)
            \/ \E ext \in BOOLEAN : p \in Extenders /\ week < MaxWeek /\ Extend(p, d, ext)
            \/ p \in Unbound /\ week = MaxWeek /\ ResetInstanceLocks(p, d)
        \/ LeaveRaid(p)
        \/ ConfirmPendingBind(p)
        \/ DeclinePendingBind(p)
    \/ \E key \in live :
        \/ DestroyRaid(key)
        \/ Expire(key)
        \/ \E e \in SUBSET Encounters : UpdateInstanceLock(key, e)

LSpec == LInit /\ [][LNext]_lvars

-----------------------------------------------------------------------------

LockObjects ==
    [st : {"temp", "perm", "freed"}, expiry : Int, ext : BOOLEAN, new : BOOLEAN, use : BOOLEAN,
     mask : SUBSET Encounters, shared : DataNames]
DataObjects == [id : Ids \cup {0}, mask : SUBSET Encounters]
LockRows == [id : Ids, expiry : Int, ext : BOOLEAN, mask : SUBSET Encounters]
InstanceRows == [mask : SUBSET Encounters]
TableStates == [rows : [Keys -> LockRows \cup {Nothing}], inst : [Ids -> InstanceRows \cup {Nothing}]]

\* The type invariant.
LTypeOK ==
    /\ TypeOK
    /\ locks \in [LockNames -> LockObjects \cup {Nothing}]
    /\ data \in [DataNames -> DataObjects \cup {Nothing}]
    /\ byId \in [Ids -> DataNames \cup {Nullptr}]
    /\ mapLock \in [Ids -> LockNames \cup {Nullptr}]
    /\ expire \in [Ids -> Int]
    /\ bind \in [Players -> Ids \cup {0}]
    /\ week \in Nat
    /\ rows \in [Keys -> LockRows \cup {Nothing}]
    /\ inst \in [Ids -> InstanceRows \cup {Nothing}]
    /\ posted \in Seq(TableStates)
    /\ failed \in {"no", "assert", "freed"}

\* These tables save the player k to what his lock l says is done.
SavedIn(t, k, l) ==
    LET row == t.rows[k]
    IN  row # Nothing /\ row.id = IdOf(l) /\ row.expiry >= week /\ locks[l].mask \subseteq row.mask

\* A player saved to an instance in which an encounter is done stays saved to it until
\* the reset, and no encounter is forgotten, unless a game master resets the lock, or
\* the server goes down while the save is posted and not executed yet. Once the worker
\* has executed it no crash undoes it, at whatever item of whatever later handler.
SavedStaysSaved ==
    [][\A k \in Keys : \A l \in ActivePerm(locks, k) :
          \/ locks[l].mask = {} \/ Expired(locks[l])
          \/ week' # week
          \/ ResetInstanceLocks(k[1], k[2])
          \/ /\ SavedIn(Tables, k, l) /\ ~SavedIn(Disk, k, l)
             /\ \E why \in {"no", "assert", "freed"} : GoDown(why)
          \/ \E n \in 1..MaxCopies : LET lock == locks'[<<k, IdOf(l), n>>] IN
                lock.st = "perm" /\ lock.expiry >= week /\ locks[l].mask \subseteq lock.mask]_lvars

\* All locks of an instance share its one SharedInstanceLockData, the one that
\* _instanceLockDataById finds, even though ids are handed out again after a restart;
\* a player has one saved and one temporary lock of a key at most; and exactly the
\* live raids were created with a lock.
OneStatePerInstance ==
    /\ \A l \in LockNames : Alloc(l) => /\ byId[IdOf(l)] = locks[l].shared
                                    /\ data[locks[l].shared] # Nothing
    /\ \A k \in Keys : /\ Cardinality(Held(locks, k, "perm")) <= 1
                       /\ Cardinality(Held(locks, k, "temp")) <= 1
    /\ \A i \in Ids : mapLock[i] # Nullptr <=> \E d \in Dungeons : <<d, i>> \in live

\* No row that Load would keep is ahead of its instance.
RowsBehind(t) ==
    \A k \in Keys : t.rows[k] # Nothing /\ t.inst[t.rows[k].id] # Nothing =>
        t.rows[k].mask \subseteq t.inst[t.rows[k].id].mask

\* No player is saved to an encounter that the instance has not seen done, in memory
\* or in any state the two tables pass while the worker executes what is posted:
\* nobody finds a boss alive whose loot he may not have, whenever the server goes
\* down. When all is executed no row that says a boss is dead lacks its instance.
SavedBossesAreDead ==
    /\ \A l \in LockNames : Alloc(l) => locks[l].mask \subseteq data[locks[l].shared].mask
    /\ RowsBehind(Tables) /\ \A n \in DOMAIN posted : RowsBehind(posted[n])
    /\ \A k \in Keys : rows[k] # Nothing /\ rows[k].mask # {} => inst[rows[k].id] # Nothing

\* While a map is live, only the reset ends the lock it was created with: no boss
\* kill of its owner elsewhere, no accepted bind and no game master frees or expires
\* the lock that i_instanceLock points to.
InUseUntilReset ==
    [][\A i \in Ids : mapLock[i] # Nullptr =>
          LET l == mapLock[i]
          IN  Alloc(l) /\ ~Expired(locks[l]) /\ week' = week /\ mapLock'[i] = l =>
                locks'[l].st # "freed" /\ locks'[l].expiry >= week]_lvars

\* The ASSERTs of UpdateInstanceLockForPlayer and UpdateSharedInstanceLock hold.
AssertsHold == failed # "assert"
================================================================================
