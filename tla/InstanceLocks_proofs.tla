--------------------------- MODULE InstanceLocks_proofs -------------------------
(***************************************************************************)
(* The ids and the locks of raids are right for any number of raids, ids    *)
(* and encounters and any finite set of players.                            *)
(*                                                                          *)
(* Inv is about the ids. Its strengthening is about start-up:               *)
(* RegisterInstanceId keeps next free only because ids arrive in ascending  *)
(* order, so everything registered so far lies below everything still       *)
(* stored.                                                                  *)
(*                                                                          *)
(* LockInv is about the locks. The locks, the shared data and the two       *)
(* tables agree (LockTable, DataTable, NoOrphans), the live maps are those  *)
(* with a lock, which is one of their instance (Pointers), and a server can *)
(* start from every state the tables pass while the worker executes what is *)
(* posted (Pending).                                                        *)
(* UpdateInstanceLock goes through the players of a map with a fold; what   *)
(* it keeps is proved by induction over the set of players, which           *)
(* SubsetInduction takes from the well-founded order of the subsets of a    *)
(* finite set.                                                              *)
(***************************************************************************)
EXTENDS InstanceLocks, FiniteSetTheorems, SequenceTheorems, WellFoundedInduction, TLAPS

\* The bitset: what is registered so far lies below everything still stored.
Pool ==
    /\ size \in Nat
    /\ used \subseteq 0..(size - 1)
    /\ stored \subseteq 1..(size - 2)
    /\ \A id \in stored, u \in used : u < id
    /\ NextIsLowestFree

Inv == TypeOK /\ IdsInBitset /\ Pool

\* The taken ids of a bitset are naturals, and so is its lowest free id.
LEMMA BitsetTypes ==
    ASSUME NEW bits \in Nat, NEW taken, NEW id, taken \subseteq 0..(bits - 1), LowestFree(id, bits, taken)
    PROVE  taken \subseteq Nat /\ id \in Nat
  BY DEF LowestFree

\* Taking the lowest free id of a full bitset makes the index after its end the
\* lowest free one.
LEMMA GrowBitset ==
    ASSUME NEW bits \in Nat, NEW taken, NEW id, LowestFree(id, bits, taken), taken \subseteq 0..(bits - 1),
           \A i \in (id + 1)..(bits - 1) : i \in taken
    PROVE  /\ LowestFree(bits, bits + 1, taken \cup {id})
           /\ taken \cup {id} \subseteq 0..bits
  BY DEF LowestFree

\* Taking the lowest free id makes the lowest free id above it the lowest.
LEMMA AdvanceBitset ==
    ASSUME NEW bits \in Nat, NEW taken, NEW id, LowestFree(id, bits, taken), taken \subseteq 0..(bits - 1),
           NEW above \in (id + 1)..(bits - 1), above \notin taken,
           \A i \in (id + 1)..(bits - 1) : i \notin taken => above <= i
    PROVE  /\ LowestFree(above, bits, taken \cup {id})
           /\ taken \cup {id} \subseteq 0..(bits - 1)
  BY DEF LowestFree

\* GenerateInstanceId moves next to the lowest id that is still free.
LEMMA GenerateStep ==
    ASSUME size \in Nat, used \subseteq 0..(size - 1), NextIsLowestFree, GenerateInstanceId
    PROVE  /\ size' \in Nat /\ size' >= size
           /\ used' \subseteq 0..(size' - 1)
           /\ NextIsLowestFree'
<1>1. CASE FreeAbove = {}
  <2>1. next' = size /\ size' = size + 1 /\ used' = used \cup {next}
    BY <1>1 DEF GenerateInstanceId
  <2>2. \A i \in (next + 1)..(size - 1) : i \in used
    BY <1>1 DEF FreeAbove
  <2>3. LowestFree(size, size + 1, used \cup {next}) /\ used \cup {next} \subseteq 0..size
    BY <2>2, GrowBitset DEF NextIsLowestFree
  <2> QED
    BY <2>1, <2>3 DEF NextIsLowestFree
<1>2. CASE FreeAbove # {}
  <2>1. PICK above \in FreeAbove : next' = above /\ \A i \in FreeAbove : above <= i
    BY <1>2 DEF GenerateInstanceId
  <2>2. size' = size /\ used' = used \cup {next}
    BY <1>2 DEF GenerateInstanceId
  <2>3. LowestFree(above, size, used \cup {next}) /\ used \cup {next} \subseteq 0..(size - 1)
    BY <2>1, AdvanceBitset DEF NextIsLowestFree, FreeAbove
  <2> QED
    BY <2>1, <2>2, <2>3 DEF NextIsLowestFree
<1> QED
  BY <1>1, <1>2

\* FreeInstanceId keeps next the lowest free id.
LEMMA FreeStep ==
    ASSUME NEW id \in 1..(size - 1), size \in Nat, used \subseteq 0..(size - 1), NextIsLowestFree,
           FreeInstanceId(id)
    PROVE  size' = size /\ used' \subseteq used /\ NextIsLowestFree'
  BY DEF FreeInstanceId, NextIsLowestFree, LowestFree

\* RegisterInstanceId keeps next the lowest free id, for ids come in ascending order.
LEMMA RegisterStep ==
    ASSUME Pool, RegisterInstanceId
    PROVE  Pool' /\ used \cup stored \subseteq used' \cup stored'
<1> USE DEF Pool
<1>1. PICK id \in stored :
         /\ \A other \in stored : id <= other
         /\ used' = used \cup {id}
         /\ next' = (IF next = id THEN next + 1 ELSE next)
         /\ stored' = stored \ {id}
         /\ size' = size
  BY DEF RegisterInstanceId, NextStored
<1>2. id \in 1..(size - 2) /\ next <= id
  BY <1>1 DEF NextIsLowestFree, LowestFree
<1>3. NextIsLowestFree'
  BY <1>1, <1>2 DEF NextIsLowestFree, LowestFree
<1>4. \A i \in stored', u \in used' : u < i
  BY <1>1, <1>2
<1> QED
  BY <1>1, <1>2, <1>3, <1>4

\* Every step keeps the invariant.
LEMMA InvStep == Inv /\ [Next]_vars => Inv'
<1> SUFFICES ASSUME Inv, [Next]_vars PROVE Inv'
  OBVIOUS
<1> USE DEF Inv, Pool, TypeOK, IdsInBitset, pool, clients
<1>1. CASE RegisterInstanceId
  <2>1. Pool' /\ UNCHANGED <<size, live, timed, inside, recent>>
    BY <1>1, RegisterStep DEF RegisterInstanceId
  <2>2. size' \in Nat /\ used' \subseteq 0..(size' - 1) /\ LowestFree(next', size', used')
    BY <2>1 DEF NextIsLowestFree
  <2>3. used' \subseteq Nat /\ next' \in Nat
    BY <2>2, BitsetTypes
  <2>4. stored' \subseteq Nat
    BY <2>1, <2>2
  <2> QED
    BY <2>1, <2>3, <2>4
<1>2. ASSUME NEW p \in Players, NEW d \in Dungeons, EnterDungeon(p, d) PROVE Inv'
  <2> DEFINE id == IF recent[p][d] # 0 THEN recent[p][d] ELSE next
             key == <<d, id>>
  <2>1. /\ live' = live \cup {key}
        /\ recent' \in {recent, [recent EXCEPT ![p][d] = id]}
        /\ inside' = [inside EXCEPT ![p] = key]
        /\ timed' = timed \ {key}
        /\ stored = {} /\ stored' = {}
    BY <1>2 DEF EnterDungeon, AddPlayerToMap
  <2>2. id \in 1..(size - 1) /\ id \in Nat
    BY DEF NextIsLowestFree, LowestFree
  <2>3. /\ size' \in Nat /\ size' >= size /\ used' \subseteq 0..(size' - 1)
        /\ NextIsLowestFree'
    <3>1. CASE recent[p][d] # 0
      <4>1. UNCHANGED <<size, used, next>>
        BY <1>2, <3>1 DEF EnterDungeon
      <4> QED
        BY <4>1 DEF NextIsLowestFree
    <3>2. CASE recent[p][d] = 0
      <4>1. GenerateInstanceId
        BY <1>2, <3>2 DEF EnterDungeon
      <4> QED
        BY <4>1, GenerateStep
    <3> QED
      BY <3>1, <3>2
  <2>4. TypeOK'
    <3>1. recent' \in [Players -> [Dungeons -> Nat]]
      <4>1. [recent EXCEPT ![p][d] = id] \in [Players -> [Dungeons -> Nat]]
        BY <2>2
      <4> QED
        BY <2>1, <4>1
    <3>2. /\ live' \subseteq Dungeons \X Nat /\ timed' \subseteq live'
          /\ inside' \in [Players -> live' \cup {Outside}]
      BY <2>1, <2>2
    <3>3. size' \in Nat /\ used' \subseteq Nat /\ next' \in Nat
      BY <2>3, BitsetTypes DEF NextIsLowestFree
    <3> QED
      BY <2>1, <3>1, <3>2, <3>3
  <2>5. IdsInBitset'
    <3>1. \A k \in live' : k[2] \in 1..(size' - 1)
      BY <2>1, <2>2, <2>3
    <3>2. \A q \in Players, e \in Dungeons : recent'[q][e] \in 0..(size' - 1)
      BY <2>1, <2>2, <2>3
    <3> QED
      BY <3>1, <3>2
  <2> QED
    BY <2>1, <2>3, <2>4, <2>5
<1>3. ASSUME NEW p \in Players, LeaveDungeon(p) PROVE Inv'
  BY <1>3 DEF LeaveDungeon, NextIsLowestFree
<1>4. ASSUME NEW p \in Players, NEW b \in BOOLEAN, ResetInstances(p, b) PROVE Inv'
  <2>1. UNCHANGED <<size, used, next, stored, live, inside>>
    BY <1>4 DEF ResetInstances
  <2>2. timed' \subseteq live
    BY <1>4 DEF ResetInstances
  <2>3. PICK F \in SUBSET Dungeons :
           recent' = [recent EXCEPT ![p] = [d \in Dungeons |-> IF d \in F THEN 0 ELSE recent[p][d]]]
    BY <1>4 DEF ResetInstances
  <2>4. recent' \in [Players -> [Dungeons -> Nat]]
    BY <2>3
  <2>5. \A q \in Players, e \in Dungeons : recent'[q][e] \in {0, recent[q][e]}
    BY <2>3
  <2>6. NextIsLowestFree'
    BY <2>1 DEF NextIsLowestFree
  <2>7. IdsInBitset'
    <3>1. 0 \in 0..(size - 1)
      BY DEF NextIsLowestFree, LowestFree
    <3> QED
      BY <2>1, <2>5, <3>1
  <2> QED
    BY <2>1, <2>2, <2>4, <2>6, <2>7
<1>5. ASSUME NEW key \in live, DestroyMap(key) PROVE Inv'
  <2>1. key[2] \in 1..(size - 1)
    OBVIOUS
  <2>2. size' = size /\ used' \subseteq used /\ NextIsLowestFree'
    BY <1>5, <2>1, FreeStep DEF DestroyMap
  <2>3. /\ live' = live \ {key} /\ timed' = timed \ {key}
        /\ UNCHANGED <<stored, inside, recent>>
        /\ \A p \in Players : inside[p] # key
    BY <1>5 DEF DestroyMap, Unloadable, Present
  <2>4. inside' \in [Players -> live' \cup {Outside}]
    BY <2>3
  <2>5. next' \in Nat /\ used' \subseteq Nat
    BY <2>2, BitsetTypes DEF NextIsLowestFree
  <2>6. IdsInBitset' /\ used' \subseteq 0..(size' - 1)
    BY <2>2, <2>3
  <2>7. TypeOK'
    BY <2>2, <2>3, <2>4, <2>5
  <2> QED
    BY <2>2, <2>3, <2>6, <2>7
<1>6. CASE UNCHANGED vars
  BY <1>6 DEF vars, NextIsLowestFree
<1> QED
  BY <1>1, <1>2, <1>3, <1>4, <1>5, <1>6 DEF Next

\* The server starts with the ids of the database still to be registered.
LEMMA InitInv == Init => Inv
<1> SUFFICES ASSUME Init PROVE Inv
  OBVIOUS
<1>1. PICK max \in 0..MaxStored : size = max + 2 /\ stored \in SUBSET (1..max)
  BY DEF Init
<1>2. max \in Nat
  BY <1>1, BoundsAssumption
<1> QED
  BY <1>1, <1>2 DEF Init, Inv, Pool, TypeOK, NextIsLowestFree, LowestFree, IdsInBitset

\* The bitset invariant holds in every reachable state.
LEMMA Invariant == Spec => []Inv
  BY InitInv, InvStep, PTL DEF Spec

\* The type invariant of the instance-id pool and its client.
THEOREM TypeCorrect == Spec => []TypeOK
  BY Invariant, PTL DEF Inv

\* GenerateInstanceId always returns the lowest free id and its ASSERT never
\* fires, whatever ids the database held and however maps come and go.
THEOREM NextIsLowestFreeHolds == Spec => []NextIsLowestFree
  BY Invariant, PTL DEF Inv, Pool

\* FreeInstanceId never addresses a bit outside the bitset.
THEOREM IdsInBitsetHolds == Spec => []IdsInBitset
  BY Invariant, PTL DEF Inv

-----------------------------------------------------------------------------
(* Induction, over the numbers up to a bound and over the subsets of a      *)
(* finite set, from the well-foundedness of their orders.                   *)

\* What holds of 0 and of the successor of each number it holds of, up to n, holds of n.
LEMMA UpTo ==
    ASSUME NEW n \in Nat, NEW Good, 0 \in Good,
           \A i \in 0 .. n : i \in Good /\ i < n => i + 1 \in Good
    PROVE  n \in Good
<1> DEFINE Bad == {i \in 0 .. n : i \notin Good}
<1> SUFFICES ASSUME n \notin Good PROVE FALSE
  OBVIOUS
<1>1. Bad # {} /\ Bad \subseteq Nat
  OBVIOUS
<1>2. IsWellFoundedOn(OpToRel(<, Nat), Nat)
  BY NatLessThanWellFounded
<1>3. PICK i \in Bad : \A j \in Bad : <<j, i>> \notin OpToRel(<, Nat)
  BY <1>1, <1>2, WFMin
<1>4. \A j \in Bad : ~(j < i)
  BY <1>1, <1>3 DEF OpToRel
<1>5. i - 1 \in 0 .. n /\ i - 1 < n /\ i - 1 \in Good
  BY <1>4
<1> QED
  BY <1>5

\* What holds of a subset whenever it holds of all that lack one of its elements holds of
\* the whole set.
LEMMA SubsetInduction ==
    ASSUME NEW S, IsFiniteSet(S), NEW Good,
           \A T \in SUBSET S : (\A x \in T : T \ {x} \in Good) => T \in Good
    PROVE  \A T \in SUBSET S : T \in Good
<1> DEFINE Bad == {T \in SUBSET S : T \notin Good}
<1> SUFFICES ASSUME Bad # {} PROVE FALSE
  OBVIOUS
<1>1. Bad \subseteq FiniteSubsetsOf(S)
  BY FS_FiniteSubsetsOfFinite
<1>2. PICK T \in Bad : \A U \in Bad : <<U, T>> \notin StrictSubsetOrdering(S)
  BY <1>1, FS_StrictSubsetOrderingWellFounded, WFMin
<1>3. ASSUME NEW x \in T PROVE T \ {x} \in Good
  <2> DEFINE U == T \ {x}
  <2>1. U \in SUBSET S /\ U \subseteq T /\ U # T /\ T \in SUBSET S
    OBVIOUS
  <2>2. <<U, T>> \in StrictSubsetOrdering(S)
    BY <2>1 DEF StrictSubsetOrdering
  <2> QED
    BY <1>2, <2>1, <2>2
<1> QED
  BY <1>3

\* A set of numbers up to n has a greatest one.
LEMMA GreatestOf ==
    ASSUME NEW n \in Nat, NEW S \in SUBSET (0 .. n), 0 \in S
    PROVE  Max(S) \in S /\ \A y \in S : Max(S) >= y
<1> DEFINE Has(m) == \E x \in S \cap (0 .. m) : \A y \in S \cap (0 .. m) : x >= y
           Good == {m \in 0 .. n : Has(m)}
<1>1. 0 \in Good
  OBVIOUS
<1>2. ASSUME NEW m \in 0 .. n, m \in Good, m < n PROVE m + 1 \in Good
  <2>1. PICK x \in S \cap (0 .. m) : \A y \in S \cap (0 .. m) : x >= y
    BY <1>2
  <2>2. m + 1 \in 0 .. n
    BY <1>2
  <2>3. CASE m + 1 \in S
    BY <2>2, <2>3
  <2>4. CASE m + 1 \notin S
    BY <2>1, <2>2, <2>4
  <2> QED
    BY <2>3, <2>4
<1>3. n \in Good
  BY <1>1, <1>2, UpTo
<1>4. \E x \in S : \A y \in S : x >= y
  BY <1>3
<1> QED
  BY <1>4 DEF Max

-----------------------------------------------------------------------------
(* The invariant of the locks.                                              *)

In(ls, l) == ls[l].st \in {"temp", "perm"}

\* The row that keeps a permanent lock.
RowOf(l, lock) == [id |-> IdOf(l), expiry |-> lock.expiry, ext |-> lock.ext, mask |-> lock.mask]

\* Ids of locks are taken, and an instance id belongs to one raid.
Registered(ls) ==
    /\ \A l \in LockNames : ls[l] # Nothing => IdOf(l) \in used \cup stored
    /\ \A l, m \in LockNames :
        ls[l] # Nothing /\ ls[m] # Nothing /\ IdOf(l) = IdOf(m) => Key(l)[2] = Key(m)[2]

\* A lock shares the data that the manager finds under its id.
Sharing(ls, ds) ==
    \A l \in LockNames : In(ls, l) => byId[IdOf(l)] = ls[l].shared /\ ds[ls[l].shared] # Nothing

\* A player has one lock of each kind for a raid.
Single(ls) ==
    \A l, m \in LockNames : In(ls, l) /\ ls[l].st = ls[m].st /\ Key(l) = Key(m) => l = m

\* The table has exactly the permanent locks.
RowsMatch(ls, rs) ==
    /\ \A k \in Keys : rs[k] # Nothing => \E l \in LockNames : Key(l) = k /\ ls[l].st = "perm"
    /\ \A l \in LockNames : ls[l].st = "perm" => rs[Key(l)] = RowOf(l, ls[l])

\* What a lock has done its instance has done.
Masks(ls, ds) == \A l \in LockNames : In(ls, l) => ls[l].mask \subseteq ds[ls[l].shared].mask

\* The lock of a live map is there, or was and is freed; it is marked as in use.
MapLocks(ls) ==
    \A i \in Ids : mapLock[i] # Nullptr =>
        ls[mapLock[i]] # Nothing /\ (In(ls, mapLock[i]) => ls[mapLock[i]].use)

Table(ls, ds, rs) ==
    /\ ls \in [LockNames -> LockObjects \cup {Nothing}]
    /\ rs \in [Keys -> LockRows \cup {Nothing}]
    /\ Registered(ls) /\ Sharing(ls, ds) /\ Single(ls) /\ RowsMatch(ls, rs)
    /\ Masks(ls, ds)

LockTable(ls, ds, rs) == Table(ls, ds, rs) /\ MapLocks(ls)

\* Shared data is in the table once something is saved of it.
DataTable(ds, ins) ==
    /\ ds \in [DataNames -> DataObjects \cup {Nothing}]
    /\ ins \in [Ids -> InstanceRows \cup {Nothing}]
    /\ \A s \in DataNames : ds[s] # Nothing =>
        \/ ds[s].id = 0 /\ ds[s].mask = {}
        \/ ds[s].id = s[1] /\ ins[s[1]] = [mask |-> ds[s].mask]

\* Shared data nobody holds is gone.
NoOrphans(ls, ds) == \A s \in DataNames : ds[s] # Nothing => Holders(ls, s) # {}

\* The maps of the instance ids, and the data the manager finds for them.
Pointers ==
    /\ \A i \in Ids : byId[i] # Nullptr => byId[i][1] = i
    /\ \A i \in Ids : mapLock[i] # Nullptr =>
        IdOf(mapLock[i]) = i /\ <<Key(mapLock[i])[2], i>> \in live
    /\ \A key \in live :
        key[2] \in Ids /\ mapLock[key[2]] # Nullptr /\ Key(mapLock[key[2]])[2] = key[1]

\* What the tables must be like for the server to start from them.
Loadable(rs, ins) ==
    /\ rs \in [Keys -> LockRows \cup {Nothing}]
    /\ ins \in [Ids -> InstanceRows \cup {Nothing}]
    /\ \A k, j \in Keys : rs[k] # Nothing /\ rs[j] # Nothing /\ rs[k].id = rs[j].id => k[2] = j[2]
    /\ \A k \in Keys : rs[k] # Nothing /\ ins[rs[k].id] # Nothing =>
            rs[k].mask \subseteq ins[rs[k].id].mask

\* A state the tables pass: the server can start from it, its ids are taken, and a saved
\* boss of a missing instance is one of an instance nobody holds any more.
Passable(t, taken, ptr) ==
    /\ Loadable(t.rows, t.inst)
    /\ \A k \in Keys : t.rows[k] # Nothing =>
          /\ t.rows[k].id \in taken
          /\ t.rows[k].mask # {} /\ t.inst[t.rows[k].id] = Nothing => ptr[t.rows[k].id] = Nullptr

\* Whatever the worker has come to, the server can start from it.
Pending == \A n \in 1..Len(posted) : Passable(posted[n], used \cup stored, byId)

LockInv ==
    /\ LTypeOK
    /\ Pool
    /\ Pointers
    /\ LockTable(locks, data, rows)
    /\ DataTable(data, inst)
    /\ NoOrphans(locks, data)
    /\ Pending

-----------------------------------------------------------------------------
(* Names.                                                                   *)

\* The parts of a lock's name.
LEMMA Names ==
    ASSUME NEW l \in LockNames
    PROVE  /\ Key(l) \in Keys /\ IdOf(l) \in Ids /\ l[3] \in 1..MaxCopies
           /\ l = <<Key(l), IdOf(l), l[3]>> /\ l # Nullptr
           /\ Key(l)[1] \in Players /\ Key(l)[2] \in Dungeons
           /\ Key(l) = <<Key(l)[1], Key(l)[2]>>
  BY DEF LockNames, Keys, Key, IdOf, Nullptr

\* Every name there can be.
LEMMA NameOf ==
    ASSUME NEW k \in Keys, NEW i \in Ids, NEW n \in 1..MaxCopies
    PROVE  /\ <<k, i, n>> \in LockNames
           /\ Key(<<k, i, n>>) = k /\ IdOf(<<k, i, n>>) = i
  BY DEF LockNames, Key, IdOf

\* The keys.
LEMMA KeyOf ==
    ASSUME NEW p \in Players, NEW d \in Dungeons
    PROVE  <<p, d>> \in Keys /\ <<p, d>>[1] = p /\ <<p, d>>[2] = d
  BY DEF Keys

\* The locks a player has of a raid.
LEMMA HeldIs ==
    ASSUME NEW ls, NEW k \in Keys, NEW st, NEW l
    PROVE  l \in Held(ls, k, st) <=> l \in LockNames /\ Key(l) = k /\ ls[l].st = st
<1>1. l \in {k} \X Ids \X (1..MaxCopies) <=> l \in LockNames /\ Key(l) = k
  BY DEF LockNames, Key
<1> QED
  BY <1>1 DEF Held

\* A free name is a name nobody has.
LEMMA FreeIs ==
    ASSUME NEW ls, NEW k \in Keys, NEW i \in Ids, NEW l \in FreeNames(ls, k, i)
    PROVE  l \in LockNames /\ Key(l) = k /\ IdOf(l) = i /\ ls[l] = Nothing
<1>1. l \in {k} \X {i} \X (1..MaxCopies) /\ ls[l] = Nothing
  BY DEF FreeNames
<1> QED
  BY <1>1 DEF LockNames, Key, IdOf

\* Objects and rows are something.
LEMMA Somethings ==
    /\ \A x \in LockObjects : x # Nothing /\ x.st # "none"
    /\ \A x \in DataObjects : x # Nothing
    /\ \A x \in LockRows : x # Nothing
    /\ \A x \in InstanceRows : x # Nothing
    /\ Nothing.st = "none"
  BY DEF LockObjects, DataObjects, LockRows, InstanceRows, Nothing

\* A lock in a table is a lock object.
LEMMA InIsObject ==
    ASSUME NEW ls \in [LockNames -> LockObjects \cup {Nothing}], NEW l \in LockNames
    PROVE  /\ ls[l] # Nothing <=> ls[l] \in LockObjects
           /\ In(ls, l) => ls[l] \in LockObjects
           /\ ls[l].st \in {"temp", "perm", "freed"} <=> ls[l] # Nothing
<1>1. ls[l] \in LockObjects \cup {Nothing}
  OBVIOUS
<1> QED
  BY <1>1, Somethings DEF In, LockObjects

-----------------------------------------------------------------------------
(* InitInstanceIds and InstanceLockMgr::Load.                               *)

\* The bitset covers every id of the two tables; none is registered yet.
LEMMA LoadPool ==
    ASSUME NEW rs, NEW ins, NEW why, Loadable(rs, ins), Load(rs, ins, why)
    PROVE  Pool' /\ \A k \in Keys : rs[k] # Nothing => rs[k].id \in stored'
<1> DEFINE saved == {k \in Keys : rs[k] # Nothing}
           all == {0} \cup {rs[k].id : k \in saved} \cup {i \in Ids : ins[i] # Nothing}
<1>1. \A k \in saved : rs[k] \in LockRows /\ rs[k].id \in Ids
  BY DEF Loadable, LockRows
<1>2. Ids = 1 .. MaxId /\ MaxId \in Nat
  BY BoundsAssumption DEF Ids
<1>3. all \in SUBSET (0 .. MaxId) /\ 0 \in all
  BY <1>1, <1>2
<1>4. PICK max : max = Max(all)
  OBVIOUS
<1>5. max \in Nat /\ \A i \in all : i <= max
  <2> HIDE DEF all
  <2>1. max \in all /\ \A i \in all : max >= i
    BY <1>2, <1>3, <1>4, GreatestOf
  <2>2. max \in Nat /\ \A i \in all : i \in Nat
    BY <1>2, <1>3, <2>1
  <2> QED
    BY <2>1, <2>2
<1>6. size' = max + 2 /\ used' = {0} /\ next' = 1 /\ stored' = {rs[k].id : k \in saved}
  BY <1>4 DEF Load
<1>7. stored' \subseteq 1 .. max
  BY <1>1, <1>2, <1>5, <1>6
<1>8. Pool'
  BY <1>5, <1>6, <1>7 DEF Pool, NextIsLowestFree, LowestFree
<1> QED
  BY <1>6, <1>8

\* After the start every lock, its data and the tables are in order, whatever was written
\* before the server went down.
LEMMA LoadInv ==
    ASSUME LTypeOK, NEW rs, NEW ins, NEW why \in {"no", "assert", "freed"}, Loadable(rs, ins),
           Load(rs, ins, why)
    PROVE  LockInv'
<1> DEFINE saved == {k \in Keys : rs[k] # Nothing}
           kept == {k \in saved : ins[rs[k].id] # Nothing}
           needed == {<<rs[k].id, 1>> : k \in kept}
           N == [k \in kept |-> <<k, rs[k].id, 1>>]
           L == [k \in kept |-> [Lock("perm", <<rs[k].id, 1>>) EXCEPT !.expiry = rs[k].expiry,
                                   !.ext = rs[k].ext, !.mask = rs[k].mask]]
           D == [k \in kept |-> [id |-> rs[k].id, mask |-> ins[rs[k].id].mask]]
<1>1. Pool' /\ \A k \in saved : rs[k].id \in stored'
  BY LoadPool
<1>2. /\ mapLock' = [i \in Ids |-> Nullptr] /\ expire' = [i \in Ids |-> 0]
      /\ bind' = [p \in Players |-> 0]
      /\ rows' = [k \in Keys |-> IF k \in kept THEN rs[k] ELSE Nothing]
      /\ inst' = ins /\ failed' = why /\ live' = {} /\ timed' = {}
      /\ inside' = [p \in Players |-> Outside] /\ recent' = recent /\ week' = week
  BY DEF Load
<1>3. ASSUME NEW k \in kept
      PROVE  /\ k \in Keys /\ rs[k] \in LockRows /\ rs[k].id \in Ids /\ rs[k].id \in stored'
             /\ ins[rs[k].id] \in InstanceRows /\ rs[k].mask \subseteq ins[rs[k].id].mask
             /\ <<rs[k].id, 1>> \in DataNames
             /\ N[k] = <<k, rs[k].id, 1>> /\ N[k] \in LockNames /\ Key(N[k]) = k /\ IdOf(N[k]) = rs[k].id
  <2>1. k \in Keys /\ rs[k] \in LockRows
    BY DEF Loadable
  <2>2. rs[k].id \in Ids
    BY <2>1 DEF LockRows
  <2>3. ins[rs[k].id] \in InstanceRows /\ rs[k].mask \subseteq ins[rs[k].id].mask
    BY <2>1, <2>2 DEF Loadable
  <2>4. 1 \in 1 .. MaxCopies
    BY LockBoundsAssumption
  <2>5. N[k] = <<k, rs[k].id, 1>> /\ <<rs[k].id, 1>> \in DataNames
    BY <2>2, <2>4 DEF DataNames
  <2>6. N[k] \in LockNames /\ Key(N[k]) = k /\ IdOf(N[k]) = rs[k].id
    BY <2>1, <2>2, <2>4, <2>5, NameOf
  <2> QED
    BY <1>1, <2>1, <2>2, <2>3, <2>5, <2>6
<1>4. ASSUME NEW k \in kept
      PROVE  /\ L[k] \in LockObjects /\ L[k].st = "perm" /\ L[k].shared = <<rs[k].id, 1>>
             /\ L[k].mask = rs[k].mask /\ rs[k] = RowOf(N[k], L[k])
             /\ D[k] \in DataObjects /\ D[k].id = rs[k].id /\ D[k].mask = ins[rs[k].id].mask
             /\ ins[rs[k].id] = [mask |-> D[k].mask]
  <2>1. PICK s, x, e, m, i : s = <<rs[k].id, 1>> /\ x = rs[k].expiry /\ e = rs[k].ext /\ m = rs[k].mask
                              /\ i = rs[k].id
    OBVIOUS
  <2>2. s \in DataNames /\ x \in Int /\ e \in BOOLEAN /\ m \in SUBSET Encounters /\ i \in Ids
    BY <1>3, <2>1 DEF LockRows
  <2>3. rs[k] = [id |-> i, expiry |-> x, ext |-> e, mask |-> m]
    BY <1>3, <2>1 DEF LockRows
  <2>4. D[k] = [id |-> i, mask |-> ins[i].mask] /\ IdOf(N[k]) = i /\ ins[i] \in InstanceRows
    BY <1>3, <2>1
  <2>5. L[k] = [Lock("perm", s) EXCEPT !.expiry = x, !.ext = e, !.mask = m]
    BY <2>1
  <2> HIDE DEF kept, L, N, D, needed, saved
  <2>6. /\ L[k] \in LockObjects /\ L[k].st = "perm" /\ L[k].shared = s /\ L[k].expiry = x
        /\ L[k].ext = e /\ L[k].mask = m
    <3>1. week \in Int
      BY DEF LTypeOK
    <3> QED
      BY <2>2, <2>5, <3>1 DEF Lock, LockObjects
  <2>7. rs[k] = RowOf(N[k], L[k])
    BY <2>3, <2>4, <2>6 DEF RowOf
  <2>8. D[k] \in DataObjects /\ D[k].id = i /\ D[k].mask = ins[i].mask /\ ins[i] = [mask |-> D[k].mask]
    BY <2>2, <2>4 DEF DataObjects, InstanceRows
  <2> QED
    BY <2>1, <2>6, <2>7, <2>8
<1>5. /\ \A k \in kept : locks'[N[k]] = L[k]
      /\ \A l \in LockNames : locks'[l] # Nothing => Key(l) \in kept /\ l = N[Key(l)]
      /\ locks' \in [LockNames -> LockObjects \cup {Nothing}]
  <2>1. locks' = [l \in LockNames |->
                    IF Key(l) \in kept /\ l = <<Key(l), rs[Key(l)].id, 1>>
                    THEN [Lock("perm", <<IdOf(l), 1>>)
                            EXCEPT !.expiry = rs[Key(l)].expiry, !.ext = rs[Key(l)].ext,
                                   !.mask = rs[Key(l)].mask]
                    ELSE Nothing]
    BY DEF Load
  <2>2. ASSUME NEW l \in LockNames, Key(l) \in kept, l = <<Key(l), rs[Key(l)].id, 1>>
        PROVE  locks'[l] = L[Key(l)] /\ l = N[Key(l)]
    <3>1. IdOf(l) = rs[Key(l)].id /\ l = N[Key(l)]
      BY <1>3, <2>2
    <3>2. [Lock("perm", <<IdOf(l), 1>>)
             EXCEPT !.expiry = rs[Key(l)].expiry, !.ext = rs[Key(l)].ext, !.mask = rs[Key(l)].mask] = L[Key(l)]
      BY <2>2, <3>1
    <3> QED
      BY <2>1, <2>2, <3>1, <3>2
  <2>3. ASSUME NEW l \in LockNames, ~(Key(l) \in kept /\ l = <<Key(l), rs[Key(l)].id, 1>>)
        PROVE  locks'[l] = Nothing
    BY <2>1, <2>3
  <2> HIDE DEF kept, L, N
  <2>4. \A k \in kept : locks'[N[k]] = L[k]
    BY <1>3, <2>2
  <2>5. \A l \in LockNames : locks'[l] # Nothing => Key(l) \in kept /\ l = N[Key(l)]
    BY <2>2, <2>3
  <2>6. \A l \in LockNames : locks'[l] \in LockObjects \cup {Nothing}
    <3> SUFFICES ASSUME NEW l \in LockNames, locks'[l] # Nothing PROVE locks'[l] \in LockObjects
      OBVIOUS
    <3>1. PICK k \in kept : k = Key(l) /\ l = N[k]
      BY <2>5
    <3>2. locks'[l] = L[k]
      BY <2>4, <3>1
    <3>3. L[k] \in LockObjects
      BY <1>4
    <3> QED
      BY <3>2, <3>3
  <2> QED
    BY <2>1, <2>4, <2>5, <2>6
<1>6. /\ \A k \in kept : data'[<<rs[k].id, 1>>] = D[k] /\ byId'[rs[k].id] = <<rs[k].id, 1>>
      /\ \A s \in DataNames : data'[s] # Nothing => \E k \in kept : s = <<rs[k].id, 1>>
      /\ \A i \in Ids : byId'[i] # Nullptr => byId'[i] = <<i, 1>> /\ byId'[i] \in DataNames
      /\ data' \in [DataNames -> DataObjects \cup {Nothing}]
      /\ byId' \in [Ids -> DataNames \cup {Nullptr}]
      /\ \A i \in Ids : ins[i] = Nothing => byId'[i] = Nullptr
  <2>1. /\ data' = [s \in DataNames |->
                      IF s \in needed THEN [id |-> s[1], mask |-> ins[s[1]].mask] ELSE Nothing]
        /\ byId' = [i \in Ids |-> IF <<i, 1>> \in needed THEN <<i, 1>> ELSE Nullptr]
    BY DEF Load
  <2>2. \A k \in kept : data'[<<rs[k].id, 1>>] = D[k] /\ byId'[rs[k].id] = <<rs[k].id, 1>>
    BY <1>3, <2>1
  <2>3. \A s \in DataNames : data'[s] # Nothing => \E k \in kept : s = <<rs[k].id, 1>>
    BY <2>1
  <2>4. \A i \in Ids : byId'[i] # Nullptr => byId'[i] = <<i, 1>> /\ byId'[i] \in DataNames
    BY <1>3, <2>1
  <2>5. \A s \in DataNames : data'[s] \in DataObjects \cup {Nothing}
    <3> HIDE DEF kept, D
    <3> SUFFICES ASSUME NEW s \in DataNames, data'[s] # Nothing PROVE data'[s] \in DataObjects
      OBVIOUS
    <3>1. PICK k \in kept : s = <<rs[k].id, 1>>
      BY <2>3
    <3>2. data'[s] = D[k]
      BY <2>2, <3>1
    <3> QED
      BY <1>4, <3>2
  <2>6. \A i \in Ids : ins[i] = Nothing => byId'[i] = Nullptr
    BY <2>1
  <2> QED
    BY <2>1, <2>2, <2>3, <2>4, <2>5, <2>6
<1>7. \A k \in Keys : rows'[k] # Nothing => k \in kept
  BY <1>2
<1>8. \A k \in kept : rows'[k] = rs[k]
  BY <1>2
<1>9. rows' \in [Keys -> LockRows \cup {Nothing}]
  BY <1>2 DEF Loadable
<1>22. posted' \in Seq(TableStates) /\ Pending'
  <2>1. PICK t : t = [rows |-> rs, inst |-> ins]
    OBVIOUS
  <2>2. t \in TableStates /\ t.rows = rs /\ t.inst = ins
    BY <2>1 DEF Loadable, TableStates
  <2>3. posted' = <<>> \/ posted' = <<t>>
    BY <2>1 DEF Load
  <2>4. \A k \in Keys : rs[k] # Nothing => rs[k].id \in Ids /\ rs[k].id \in stored'
    BY <1>1 DEF Loadable, LockRows
  <2>5. Passable(t, used' \cup stored', byId')
    BY <1>6, <2>2, <2>4 DEF Passable
  <2>6. <<>> \in Seq(TableStates) /\ Len(<<>>) = 0
    OBVIOUS
  <2>7. <<t>> \in Seq(TableStates) /\ Len(<<t>>) = 1 /\ <<t>>[1] = t
    BY <2>2
  <2>8. posted' \in Seq(TableStates) /\ \A n \in 1..Len(posted') : posted'[n] = t
    <3>1. CASE posted' = <<>>
      BY <2>6, <3>1
    <3>2. CASE posted' = <<t>>
      <4>1. \A n \in 1..1 : <<t>>[n] = t
        OBVIOUS
      <4>2. posted' \in Seq(TableStates) /\ Len(posted') = 1
        BY <2>7, <3>2
      <4> QED
        BY <3>2, <4>1, <4>2
    <3> QED
      BY <2>3, <3>1, <3>2
  <2> QED
    BY <2>5, <2>8 DEF Pending
<1> HIDE DEF saved, kept, needed, N, L, D
<1>10. ASSUME NEW l \in LockNames, locks'[l] # Nothing
       PROVE  /\ Key(l) \in kept /\ l = N[Key(l)] /\ locks'[l] = L[Key(l)] /\ IdOf(l) = rs[Key(l)].id
              /\ IdOf(l) \in stored'
  <2>1. Key(l) \in kept /\ l = N[Key(l)]
    BY <1>5, <1>10
  <2>2. PICK k \in kept : k = Key(l)
    BY <2>1
  <2>3. IdOf(N[k]) = rs[k].id
    BY <1>3
  <2>4. locks'[N[k]] = L[k]
    BY <1>5
  <2>5. rs[k].id \in stored'
    BY <1>3
  <2> QED
    BY <2>1, <2>2, <2>3, <2>4, <2>5
<1>11. \A l \in LockNames : locks'[l].st \in {"temp", "perm"} => locks'[l] # Nothing
  BY Somethings
<1>12. Registered(locks)'
  <2>1. \A l \in LockNames : locks'[l] # Nothing => IdOf(l) \in used' \cup stored'
    BY <1>10
  <2>2. ASSUME NEW l \in LockNames, NEW m \in LockNames, locks'[l] # Nothing, locks'[m] # Nothing,
               IdOf(l) = IdOf(m)
        PROVE  Key(l)[2] = Key(m)[2]
    <3>1. /\ Key(l) \in Keys /\ Key(m) \in Keys /\ rs[Key(l)].id = rs[Key(m)].id
          /\ rs[Key(l)] # Nothing /\ rs[Key(m)] # Nothing
      BY <1>3, <1>10, <2>2, Somethings
    <3> QED
      BY <3>1 DEF Loadable
  <2> QED
    BY <2>1, <2>2 DEF Registered
<1>13. Sharing(locks, data)'
  <2> SUFFICES ASSUME NEW l \in LockNames, In(locks', l)
               PROVE  byId'[IdOf(l)] = locks'[l].shared /\ data'[locks'[l].shared] # Nothing
    BY DEF Sharing
  <2>1. PICK k \in kept : k = Key(l) /\ locks'[l] = L[k] /\ IdOf(l) = rs[k].id
    BY <1>10, <1>11 DEF In
  <2> QED
    <3>1. data'[<<rs[k].id, 1>>] = D[k] /\ byId'[rs[k].id] = <<rs[k].id, 1>>
      BY <1>6
    <3>2. L[k].shared = <<rs[k].id, 1>>
      BY <1>4
    <3>3. D[k] # Nothing
      BY <1>4, Somethings
    <3> QED
      BY <2>1, <3>1, <3>2, <3>3
<1>14. Single(locks)'
  BY <1>10, <1>11 DEF Single, In
<1>15. RowsMatch(locks, rows)'
  <2>1. \A k \in Keys : rows'[k] # Nothing => \E l \in LockNames : Key(l) = k /\ locks'[l].st = "perm"
    <3> SUFFICES ASSUME NEW k \in Keys, rows'[k] # Nothing
                 PROVE  \E l \in LockNames : Key(l) = k /\ locks'[l].st = "perm"
      OBVIOUS
    <3>1. k \in kept
      BY <1>7
    <3>2. N[k] \in LockNames /\ Key(N[k]) = k
      BY <1>3, <3>1
    <3>3. L[k].st = "perm"
      BY <1>4, <3>1
    <3>4. locks'[N[k]] = L[k]
      BY <1>5, <3>1
    <3> QED
      BY <3>2, <3>3, <3>4
  <2>2. ASSUME NEW l \in LockNames, locks'[l].st = "perm"
        PROVE  rows'[Key(l)] = RowOf(l, locks'[l])
    <3>1. PICK k \in kept : k = Key(l) /\ locks'[l] = L[k] /\ l = N[k]
      BY <1>10, <1>11, <2>2
    <3> QED
      BY <1>4, <1>8, <3>1
  <2> QED
    BY <2>1, <2>2 DEF RowsMatch
<1>16. Masks(locks, data)'
  <2> SUFFICES ASSUME NEW l \in LockNames, In(locks', l)
               PROVE  locks'[l].mask \subseteq data'[locks'[l].shared].mask
    BY DEF Masks
  <2>1. PICK k \in kept : k = Key(l) /\ locks'[l] = L[k]
    BY <1>10, <1>11 DEF In
  <2>2. L[k].mask = rs[k].mask /\ L[k].shared = <<rs[k].id, 1>> /\ D[k].mask = ins[rs[k].id].mask
    BY <1>4
  <2>3. data'[<<rs[k].id, 1>>] = D[k]
    BY <1>6
  <2>4. rs[k].mask \subseteq ins[rs[k].id].mask
    BY <1>3
  <2> QED
    BY <2>1, <2>2, <2>3, <2>4
<1>17. LockTable(locks, data, rows)'
  BY <1>2, <1>5, <1>9, <1>12, <1>13, <1>14, <1>15, <1>16 DEF LockTable, Table, MapLocks
<1>18. DataTable(data, inst)'
  <2>1. ASSUME NEW s \in DataNames, data'[s] # Nothing
        PROVE  data'[s].id = s[1] /\ inst'[s[1]] = [mask |-> data'[s].mask]
    BY <1>2, <1>4, <1>6, <2>1
  <2> QED
    BY <1>2, <1>6, <2>1 DEF DataTable, Loadable
<1>19. NoOrphans(locks, data)'
  <2> SUFFICES ASSUME NEW s \in DataNames, data'[s] # Nothing PROVE Holders(locks', s) # {}
    BY DEF NoOrphans
  <2>1. PICK k \in kept : s = <<rs[k].id, 1>>
    BY <1>6
  <2>2. N[k] \in Holders(locks', s)
    BY <1>3, <1>4, <1>5, <2>1 DEF Holders
  <2> QED
    BY <2>2
<1>20. Pointers'
  BY <1>2, <1>6 DEF Pointers
<1>21. LTypeOK'
  <2>1. size' \in Nat /\ used' \subseteq Nat /\ next' \in Nat /\ stored' \subseteq Nat
    <3>1. size' \in Nat /\ used' \subseteq 0..(size' - 1) /\ LowestFree(next', size', used')
      BY <1>1 DEF Pool, NextIsLowestFree
    <3>2. used' \subseteq Nat /\ next' \in Nat
      BY <3>1, BitsetTypes
    <3>3. stored' \subseteq Nat
      <4>1. PICK s, t : s = stored' /\ t = size'
        OBVIOUS
      <4>2. s \subseteq 1..(t - 2) /\ t \in Nat
        BY <1>1, <4>1 DEF Pool
      <4>3. s \subseteq Nat
        BY <4>2
      <4> QED
        BY <4>1, <4>3
    <3> QED
      BY <3>1, <3>2, <3>3
  <2>2. TypeOK'
    BY <1>2, <2>1 DEF LTypeOK, TypeOK
  <2> QED
    BY <1>2, <1>5, <1>6, <1>9, <1>18, <1>22, <2>2 DEF LTypeOK, DataTable
<1> QED
  BY <1>1, <1>17, <1>18, <1>19, <1>20, <1>21, <1>22 DEF LockInv

-----------------------------------------------------------------------------
(* Changes of the lock table.                                               *)

\* No lock that has not expired goes, changes its data, forgets a boss or expires before
\* the reset.
Kept(ls, ls2) ==
    \A l \in LockNames : In(ls, l) /\ ls[l].expiry >= week =>
        /\ In(ls2, l) /\ ls2[l].expiry >= week /\ ls2[l].shared = ls[l].shared
        /\ ls[l].mask \subseteq ls2[l].mask
        /\ ls[l].st = "perm" => ls2[l].st = "perm"

\* The expired lock m of k goes; it stays behind as freed when a map points to it.
Gone(ls, ls2, m, k) ==
    /\ Key(m) = k /\ ls[m].st = "perm" /\ ls[m].expiry < week
    /\ \/ ls2[m] = Nothing /\ \A i \in Ids : mapLock[i] # m
       \/ ls2[m] \in LockObjects /\ ls2[m].st = "freed"

\* l becomes the one permanent lock of k: it was there, or is new.
Settled(ls, ls2, k, l) ==
    /\ ls2 \in [LockNames -> LockObjects \cup {Nothing}]
    /\ l \in LockNames /\ Key(l) = k
    /\ ls2[l] \in LockObjects /\ ls2[l].st = "perm" /\ ls2[l].shared = byId[IdOf(l)]
    /\ (In(ls, l) /\ ls2[l].use = ls[l].use /\ ls[l].mask \subseteq ls2[l].mask) \/ ls[l] = Nothing
    /\ \A m \in LockNames \ {l} : ls2[m] = ls[m] \/ Gone(ls, ls2, m, k)
    /\ \A m \in LockNames \ {l} : Key(m) = k => ls2[m].st # "perm"

\* Writing one lock that is there, and its row, keeps the table.
LEMMA TouchStep ==
    ASSUME NEW ls, NEW ds, NEW rs, Table(ls, ds, rs),
           NEW l \in LockNames, In(ls, l), NEW x \in LockObjects,
           x.st = ls[l].st, x.shared = ls[l].shared, x.mask = ls[l].mask,
           NEW rs2 \in [Keys -> LockRows \cup {Nothing}],
           \A k \in Keys : k # Key(l) => rs2[k] = rs[k],
           x.st = "perm" => rs2[Key(l)] = RowOf(l, x),
           x.st # "perm" => rs2[Key(l)] = rs[Key(l)],
           NEW ls2, ls2 = [ls EXCEPT ![l] = x]
    PROVE  Table(ls2, ds, rs2)
<1>1. /\ ls \in [LockNames -> LockObjects \cup {Nothing}]
      /\ Registered(ls) /\ Sharing(ls, ds) /\ Single(ls) /\ RowsMatch(ls, rs) /\ Masks(ls, ds)
  BY DEF Table
<1>2. ls2[l] = x /\ \A m \in LockNames : m # l => ls2[m] = ls[m]
  BY <1>1
<1>3. ls2 \in [LockNames -> LockObjects \cup {Nothing}]
  BY <1>1
<1>4. ls[l] # Nothing /\ x # Nothing
  BY Somethings DEF In
<1>5. \A m \in LockNames : ls2[m] # Nothing => ls[m] # Nothing
  BY <1>2, <1>4
<1>6. \A m \in LockNames : ls2[m].st = ls[m].st /\ ls2[m].shared = ls[m].shared /\ ls2[m].mask = ls[m].mask
  BY <1>2
<1>7. Registered(ls2)
  BY <1>1, <1>5 DEF Registered
<1>8. Sharing(ls2, ds) /\ Single(ls2) /\ Masks(ls2, ds)
  BY <1>1, <1>6 DEF Sharing, Single, Masks, In
<1>9. RowsMatch(ls2, rs2)
  <2>1. ASSUME NEW k \in Keys, rs2[k] # Nothing
        PROVE  \E m \in LockNames : Key(m) = k /\ ls2[m].st = "perm"
    <3>1. CASE x.st = "perm" /\ k = Key(l)
      BY <1>2, <3>1
    <3>2. CASE ~(x.st = "perm" /\ k = Key(l))
      <4>1. rs[k] # Nothing
        BY <2>1, <3>2
      <4> QED
        BY <1>1, <1>6, <4>1 DEF RowsMatch
    <3> QED
      BY <3>1, <3>2
  <2>2. ASSUME NEW m \in LockNames, ls2[m].st = "perm"
        PROVE  rs2[Key(m)] = RowOf(m, ls2[m])
    <3>1. CASE m = l
      BY <1>2, <2>2, <3>1
    <3>2. CASE m # l
      <4>1. ls2[m] = ls[m] /\ ls[m].st = "perm" /\ rs[Key(m)] = RowOf(m, ls[m])
        BY <1>1, <1>2, <2>2, <3>2 DEF RowsMatch
      <4>2. CASE Key(m) # Key(l)
        BY <4>1, <4>2, Names
      <4>3. CASE Key(m) = Key(l)
        <5>1. x.st # "perm"
          BY <1>1, <3>2, <4>1, <4>3 DEF Single, In
        <5> QED
          BY <4>1, <4>3, <5>1
      <4> QED
        BY <4>2, <4>3
    <3> QED
      BY <3>1, <3>2
  <2> QED
    BY <2>1, <2>2 DEF RowsMatch
<1> QED
  BY <1>1, <1>3, <1>7, <1>8, <1>9 DEF Table

\* A lock that is settled, with its row, keeps the table.
LEMMA SettledStep ==
    ASSUME NEW ls, NEW ds, NEW rs, LockTable(ls, ds, rs),
           NEW k \in Keys, NEW l, NEW ls2, Settled(ls, ls2, k, l),
           \A i \in Ids : mapLock[i] # Nullptr => mapLock[i] \in LockNames,
           IdOf(l) \in used \cup stored,
           \A m \in LockNames : ls[m] # Nothing /\ IdOf(m) = IdOf(l) => Key(m)[2] = k[2],
           ds[byId[IdOf(l)]] # Nothing, ls2[l].mask \subseteq ds[byId[IdOf(l)]].mask,
           NEW rs2, rs2 = [rs EXCEPT ![k] = RowOf(l, ls2[l])], RowOf(l, ls2[l]) \in LockRows
    PROVE  LockTable(ls2, ds, rs2)
<1>1. /\ ls \in [LockNames -> LockObjects \cup {Nothing}] /\ rs \in [Keys -> LockRows \cup {Nothing}]
      /\ Registered(ls) /\ Sharing(ls, ds) /\ Single(ls) /\ RowsMatch(ls, rs) /\ Masks(ls, ds)
      /\ MapLocks(ls)
  BY DEF LockTable, Table
<1>2. /\ l \in LockNames /\ Key(l) = k /\ ls2[l].st = "perm" /\ ls2[l] # Nothing
      /\ ls2[l].shared = byId[IdOf(l)] /\ ls2 \in [LockNames -> LockObjects \cup {Nothing}]
  BY Somethings DEF Settled
<1>3. rs2[k] = RowOf(l, ls2[l]) /\ (\A j \in Keys : j # k => rs2[j] = rs[j])
      /\ rs2 \in [Keys -> LockRows \cup {Nothing}]
  BY <1>1
<1>4. ASSUME NEW m \in LockNames, m # l
      PROVE  /\ ls2[m] # Nothing => ls[m] # Nothing
             /\ In(ls2, m) => ls2[m] = ls[m]
             /\ In(ls2, m) /\ Key(m) = k => ls2[m].st # "perm"
             /\ Key(m) # k => ls2[m] = ls[m]
  BY <1>4, Somethings DEF Settled, Gone, In
<1>5. Registered(ls2)
  <2>1. \A m \in LockNames : ls2[m] # Nothing => IdOf(m) \in used \cup stored
    BY <1>1, <1>4 DEF Registered
  <2>2. ASSUME NEW m \in LockNames, NEW n \in LockNames, ls2[m] # Nothing, ls2[n] # Nothing, IdOf(m) = IdOf(n)
        PROVE  Key(m)[2] = Key(n)[2]
    <3>1. CASE m # l /\ n # l
      <4>1. ls[m] # Nothing /\ ls[n] # Nothing
        BY <1>4, <2>2, <3>1
      <4> QED
        BY <1>1, <2>2, <4>1 DEF Registered
    <3>2. CASE m = l /\ n # l
      BY <1>2, <1>4, <2>2, <3>2
    <3>3. CASE m # l /\ n = l
      BY <1>2, <1>4, <2>2, <3>3
    <3> QED
      BY <3>1, <3>2, <3>3
  <2> QED
    BY <2>1, <2>2 DEF Registered
<1>6. Sharing(ls2, ds)
  <2> SUFFICES ASSUME NEW m \in LockNames, In(ls2, m)
               PROVE  byId[IdOf(m)] = ls2[m].shared /\ ds[ls2[m].shared] # Nothing
    BY DEF Sharing
  <2>1. CASE m = l
    BY <1>2, <2>1
  <2>2. CASE m # l
    <3>1. ls2[m] = ls[m] /\ In(ls, m)
      BY <1>4, <2>2 DEF In
    <3> QED
      BY <1>1, <3>1 DEF Sharing
  <2> QED
    BY <2>1, <2>2
<1>7. Masks(ls2, ds)
  <2> SUFFICES ASSUME NEW m \in LockNames, In(ls2, m) PROVE ls2[m].mask \subseteq ds[ls2[m].shared].mask
    BY DEF Masks
  <2>1. CASE m = l
    BY <1>2, <2>1
  <2>2. CASE m # l
    <3>1. ls2[m] = ls[m] /\ In(ls, m)
      BY <1>4, <2>2 DEF In
    <3> QED
      BY <1>1, <3>1 DEF Masks
  <2> QED
    BY <2>1, <2>2
<1>8. Single(ls2)
  <2> SUFFICES ASSUME NEW m \in LockNames, NEW n \in LockNames, In(ls2, m), ls2[m].st = ls2[n].st,
                      Key(m) = Key(n), m # n
               PROVE  FALSE
    BY DEF Single
  <2>1. In(ls2, n)
    BY DEF In
  <2>2. CASE m # l /\ n # l
    <3>1. ls2[m] = ls[m] /\ ls2[n] = ls[n] /\ In(ls, m)
      BY <1>4, <2>1, <2>2 DEF In
    <3> QED
      BY <1>1, <3>1 DEF Single
  <2>3. CASE m = l
    BY <1>2, <1>4, <2>1, <2>3
  <2>4. CASE n = l
    BY <1>2, <1>4, <2>1, <2>4
  <2> QED
    BY <2>2, <2>3, <2>4
<1>9. RowsMatch(ls2, rs2)
  <2>1. ASSUME NEW j \in Keys, rs2[j] # Nothing
        PROVE  \E m \in LockNames : Key(m) = j /\ ls2[m].st = "perm"
    <3>1. CASE j = k
      BY <1>2, <3>1
    <3>2. CASE j # k
      <4>1. rs[j] # Nothing
        BY <1>3, <2>1, <3>2
      <4>2. PICK m \in LockNames : Key(m) = j /\ ls[m].st = "perm"
        BY <1>1, <4>1 DEF RowsMatch
      <4>3. ls2[m] = ls[m]
        BY <1>2, <1>4, <3>2, <4>2
      <4> QED
        BY <4>2, <4>3
    <3> QED
      BY <3>1, <3>2
  <2>2. ASSUME NEW m \in LockNames, ls2[m].st = "perm"
        PROVE  rs2[Key(m)] = RowOf(m, ls2[m])
    <3>1. CASE m = l
      BY <1>2, <1>3, <3>1
    <3>2. CASE m # l
      <4>1. In(ls2, m)
        BY <2>2 DEF In
      <4>2. ls2[m] = ls[m] /\ Key(m) # k /\ Key(m) \in Keys
        BY <1>4, <2>2, <3>2, <4>1, Names
      <4>3. rs[Key(m)] = RowOf(m, ls[m])
        BY <1>1, <2>2, <4>2 DEF RowsMatch
      <4> QED
        BY <1>3, <4>2, <4>3
    <3> QED
      BY <3>1, <3>2
  <2> QED
    BY <2>1, <2>2 DEF RowsMatch
<1>10. MapLocks(ls2)
  <2> SUFFICES ASSUME NEW i \in Ids, mapLock[i] # Nullptr
               PROVE  ls2[mapLock[i]] # Nothing /\ (In(ls2, mapLock[i]) => ls2[mapLock[i]].use)
    BY DEF MapLocks
  <2>1. PICK m : m = mapLock[i]
    OBVIOUS
  <2>2. ls[m] # Nothing /\ (In(ls, m) => ls[m].use)
    BY <1>1, <2>1 DEF MapLocks
  <2>3. CASE m = l
    <3>1. In(ls, l) /\ ls2[l].use = ls[l].use
      BY <2>2, <2>3 DEF Settled
    <3> QED
      BY <1>2, <2>1, <2>2, <2>3, <3>1
  <2>4. CASE m \in LockNames \ {l}
    <3>1. ls2[m] = ls[m] \/ Gone(ls, ls2, m, k)
      BY <2>4 DEF Settled
    <3> QED
      BY <2>1, <2>2, <3>1, Somethings DEF Gone, In
  <2> QED
    <3>1. mapLock[i] \in LockNames
      OBVIOUS
    <3> QED
      BY <2>1, <2>3, <2>4, <3>1
<1> QED
  BY <1>1, <1>2, <1>3, <1>5, <1>6, <1>7, <1>8, <1>9, <1>10 DEF LockTable, Table

-----------------------------------------------------------------------------
(* UpdateInstanceLockForPlayer.                                             *)

\* What the handlers pass from one player to the next.
States == [ls : [LockNames -> LockObjects \cup {Nothing}], rows : [Keys -> LockRows \cup {Nothing}],
           ok : BOOLEAN]

\* The lock that is replaced is the expired permanent one.
LEMMA WithoutIs ==
    ASSUME NEW ls \in [LockNames -> LockObjects \cup {Nothing}], NEW k \in Keys, ActivePerm(ls, k) = {},
           LTypeOK
    PROVE  /\ Without(ls, k) \in [LockNames -> LockObjects \cup {Nothing}]
           /\ \A m \in LockNames : ~(Key(m) = k /\ ls[m].st = "perm") => Without(ls, k)[m] = ls[m]
           /\ \A m \in LockNames : Key(m) = k /\ ls[m].st = "perm" =>
                Gone(ls, Without(ls, k), m, k) /\ Without(ls, k)[m].st # "perm"
<1> DEFINE W == Without(ls, k)
<1>1. W = [l \in LockNames |->
             IF l \notin Held(ls, k, "perm") THEN ls[l]
             ELSE IF \E i \in Ids : mapLock[i] = l THEN [ls[l] EXCEPT !.st = "freed"]
             ELSE Nothing]
  BY DEF Without
<1>2. ASSUME NEW m \in LockNames, ~(Key(m) = k /\ ls[m].st = "perm") PROVE W[m] = ls[m]
  BY <1>1, <1>2, HeldIs
<1>3. ASSUME NEW m \in LockNames, Key(m) = k, ls[m].st = "perm"
      PROVE  Gone(ls, W, m, k) /\ W[m].st # "perm" /\ W[m] \in LockObjects \cup {Nothing}
  <2>1. m \in Held(ls, k, "perm")
    BY <1>3, HeldIs
  <2>2. Expired(ls[m])
    BY <2>1 DEF ActivePerm
  <2>3. PICK lock \in LockObjects : lock = ls[m]
    BY <1>3, InIsObject DEF In
  <2>4. [lock EXCEPT !.st = "freed"] \in LockObjects /\ [lock EXCEPT !.st = "freed"].st = "freed"
    BY DEF LockObjects
  <2>5. CASE \E i \in Ids : mapLock[i] = m
    <3>1. W[m] = [lock EXCEPT !.st = "freed"]
      BY <1>1, <2>1, <2>3, <2>5
    <3> QED
      BY <1>3, <2>2, <2>4, <3>1 DEF Gone, Expired
  <2>6. CASE ~\E i \in Ids : mapLock[i] = m
    <3>1. W[m] = Nothing
      BY <1>1, <2>1, <2>6
    <3> QED
      BY <1>3, <2>2, <2>6, <3>1, Somethings DEF Gone, Expired
  <2> QED
    BY <2>5, <2>6
<1>4. \A m \in LockNames : W[m] \in LockObjects \cup {Nothing}
  BY <1>2, <1>3
<1>5. W \in [LockNames -> LockObjects \cup {Nothing}]
  BY <1>1, <1>4
<1> QED
  BY <1>2, <1>3, <1>5

\* The active lock, the temporary one or a new one is settled; it has done nothing else than
\* before.
LEMMA BoundIs ==
    ASSUME LTypeOK, Pointers, NEW ls, NEW ds, NEW rs, LockTable(ls, ds, rs),
           NEW k \in Keys, NEW id \in Ids, FreeNames(ls, k, id) # {},
           NEW b, b = Bound(ls, ds, k, id), b.ok
    PROVE  /\ IdOf(b.l) = id /\ Settled(ls, b.ls, k, b.l)
           /\ ds[byId[id]] # Nothing /\ b.ls[b.l].mask \subseteq ds[byId[id]].mask
           /\ ls[b.l] # Nothing \/ \E m \in LockNames : In(ls, m) /\ IdOf(m) = id
           /\ ls[b.l] # Nothing => b.ls[b.l].expiry = ls[b.l].expiry
<1> DEFINE s == byId[id]
           active == ActivePerm(ls, k)
           temp == Held(ls, k, "temp")
           fresh == The(FreeNames(ls, k, id))
           W == Without(ls, k)
<1>1. /\ ls \in [LockNames -> LockObjects \cup {Nothing}]
      /\ Sharing(ls, ds) /\ Single(ls) /\ Masks(ls, ds)
  BY DEF LockTable, Table
<1>2. CASE active # {}
  <2>1. PICK l : l = The(active)
    OBVIOUS
  <2>2. l \in active
    BY <1>2, <2>1 DEF The
  <2>3. l \in LockNames /\ Key(l) = k /\ ls[l].st = "perm" /\ In(ls, l) /\ ls[l] \in LockObjects
    BY <2>2, HeldIs, InIsObject, <1>1 DEF ActivePerm, In
  <2>4. ~(IdOf(l) = id /\ ls[l].shared = s) => b = [ls |-> ls, l |-> l, ok |-> FALSE]
    BY <1>2, <2>1 DEF Bound
  <2>4a. (IdOf(l) = id /\ ls[l].shared = s) => b = [ls |-> ls, l |-> l, ok |-> TRUE]
    BY <1>2, <2>1 DEF Bound
  <2>5. b.ls = ls /\ b.l = l /\ IdOf(l) = id /\ ls[l].shared = s
    <3>1. CASE ~(IdOf(l) = id /\ ls[l].shared = s)
      <4>1. b.ok = FALSE
        BY <2>4, <3>1
      <4> QED
        BY <4>1
    <3>2. CASE IdOf(l) = id /\ ls[l].shared = s
      <4>1. b.ls = ls /\ b.l = l
        BY <2>4a, <3>2
      <4> QED
        BY <3>2, <4>1
    <3> QED
      BY <3>1, <3>2
  <2>6. \A m \in LockNames \ {l} : Key(m) = k => ls[m].st # "perm"
    BY <1>1, <2>3 DEF Single, In
  <2>7. Settled(ls, ls, k, l)
    BY <1>1, <2>3, <2>5, <2>6 DEF Settled
  <2>8. ds[s] # Nothing /\ ls[l].mask \subseteq ds[s].mask
    BY <1>1, <2>3, <2>5 DEF Sharing, Masks
  <2> QED
    BY <2>3, <2>5, <2>7, <2>8
<1>3. CASE active = {} /\ temp # {}
  <2>1. PICK l : l = The(temp)
    OBVIOUS
  <2>2. l \in temp
    BY <1>3, <2>1 DEF The
  <2>3. l \in LockNames /\ Key(l) = k /\ ls[l].st = "temp" /\ In(ls, l) /\ ls[l] \in LockObjects
    BY <2>2, HeldIs, InIsObject, <1>1 DEF In
  <2>4. PICK ls2 : ls2 = [W EXCEPT ![l].st = "perm"]
    OBVIOUS
  <2>5. ~(IdOf(l) = id /\ ls[l].shared = s) => b = [ls |-> ls2, l |-> l, ok |-> FALSE]
    BY <1>3, <2>1, <2>4 DEF Bound
  <2>5a. (IdOf(l) = id /\ ls[l].shared = s) => b = [ls |-> ls2, l |-> l, ok |-> TRUE]
    BY <1>3, <2>1, <2>4 DEF Bound
  <2>6. b.ls = ls2 /\ b.l = l /\ IdOf(l) = id /\ ls[l].shared = s
    <3>1. CASE ~(IdOf(l) = id /\ ls[l].shared = s)
      <4>1. b.ok = FALSE
        BY <2>5, <3>1
      <4> QED
        BY <4>1
    <3>2. CASE IdOf(l) = id /\ ls[l].shared = s
      <4>1. b.ls = ls2 /\ b.l = l
        BY <2>5a, <3>2
      <4> QED
        BY <3>2, <4>1
    <3> QED
      BY <3>1, <3>2
  <2>7. /\ W \in [LockNames -> LockObjects \cup {Nothing}]
        /\ W[l] = ls[l]
        /\ \A m \in LockNames : W[m] = ls[m] \/ (Gone(ls, W, m, k) /\ W[m].st # "perm")
        /\ \A m \in LockNames : Key(m) = k => W[m].st # "perm"
    BY <1>1, <1>3, <2>3, WithoutIs
  <2> HIDE DEF W, active, temp
  <2>8. PICK lock, x : lock \in LockObjects /\ lock = ls[l] /\ x = [lock EXCEPT !.st = "perm"]
    BY <2>3
  <2>9. /\ x \in LockObjects /\ x.st = "perm" /\ x.use = lock.use /\ x.mask = lock.mask
        /\ x.shared = lock.shared /\ x.expiry = lock.expiry
    BY <2>8 DEF LockObjects
  <2>10. ls2[l] = x /\ ls2 \in [LockNames -> LockObjects \cup {Nothing}]
         /\ \A m \in LockNames : m # l => ls2[m] = W[m]
    BY <2>3, <2>4, <2>7, <2>8, <2>9
  <2>11. ASSUME NEW m \in LockNames, m # l
         PROVE  /\ ls2[m] = ls[m] \/ Gone(ls, ls2, m, k)
                /\ Key(m) = k => ls2[m].st # "perm"
    <3>1. ls2[m] = W[m]
      BY <2>10, <2>11
    <3> QED
      BY <2>7, <3>1 DEF Gone
  <2>12. Settled(ls, ls2, k, l)
    BY <2>3, <2>6, <2>8, <2>9, <2>10, <2>11 DEF Settled
  <2>13. ds[s] # Nothing /\ ls[l].mask \subseteq ds[s].mask
    BY <1>1, <2>3, <2>6 DEF Sharing, Masks
  <2> QED
    BY <2>3, <2>6, <2>8, <2>9, <2>10, <2>12, <2>13
<1>4. CASE active = {} /\ temp = {}
  <2>1. PICK l : l = fresh
    OBVIOUS
  <2>2. l \in LockNames /\ Key(l) = k /\ IdOf(l) = id /\ ls[l] = Nothing
    <3>1. l \in FreeNames(ls, k, id)
      BY <2>1 DEF The
    <3> QED
      BY <3>1, FreeIs
  <2>3. PICK ls2 : ls2 = [W EXCEPT ![l] = Lock("perm", s)]
    OBVIOUS
  <2>4. s # Nullptr /\ Holders(ls, s) # {}
    BY <1>4 DEF Bound
  <2>5. b = [ls |-> ls2, l |-> l, ok |-> TRUE]
    BY <1>4, <2>1, <2>3 DEF Bound
  <2>6. b.ls = ls2 /\ b.l = l
    BY <2>5
  <2>7. /\ W \in [LockNames -> LockObjects \cup {Nothing}]
        /\ \A m \in LockNames : W[m] = ls[m] \/ (Gone(ls, W, m, k) /\ W[m].st # "perm")
        /\ \A m \in LockNames : Key(m) = k => W[m].st # "perm"
    BY <1>1, <1>4, WithoutIs
  <2>8. PICK m \in LockNames : In(ls, m) /\ ls[m].shared = s
    BY <2>4 DEF Holders, In
  <2>9. byId[IdOf(m)] = s /\ ds[s] # Nothing
    BY <1>1, <2>8 DEF Sharing
  <2>10. IdOf(m) = id
    <3>1. IdOf(m) \in Ids
      BY Names
    <3> QED
      BY <2>4, <2>9, <3>1 DEF Pointers
  <2> HIDE DEF W, active, temp, fresh
  <2>11. PICK x : x = Lock("perm", s)
    OBVIOUS
  <2>12. x \in LockObjects /\ x.st = "perm" /\ x.mask = {} /\ x.shared = s
    <3>1. s \in DataNames /\ week \in Int
      BY <2>4 DEF LTypeOK
    <3> QED
      BY <2>11, <3>1 DEF Lock, LockObjects
  <2>13. ls2[l] = x /\ ls2 \in [LockNames -> LockObjects \cup {Nothing}]
         /\ \A n \in LockNames : n # l => ls2[n] = W[n]
    BY <2>2, <2>3, <2>7, <2>11, <2>12
  <2>14. ASSUME NEW n \in LockNames, n # l
         PROVE  /\ ls2[n] = ls[n] \/ Gone(ls, ls2, n, k)
                /\ Key(n) = k => ls2[n].st # "perm"
    <3>1. ls2[n] = W[n]
      BY <2>13, <2>14
    <3> QED
      BY <2>7, <3>1 DEF Gone
  <2>15. Settled(ls, ls2, k, l)
    BY <2>2, <2>12, <2>13, <2>14 DEF Settled
  <2> QED
    BY <2>2, <2>6, <2>8, <2>9, <2>10, <2>12, <2>13, <2>15
<1> QED
  BY <1>2, <1>3, <1>4

\* Settling one player's lock keeps what has not expired.
LEMMA SettledKept ==
    ASSUME LTypeOK, NEW ls \in [LockNames -> LockObjects \cup {Nothing}], NEW ds, Sharing(ls, ds),
           NEW k \in Keys, NEW l, NEW ls2, Settled(ls, ls2, k, l), ls2[l].expiry >= week
    PROVE  Kept(ls, ls2)
<1> SUFFICES ASSUME NEW m \in LockNames, In(ls, m), ls[m].expiry >= week
             PROVE  /\ In(ls2, m) /\ ls2[m].expiry >= week /\ ls2[m].shared = ls[m].shared
                    /\ ls[m].mask \subseteq ls2[m].mask
                    /\ ls[m].st = "perm" => ls2[m].st = "perm"
  BY DEF Kept
<1>1. CASE m = l
  <2>1. ls[l] # Nothing
    BY <1>1, Somethings DEF In
  <2> QED
    BY <1>1, <2>1 DEF Settled, Sharing, In
<1>2. CASE m # l
  <2>1. CASE ls2[m] = ls[m]
    BY <2>1 DEF In
  <2>2. CASE Gone(ls, ls2, m, k)
    <3>1. ls[m].expiry < week
      BY <2>2 DEF Gone
    <3>2. ls[m].expiry \in Int /\ week \in Int
      BY InIsObject DEF LTypeOK, LockObjects
    <3> QED
      BY <3>1, <3>2
  <2> QED
    BY <1>2, <2>1, <2>2 DEF Settled
<1> QED
  BY <1>1, <1>2

\* What is kept by two changes is kept by both.
LEMMA KeptTwice ==
    ASSUME NEW ls, NEW ls2, NEW ls3, Kept(ls, ls2), Kept(ls2, ls3)
    PROVE  Kept(ls, ls3)
<1> SUFFICES ASSUME NEW l \in LockNames, In(ls, l), ls[l].expiry >= week
             PROVE  /\ In(ls3, l) /\ ls3[l].expiry >= week /\ ls3[l].shared = ls[l].shared
                    /\ ls[l].mask \subseteq ls3[l].mask
                    /\ ls[l].st = "perm" => ls3[l].st = "perm"
  BY DEF Kept
<1>1. In(ls2, l) /\ ls2[l].expiry >= week /\ ls2[l].shared = ls[l].shared
      /\ ls[l].mask \subseteq ls2[l].mask
      /\ (ls[l].st = "perm" => ls2[l].st = "perm")
  BY DEF Kept
<1> QED
  BY <1>1 DEF Kept

\* UpdateInstanceLockForPlayer keeps the table and what has not expired, and changes only
\* the locks of the player for this raid.
LEMMA UpdateStep ==
    ASSUME LTypeOK, Pointers, NEW st \in States, NEW ds, NEW k \in Keys, NEW id \in Ids,
           <<k[2], id>> \in live, NEW mask \in SUBSET Encounters, mask \subseteq ds[byId[id]].mask,
           st.ok => LockTable(st.ls, ds, st.rows) /\ FreeNames(st.ls, k, id) # {},
           NEW r, r = UpdateInstanceLockForPlayer(st, ds, k, id, mask)
    PROVE  /\ r \in States
           /\ r.ok => /\ st.ok /\ LockTable(r.ls, ds, r.rows) /\ Kept(st.ls, r.ls)
                      /\ \A m \in LockNames : Key(m) # k => r.ls[m] = st.ls[m]
<1>1. PICK b, ls, rs : b = Bound(st.ls, ds, k, id) /\ ls = st.ls /\ rs = st.rows
  OBVIOUS
<1>2. CASE ~st.ok \/ ~b.ok
  <2>1. r = [st EXCEPT !.ok = FALSE]
    BY <1>1, <1>2 DEF UpdateInstanceLockForPlayer
  <2> QED
    BY <2>1 DEF States
<1>3. CASE st.ok /\ b.ok
  <2>1. LockTable(ls, ds, rs) /\ FreeNames(ls, k, id) # {}
    BY <1>1, <1>3
  <2>2. PICK l, ls1 : l = b.l /\ ls1 = b.ls
    OBVIOUS
  <2>3. b.ok
    BY <1>3
  <2>4. /\ IdOf(l) = id /\ Settled(ls, ls1, k, l)
        /\ ds[byId[id]] # Nothing /\ ls1[l].mask \subseteq ds[byId[id]].mask
        /\ ls[l] # Nothing \/ \E m \in LockNames : In(ls, m) /\ IdOf(m) = id
    BY <1>1, <2>1, <2>2, <2>3, BoundIs
  <2>5. l \in LockNames /\ Key(l) = k /\ ls1[l] \in LockObjects /\ ls1[l].st = "perm"
        /\ ls1 \in [LockNames -> LockObjects \cup {Nothing}]
    BY <2>4 DEF Settled
  <2>6. PICK lock, w, x :
           /\ lock \in LockObjects /\ lock = ls1[l]
           /\ w = [lock EXCEPT !.new = FALSE, !.mask = @ \cup mask] /\ x = Renewed(w)
    BY <2>5
  <2>7. /\ w \in LockObjects /\ w.st = lock.st /\ w.use = lock.use /\ w.shared = lock.shared
        /\ w.mask = lock.mask \cup mask
    BY <2>6 DEF LockObjects
  <2>8. /\ x \in LockObjects /\ x.st = lock.st /\ x.use = lock.use /\ x.shared = lock.shared
        /\ x.mask = lock.mask \cup mask /\ x.expiry >= week
    <3>1. week \in Int /\ w.expiry \in Int
      BY <2>7 DEF LTypeOK, LockObjects
    <3>2. CASE w.expiry < week
      <4>1. PICK n \in Int : n = week
        BY <3>1
      <4>2. x = [w EXCEPT !.expiry = n, !.ext = FALSE]
        BY <2>6, <3>2, <4>1 DEF Renewed, Expired
      <4>3. /\ x \in LockObjects /\ x.st = w.st /\ x.use = w.use /\ x.shared = w.shared
            /\ x.mask = w.mask /\ x.expiry = n
        BY <2>7, <4>2 DEF LockObjects
      <4>4. x.expiry >= week
        BY <4>1, <4>3
      <4> QED
        BY <2>7, <4>3, <4>4
    <3>3. CASE ~(w.expiry < week)
      <4>1. x = w
        BY <2>6, <3>3 DEF Renewed, Expired
      <4> QED
        BY <2>7, <3>1, <3>3, <4>1
    <3> QED
      BY <3>2, <3>3
  <2>9. PICK ls2, rs2 : ls2 = [ls1 EXCEPT ![l] = x] /\ rs2 = [rs EXCEPT ![k] = RowOf(l, x)]
    OBVIOUS
  <2>10. r = [ls |-> ls2, rows |-> rs2, ok |-> TRUE]
    <3>1. RowOf(l, x) = [id |-> id, expiry |-> x.expiry, ext |-> x.ext, mask |-> x.mask]
      BY <2>4 DEF RowOf
    <3>2. /\ x = Renewed([b.ls[b.l] EXCEPT !.new = FALSE, !.mask = @ \cup mask])
          /\ ls2 = [b.ls EXCEPT ![b.l] = x]
          /\ rs2 = [st.rows EXCEPT ![k] = [id |-> id, expiry |-> x.expiry, ext |-> x.ext, mask |-> x.mask]]
      BY <1>1, <2>2, <2>6, <2>9, <3>1
    <3> QED
      BY <1>1, <1>3, <3>2 DEF UpdateInstanceLockForPlayer
  <2>11. /\ ls2[l] = x /\ ls2 \in [LockNames -> LockObjects \cup {Nothing}]
         /\ \A m \in LockNames : m # l => ls2[m] = ls1[m]
    BY <2>5, <2>8, <2>9
  <2>12. Settled(ls, ls2, k, l)
    <3>1. ASSUME NEW m \in LockNames, m # l
          PROVE  /\ ls2[m] = ls[m] \/ Gone(ls, ls2, m, k)
                 /\ Key(m) = k => ls2[m].st # "perm"
      BY <2>4, <2>11, <3>1 DEF Settled, Gone
    <3> QED
      BY <2>4, <2>5, <2>6, <2>8, <2>11, <3>1 DEF Settled
  <2>13. RowOf(l, x) \in LockRows
    BY <2>4, <2>8 DEF RowOf, LockRows, LockObjects
  <2>14. /\ IdOf(l) \in used \cup stored
         /\ \A m \in LockNames : ls[m] # Nothing /\ IdOf(m) = IdOf(l) => Key(m)[2] = k[2]
    <3>1. Registered(ls) /\ MapLocks(ls)
      BY <2>1 DEF LockTable, Table
    <3>2. PICK n : n = mapLock[id]
      OBVIOUS
    <3>3. n # Nullptr /\ n \in LockNames /\ Key(n)[2] = k[2] /\ IdOf(n) = id
      <4>1. n # Nullptr /\ Key(n)[2] = k[2] /\ IdOf(n) = id
        BY <3>2 DEF Pointers
      <4> QED
        BY <3>2, <4>1 DEF LTypeOK
    <3>4. ls[n] # Nothing
      BY <3>1, <3>2, <3>3 DEF MapLocks
    <3> QED
      BY <2>4, <3>1, <3>3, <3>4 DEF Registered
  <2>15. LockTable(ls2, ds, rs2)
    <3>1. ls2[l].mask \subseteq ds[byId[id]].mask
      BY <2>4, <2>6, <2>8, <2>11
    <3>2. \A i \in Ids : mapLock[i] # Nullptr => mapLock[i] \in LockNames
      BY DEF LTypeOK
    <3>3. RowOf(l, ls2[l]) \in LockRows /\ rs2 = [rs EXCEPT ![k] = RowOf(l, ls2[l])]
      BY <2>9, <2>11, <2>13
    <3>4. ds[byId[IdOf(l)]] # Nothing /\ ls2[l].mask \subseteq ds[byId[IdOf(l)]].mask
      BY <2>4, <3>1
    <3> QED
      BY <2>1, <2>12, <2>14, <3>2, <3>3, <3>4, SettledStep
  <2>16. Kept(ls, ls2)
    <3>1. Sharing(ls, ds) /\ ls \in [LockNames -> LockObjects \cup {Nothing}]
      BY <2>1 DEF LockTable, Table
    <3> QED
      BY <2>8, <2>11, <2>12, <3>1, SettledKept
  <2>17. \A m \in LockNames : Key(m) # k => ls2[m] = ls[m]
    BY <2>12 DEF Settled, Gone
  <2>18. rs2 \in [Keys -> LockRows \cup {Nothing}]
    BY <2>15 DEF LockTable, Table
  <2> QED
    BY <1>1, <1>3, <2>10, <2>11, <2>15, <2>16, <2>17, <2>18 DEF States
<1> QED
  BY <1>2, <1>3

-----------------------------------------------------------------------------
(* InstanceMap::UpdateInstanceLock: one player after the other.             *)

\* The element a fold takes next.
Chosen(s) == CHOOSE x \in s : TRUE

\* The results after every subset of the players.
IsPartial(g, base, ds, d, id, mask, D) ==
    g = [s \in D |-> IF s = {} THEN base
                     ELSE UpdateInstanceLockForPlayer(g[s \ {Chosen(s)}], ds, <<Chosen(s), d>>, id, mask)]

\* Taking the chosen element out of a finite set leaves a smaller one.
LEMMA TakeChosen ==
    ASSUME NEW S, IsFiniteSet(S), NEW s \in SUBSET S, s # {}
    PROVE  /\ Chosen(s) \in s /\ s \ {Chosen(s)} \in SUBSET S
           /\ Cardinality(s) \in Nat
           /\ Cardinality(s \ {Chosen(s)}) = Cardinality(s) - 1
<1>1. Chosen(s) \in s
  BY DEF Chosen
<1>2. IsFiniteSet(s)
  BY FS_Subset
<1> QED
  BY <1>1, <1>2, FS_RemoveElement, FS_CardinalityType

\* The recursive function of the fold exists: it is built up by the size of the subsets.
LEMMA PartialExists ==
    ASSUME NEW S, IsFiniteSet(S), NEW base, NEW ds, NEW d, NEW id, NEW mask
    PROVE  \E g : IsPartial(g, base, ds, d, id, mask, SUBSET S)
<1> DEFINE Small(n) == {s \in SUBSET S : Cardinality(s) <= n}
           N == Cardinality(S)
           Good == {n \in Nat : \E g : IsPartial(g, base, ds, d, id, mask, Small(n))}
<1>1. /\ N \in Nat
      /\ \A s \in SUBSET S : IsFiniteSet(s) /\ Cardinality(s) \in Nat /\ Cardinality(s) <= N
  BY FS_CardinalityType, FS_Subset
<1>2. 0 \in Good
  <2>1. \A s \in Small(0) : s = {}
    BY <1>1, FS_EmptySet
  <2>2. IsPartial([s \in Small(0) |-> base], base, ds, d, id, mask, Small(0))
    BY <2>1 DEF IsPartial
  <2> QED
    BY <2>2
<1>3. ASSUME NEW n \in 0 .. N, n \in Good PROVE n + 1 \in Good
  <2>1. PICK g : IsPartial(g, base, ds, d, id, mask, Small(n))
    BY <1>3
  <2> DEFINE h == [s \in Small(n + 1) |->
                      IF s = {} THEN base
                      ELSE UpdateInstanceLockForPlayer(g[s \ {Chosen(s)}], ds, <<Chosen(s), d>>, id, mask)]
  <2>2. \A s \in Small(n) : s \in Small(n + 1)
    BY <1>1
  <2>3. \A s \in Small(n) : h[s] = g[s]
    <3> HIDE DEF Small
    <3> QED
      BY <2>1, <2>2 DEF IsPartial
  <2>4. \A s \in Small(n + 1) : s # {} => s \ {Chosen(s)} \in Small(n)
    BY TakeChosen
  <2>5. IsPartial(h, base, ds, d, id, mask, Small(n + 1))
    <3> HIDE DEF Small
    <3> QED
      BY <2>3, <2>4 DEF IsPartial
  <2>6. n + 1 \in Nat
    OBVIOUS
  <2> HIDE DEF Small, h
  <2> QED
    BY <2>5, <2>6
<1>4. N \in Good
  BY <1>1, <1>2, <1>3, UpTo
<1>5. Small(N) = SUBSET S
  BY <1>1
<1> QED
  BY <1>4, <1>5

\* A free name of a player's lock stays free until it is his turn.
LEMMA StillFree ==
    ASSUME NEW ls, NEW ls2, NEW k \in Keys, NEW id \in Ids,
           \A m \in LockNames : Key(m) = k => ls2[m] = ls[m]
    PROVE  FreeNames(ls2, k, id) = FreeNames(ls, k, id)
<1>1. \A n \in 1..MaxCopies : ls2[<<k, id, n>>] = ls[<<k, id, n>>]
  BY NameOf
<1>2. \A l \in {k} \X {id} \X (1..MaxCopies) :
         /\ ls2[l] = ls[l] /\ l[3] \in 1..MaxCopies
         /\ \A n \in 1..(l[3] - 1) : n \in 1..MaxCopies
  <2> SUFFICES ASSUME NEW l \in {k} \X {id} \X (1..MaxCopies)
               PROVE  /\ ls2[l] = ls[l] /\ l[3] \in 1..MaxCopies
                      /\ \A n \in 1..(l[3] - 1) : n \in 1..MaxCopies
    OBVIOUS
  <2>1. PICK c \in 1..MaxCopies : l = <<k, id, c>>
    OBVIOUS
  <2>2. MaxCopies \in Nat
    BY LockBoundsAssumption
  <2> QED
    BY <1>1, <2>1, <2>2
<1> QED
  BY <1>1, <1>2 DEF FreeNames

\* After each player of a raid the table and what has not expired are kept.
LEMMA PartlyUpdated ==
    ASSUME LTypeOK, Pointers, NEW ds, NEW d \in Dungeons, NEW id \in Ids, <<d, id>> \in live,
           NEW S \in SUBSET Players, NEW base \in States, base.ok, LockTable(base.ls, ds, base.rows),
           NEW mask \in SUBSET Encounters, mask \subseteq ds[byId[id]].mask,
           \A p \in S : FreeNames(base.ls, <<p, d>>, id) # {},
           NEW g, IsPartial(g, base, ds, d, id, mask, SUBSET S)
    PROVE  /\ g[S] \in States
           /\ g[S].ok => LockTable(g[S].ls, ds, g[S].rows) /\ Kept(base.ls, g[S].ls)
<1>1. IsFiniteSet(S)
  BY FS_Subset, LockBoundsAssumption
<1> DEFINE Untouched(s, ls) ==
             \A m \in LockNames : (\A p \in s : Key(m) # <<p, d>>) => ls[m] = base.ls[m]
           Fine(s, st) ==
             /\ st \in States
             /\ st.ok => LockTable(st.ls, ds, st.rows) /\ Kept(base.ls, st.ls) /\ Untouched(s, st.ls)
           Good == {s \in SUBSET S : Fine(s, g[s])}
<1>2. ASSUME NEW s \in SUBSET S, \A x \in s : s \ {x} \in Good PROVE s \in Good
  <2>1. CASE s = {}
    <3>1. g[s] = base
      BY <2>1 DEF IsPartial
    <3>2. Kept(base.ls, base.ls)
      BY DEF Kept
    <3> QED
      BY <3>1, <3>2
  <2>2. CASE s # {}
    <3>1. PICK c, u, st : c = Chosen(s) /\ u = s \ {c} /\ st = g[u]
      OBVIOUS
    <3>2. c \in s /\ c \in S /\ c \in Players /\ u \in SUBSET S
      BY <1>1, <2>2, <3>1, TakeChosen
    <3>3. PICK r : r = g[s] /\ r = UpdateInstanceLockForPlayer(st, ds, <<c, d>>, id, mask)
      BY <2>2, <3>1 DEF IsPartial
    <3>4. Fine(u, st)
      BY <1>2, <3>1, <3>2
    <3>5. PICK k \in Keys : k = <<c, d>> /\ k[2] = d
      BY <3>2, KeyOf
    <3>6. ASSUME st.ok PROVE FreeNames(st.ls, k, id) # {}
      <4>1. \A m \in LockNames : Key(m) = k => st.ls[m] = base.ls[m]
        <5> SUFFICES ASSUME NEW m \in LockNames, Key(m) = k PROVE st.ls[m] = base.ls[m]
          OBVIOUS
        <5>1. \A p \in u : Key(m) # <<p, d>>
          BY <3>1, <3>5
        <5> QED
          BY <3>4, <3>6, <5>1
      <4>2. FreeNames(st.ls, k, id) = FreeNames(base.ls, k, id)
        BY <4>1, StillFree
      <4> QED
        BY <3>2, <3>5, <4>2
    <3>7. /\ r \in States
          /\ r.ok => /\ st.ok /\ LockTable(r.ls, ds, r.rows) /\ Kept(st.ls, r.ls)
                     /\ \A m \in LockNames : Key(m) # k => r.ls[m] = st.ls[m]
      <4>1. st \in States /\ (st.ok => LockTable(st.ls, ds, st.rows) /\ FreeNames(st.ls, k, id) # {})
        BY <3>4, <3>6
      <4>2. r = UpdateInstanceLockForPlayer(st, ds, k, id, mask) /\ <<k[2], id>> \in live
        BY <3>3, <3>5
      <4> HIDE DEF Untouched, Fine, Good
      <4> QED
        BY <4>1, <4>2, UpdateStep
    <3>8. ASSUME r.ok PROVE Kept(base.ls, r.ls) /\ Untouched(s, r.ls)
      <4>1. st.ok /\ Kept(st.ls, r.ls) /\ (\A m \in LockNames : Key(m) # k => r.ls[m] = st.ls[m])
        BY <3>7, <3>8
      <4>2. Kept(base.ls, st.ls) /\ Untouched(u, st.ls)
        BY <3>4, <4>1
      <4>3. Kept(base.ls, r.ls)
        BY <4>1, <4>2, KeptTwice
      <4>4. ASSUME NEW m \in LockNames, \A p \in s : Key(m) # <<p, d>> PROVE r.ls[m] = base.ls[m]
        <5>1. Key(m) # k /\ \A p \in u : Key(m) # <<p, d>>
          BY <3>1, <3>2, <3>5, <4>4
        <5> QED
          BY <4>1, <4>2, <5>1
      <4> QED
        BY <4>3, <4>4
    <3> QED
      BY <3>3, <3>7, <3>8
  <2> QED
    BY <2>1, <2>2
<1> HIDE DEF Fine
<1>3. \A s \in SUBSET S : s \in Good
  <2> HIDE DEF Good
  <2> QED
    BY <1>1, <1>2, SubsetInduction
<1>4. Fine(S, g[S])
  BY <1>3
<1> QED
  BY <1>4 DEF Fine

\* Updating the locks of the players in a raid keeps the table and what has not expired.
LEMMA EveryoneUpdated ==
    ASSUME LTypeOK, Pointers, NEW ds, NEW key \in live, key[1] \in Dungeons, key[2] \in Ids,
           key = <<key[1], key[2]>>, LockTable(locks, ds, rows),
           NEW mask \in SUBSET Encounters, mask \subseteq ds[byId[key[2]]].mask,
           \A p \in Present(key) : FreeNames(locks, <<p, key[1]>>, key[2]) # {},
           NEW end, end = UpdateEveryone(ds, key, mask), end.ok
    PROVE  LockTable(end.ls, ds, end.rows) /\ Kept(locks, end.ls)
<1> DEFINE S == Present(key)
<1>1. S \in SUBSET Players /\ IsFiniteSet(S)
  BY FS_Subset, LockBoundsAssumption DEF Present
<1>2. PICK base : base = [ls |-> locks, rows |-> rows, ok |-> TRUE]
  OBVIOUS
<1>3. PICK d, id : d = key[1] /\ id = key[2]
  OBVIOUS
<1>4. end = (CHOOSE g : IsPartial(g, base, ds, d, id, mask, SUBSET S))[S]
  BY <1>2, <1>3 DEF UpdateEveryone, FoldSet, MapThenFoldSet, Chosen, IsPartial
<1>5. PICK g : end = g[S] /\ IsPartial(g, base, ds, d, id, mask, SUBSET S)
  BY <1>1, <1>4, PartialExists
<1>6. base \in States /\ base.ls = locks /\ base.rows = rows /\ base.ok
  BY <1>2 DEF States, LockTable, Table
<1>7. \A p \in S : FreeNames(base.ls, <<p, d>>, id) # {}
  BY <1>3, <1>6
<1>8. d \in Dungeons /\ id \in Ids /\ <<d, id>> \in live /\ mask \subseteq ds[byId[id]].mask
  BY <1>3
<1>9. LockTable(base.ls, ds, base.rows)
  BY <1>6
<1> QED
  BY <1>1, <1>5, <1>6, <1>7, <1>8, <1>9, PartlyUpdated

-----------------------------------------------------------------------------
(* Writing the lock table.                                                  *)

\* Data names are the data of their id.
LEMMA DataNameIs ==
    ASSUME NEW s \in DataNames PROVE s[1] \in Ids /\ s # Nullptr
<1>1. PICK i \in Ids, n \in 1..MaxCopies : s = <<i, n>>
  BY DEF DataNames
<1>2. s[1] = i
  BY <1>1
<1>3. <<i, n>> # << >>
  OBVIOUS
<1> QED
  BY <1>1, <1>2, <1>3 DEF Nullptr

\* Data that a lock holds is the one that the manager finds.
LEMMA HeldIsFound ==
    ASSUME LTypeOK, Pointers, NEW ls, NEW ds, Sharing(ls, ds), NEW s \in DataNames, NEW l \in Holders(ls, s)
    PROVE  byId[s[1]] = s /\ s[1] = IdOf(l) /\ ds[s] # Nothing /\ In(ls, l) /\ ls[l].shared = s
<1>1. l \in LockNames /\ In(ls, l) /\ ls[l].shared = s /\ IdOf(l) \in Ids
  BY Names DEF Holders, In
<1>2. byId[IdOf(l)] = s /\ ds[s] # Nothing
  BY <1>1 DEF Sharing
<1>3. s[1] = IdOf(l)
  BY <1>1, <1>2, DataNameIs DEF Pointers
<1> QED
  BY <1>1, <1>2, <1>3

\* The table as it is after a step that leaves the data, the ids and the maps alone.
LEMMA TableFrame ==
    ASSUME NEW ls, NEW rs, Table(ls, data, rs), locks' = ls, rows' = rs,
           UNCHANGED <<data, byId>>, used \cup stored \subseteq used' \cup stored'
    PROVE  Table(locks, data, rows)'
<1>1. /\ ls \in [LockNames -> LockObjects \cup {Nothing}] /\ rs \in [Keys -> LockRows \cup {Nothing}]
      /\ Registered(ls) /\ Sharing(ls, data) /\ Single(ls) /\ RowsMatch(ls, rs) /\ Masks(ls, data)
  BY DEF Table
<1>2. Registered(locks)'
  BY <1>1 DEF Registered
<1>3. Sharing(locks, data)'
  BY <1>1 DEF Sharing, In
<1>4. Single(locks)' /\ RowsMatch(locks, rows)' /\ Masks(locks, data)'
  BY <1>1 DEF Single, RowsMatch, Masks, In
<1> QED
  BY <1>1, <1>2, <1>3, <1>4 DEF Table

\* The tables can be loaded at any time; a saved boss is dead in the table of the instances.
LEMMA CanLoad ==
    ASSUME LockInv
    PROVE  /\ Loadable(rows, inst)
           /\ \A k \in Keys : rows[k] # Nothing => rows[k].id \in used \cup stored
           /\ \A k \in Keys : rows[k] # Nothing /\ rows[k].mask # {} =>
                inst[rows[k].id] # Nothing /\ rows[k].mask \subseteq inst[rows[k].id].mask
<1>1. /\ LTypeOK /\ Pointers /\ locks \in [LockNames -> LockObjects \cup {Nothing}]
      /\ Registered(locks) /\ Sharing(locks, data) /\ RowsMatch(locks, rows) /\ Masks(locks, data)
      /\ DataTable(data, inst)
  BY DEF LockInv, LockTable, Table
<1>2. ASSUME NEW k \in Keys, rows[k] # Nothing
      PROVE  \E l \in LockNames :
                /\ Key(l) = k /\ locks[l] # Nothing /\ rows[k].id = IdOf(l)
                /\ IdOf(l) \in used \cup stored
                /\ rows[k].mask # {} => inst[IdOf(l)] # Nothing
                /\ inst[IdOf(l)] # Nothing => rows[k].mask \subseteq inst[IdOf(l)].mask
  <2>1. PICK l \in LockNames : Key(l) = k /\ locks[l].st = "perm"
    BY <1>1, <1>2 DEF RowsMatch
  <2>2. In(locks, l) /\ locks[l] \in LockObjects /\ locks[l] # Nothing /\ rows[k] = RowOf(l, locks[l])
    BY <1>1, <2>1, InIsObject, Somethings DEF In, RowsMatch
  <2>3. rows[k].id = IdOf(l) /\ rows[k].mask = locks[l].mask
    BY <2>2 DEF RowOf
  <2>11. IdOf(l) \in used \cup stored
    BY <1>1, <2>2 DEF Registered
  <2>4. PICK s : s = locks[l].shared
    OBVIOUS
  <2>5. s \in DataNames /\ l \in Holders(locks, s)
    BY <2>1, <2>2, <2>4 DEF LockObjects, Holders
  <2>6. s[1] = IdOf(l) /\ data[s] # Nothing
    BY <1>1, <2>5, HeldIsFound
  <2>7. locks[l].mask \subseteq data[s].mask
    BY <1>1, <2>2, <2>4 DEF Masks
  <2>8. \/ data[s].mask = {}
        \/ inst[IdOf(l)] = [mask |-> data[s].mask]
    BY <1>1, <2>5, <2>6 DEF DataTable
  <2>9. CASE data[s].mask = {}
    BY <2>1, <2>2, <2>3, <2>7, <2>9, <2>11
  <2>10. CASE inst[IdOf(l)] = [mask |-> data[s].mask]
    <3>1. inst[IdOf(l)].mask = data[s].mask /\ inst[IdOf(l)] # Nothing
      BY <2>10 DEF Nothing
    <3> QED
      BY <2>1, <2>2, <2>3, <2>7, <2>11, <3>1
  <2> QED
    BY <2>8, <2>9, <2>10
<1>3. ASSUME NEW k \in Keys, NEW j \in Keys, rows[k] # Nothing, rows[j] # Nothing, rows[k].id = rows[j].id
      PROVE  k[2] = j[2]
  <2>1. PICK l \in LockNames : Key(l) = k /\ locks[l] # Nothing /\ rows[k].id = IdOf(l)
    BY <1>2, <1>3
  <2>2. PICK m \in LockNames : Key(m) = j /\ locks[m] # Nothing /\ rows[j].id = IdOf(m)
    BY <1>2, <1>3
  <2> QED
    BY <1>1, <1>3, <2>1, <2>2 DEF Registered
<1>4. ASSUME NEW k \in Keys, rows[k] # Nothing
      PROVE  /\ rows[k].id \in used \cup stored
             /\ rows[k].mask # {} => inst[rows[k].id] # Nothing
             /\ inst[rows[k].id] # Nothing => rows[k].mask \subseteq inst[rows[k].id].mask
  BY <1>2, <1>4
<1>5. rows \in [Keys -> LockRows \cup {Nothing}] /\ inst \in [Ids -> InstanceRows \cup {Nothing}]
  BY <1>1 DEF LTypeOK
<1> QED
  BY <1>3, <1>4, <1>5 DEF Loadable

\* A state stays one that the tables may pass.
LEMMA PassStays ==
    ASSUME NEW t, NEW taken, NEW ptr, NEW taken2, NEW ptr2, Passable(t, taken, ptr), taken \subseteq taken2,
           \A i \in Ids : i \in taken /\ ptr[i] = Nullptr => ptr2[i] = Nullptr
    PROVE  Passable(t, taken2, ptr2)
<1>1. ASSUME NEW k \in Keys, t.rows[k] # Nothing PROVE t.rows[k].id \in Ids /\ t.rows[k].id \in taken
  BY <1>1 DEF Passable, Loadable, LockRows
<1> QED
  BY <1>1 DEF Passable

\* The tables are such a state, and so are they without instances nobody holds any more.
LEMMA PassTables ==
    ASSUME LockInv, NEW t \in TableStates, t.rows = rows, NEW taken, used \cup stored \subseteq taken, NEW ptr,
           \A i \in Ids : t.inst[i] = inst[i] \/ (t.inst[i] = Nothing /\ ptr[i] = Nullptr)
    PROVE  Passable(t, taken, ptr)
<1>1. /\ Loadable(rows, inst)
      /\ \A k \in Keys : rows[k] # Nothing => rows[k].id \in used \cup stored
      /\ \A k \in Keys : rows[k] # Nothing /\ rows[k].mask # {} => inst[rows[k].id] # Nothing
  BY CanLoad
<1>2. \A k \in Keys : rows[k] # Nothing => rows[k].id \in Ids
  BY <1>1 DEF Loadable, LockRows
<1>3. t.inst \in [Ids -> InstanceRows \cup {Nothing}]
  BY DEF TableStates
<1>4. Loadable(t.rows, t.inst)
  BY <1>1, <1>2, <1>3 DEF Loadable
<1> QED
  BY <1>1, <1>2, <1>4 DEF Passable

\* What a starting server reads is such a state.
LEMMA DiskIs ==
    ASSUME LockInv
    PROVE  Passable(Disk, used \cup stored, byId) /\ posted \in Seq(TableStates)
<1>1. posted \in Seq(TableStates) /\ rows \in [Keys -> LockRows \cup {Nothing}]
      /\ inst \in [Ids -> InstanceRows \cup {Nothing}] /\ Pending
  BY DEF LockInv, LTypeOK
<1>2. CASE posted = <<>>
  <2>1. PICK t : t = Tables
    OBVIOUS
  <2>2. t \in TableStates /\ t.rows = rows /\ t.inst = inst
    BY <1>1, <2>1 DEF Tables, TableStates
  <2>3. Passable(t, used \cup stored, byId)
    BY <2>2, PassTables
  <2> QED
    BY <1>1, <1>2, <2>1, <2>3 DEF Disk
<1>3. CASE posted # <<>>
  <2>1. 1 \in 1..Len(posted) /\ Head(posted) = posted[1]
    BY <1>1, <1>3
  <2> QED
    BY <1>1, <1>3, <2>1 DEF Disk, Pending
<1> QED
  BY <1>2, <1>3

\* What a handler posts comes after what is posted.
LEMMA PendingStep ==
    ASSUME LockInv, used \cup stored \subseteq used' \cup stored',
           \A i \in Ids : i \in used \cup stored /\ byId[i] = Nullptr => byId'[i] = Nullptr,
           NEW before \in Seq(TableStates), posted' = posted \o before,
           \A n \in 1..Len(before) : Passable(before[n], used' \cup stored', byId')
    PROVE  posted' \in Seq(TableStates) /\ Pending'
<1>1. posted \in Seq(TableStates) /\ Pending
  BY DEF LockInv, LTypeOK
<1>2. PICK p : p = posted
  OBVIOUS
<1>3. /\ p \o before \in Seq(TableStates) /\ Len(p \o before) = Len(p) + Len(before)
      /\ \A n \in 1..(Len(p) + Len(before)) :
            (p \o before)[n] = IF n <= Len(p) THEN p[n] ELSE before[n - Len(p)]
  BY <1>1, <1>2, ConcatProperties
<1>4. ASSUME NEW n \in 1..Len(posted')
      PROVE  Passable(posted'[n], used' \cup stored', byId')
  <2>1. Len(p) \in Nat /\ Len(before) \in Nat
    BY <1>1, <1>2
  <2>2. CASE n <= Len(p)
    <3>1. n \in 1..Len(posted) /\ posted'[n] = posted[n]
      BY <1>2, <1>3, <1>4, <2>1, <2>2
    <3>2. PICK t : t = posted[n]
      OBVIOUS
    <3>3. Passable(t, used \cup stored, byId)
      BY <1>1, <3>1, <3>2 DEF Pending
    <3>4. Passable(t, used' \cup stored', byId')
      BY <3>3, PassStays
    <3> QED
      BY <3>1, <3>2, <3>4
  <2>3. CASE n > Len(p)
    <3>1. n - Len(p) \in 1..Len(before) /\ posted'[n] = before[n - Len(p)]
      BY <1>2, <1>3, <1>4, <2>1, <2>3
    <3> QED
      BY <3>1
  <2> QED
    BY <2>1, <2>2, <2>3
<1> QED
  BY <1>2, <1>3, <1>4 DEF Pending

\* Nothing is posted.
LEMMA PendingSame ==
    ASSUME LockInv, used \cup stored \subseteq used' \cup stored', posted' = posted,
           \A i \in Ids : i \in used \cup stored /\ byId[i] = Nullptr => byId'[i] = Nullptr
    PROVE  posted' \in Seq(TableStates) /\ Pending'
<1>1. posted \in Seq(TableStates) /\ Pending
  BY DEF LockInv, LTypeOK
<1>2. ASSUME NEW n \in 1..Len(posted) PROVE Passable(posted[n], used' \cup stored', byId')
  <2>1. PICK t : t = posted[n]
    OBVIOUS
  <2>2. Passable(t, used \cup stored, byId)
    BY <1>1, <2>1 DEF Pending
  <2>3. Passable(t, used' \cup stored', byId')
    BY <2>2, PassStays
  <2> QED
    BY <2>1, <2>3
<1> QED
  BY <1>1, <1>2 DEF Pending

\* What SetToSeq makes of a set of ids lists nothing else.
LEMMA Listed ==
    ASSUME NEW ids, ids \subseteq Ids
    PROVE  LET order == SetToSeq(ids) IN Len(order) \in Nat /\ \A m \in 1..Len(order) : order[m] \in ids
<1> DEFINE order == SetToSeq(ids)
<1>1. 1 \in Int /\ MaxId \in Int
  BY BoundsAssumption
<1>2. IsFiniteSet(ids)
  BY <1>1, FS_Interval, FS_Subset DEF Ids
<1>3. PICK n : n = Cardinality(ids)
  OBVIOUS
<1>4. n \in Nat /\ ExistsBijection(1..n, ids)
  BY <1>2, <1>3, FS_CardinalityType
<1>5. \E f \in [1..n -> ids] : IsInjective(f)
  BY <1>4 DEF ExistsBijection, Bijection, Injection, Surjection, IsInjective
<1>6. order \in [1..n -> ids]
  BY <1>3, <1>5 DEF SetToSeq
<1> HIDE DEF order
<1>7. Len(order) = n
  BY <1>4, <1>6
<1> QED
  BY <1>4, <1>6, <1>7 DEF order

\* The handler ends; what is deleted with the data nobody holds belongs to no lock.
LEMMA CommitStep ==
    ASSUME LockInv, NEW ls, NEW ds, NEW rs, NEW ins, NEW pending \in [Players -> Ids \cup {0}],
           LockTable(ls, ds, rs), DataTable(ds, ins), Commit(ls, ds, rs, ins, pending)
    PROVE  LockInv'
<1> DEFINE gone == Dropped(ls, ds)
           ids == DroppedIds(ls, ds)
<1>1. /\ LTypeOK /\ Pool /\ Pointers
      /\ ls \in [LockNames -> LockObjects \cup {Nothing}] /\ rs \in [Keys -> LockRows \cup {Nothing}]
      /\ Registered(ls) /\ Sharing(ls, ds) /\ Single(ls) /\ RowsMatch(ls, rs) /\ Masks(ls, ds) /\ MapLocks(ls)
  BY DEF LockInv, LockTable, Table
<1>2. /\ SetLocks(ls, ds) /\ rows' = rs /\ inst' = Less(ins, ids) /\ bind' = pending
      /\ UNCHANGED <<vars, mapLock, expire, week, failed>>
  BY DEF Commit
<1>3. LockInv'
  <2>1. /\ locks' = ls /\ data' = [s \in DataNames |-> IF s \in gone THEN Nothing ELSE ds[s]]
        /\ byId' = [i \in Ids |-> IF i \in ids THEN Nullptr ELSE byId[i]]
    BY <1>2 DEF SetLocks
  <2>2. /\ rows' = rs /\ inst' = [i \in Ids |-> IF i \in ids THEN Nothing ELSE ins[i]] /\ bind' = pending
        /\ UNCHANGED <<vars, mapLock, expire, week, failed>>
    BY <1>2 DEF Less
  <2>3. \A s \in DataNames : s \in gone <=> ds[s] # Nothing /\ Holders(ls, s) = {}
    BY DEF Dropped
  <2>4. \A i \in ids : i \in Ids /\ byId[i] \in gone
    BY DEF DroppedIds
  <2>5. /\ ds \in [DataNames -> DataObjects \cup {Nothing}]
        /\ ins \in [Ids -> InstanceRows \cup {Nothing}]
        /\ \A s \in DataNames : ds[s] # Nothing =>
              \/ ds[s].id = 0 /\ ds[s].mask = {}
              \/ ds[s].id = s[1] /\ ins[s[1]] = [mask |-> ds[s].mask]
    BY DEF DataTable
  <2> HIDE DEF gone, ids
  <2>6. ASSUME NEW s \in DataNames, data'[s] # Nothing
        PROVE  /\ Holders(ls, s) # {} /\ data'[s] = ds[s] /\ ds[s] # Nothing
               /\ s[1] \in Ids /\ s[1] \notin ids /\ byId[s[1]] = s
    <3>1. s \notin gone /\ data'[s] = ds[s] /\ ds[s] # Nothing
      BY <2>1, <2>6
    <3>2. PICK l : l \in Holders(ls, s)
      BY <2>3, <3>1
    <3>3. byId[s[1]] = s /\ s[1] \in Ids
      BY <1>1, <3>2, HeldIsFound, DataNameIs
    <3> QED
      BY <2>4, <3>1, <3>2, <3>3
  <2>7. ASSUME NEW l \in LockNames, In(ls, l)
        PROVE  /\ IdOf(l) \in Ids /\ ls[l].shared \in DataNames
               /\ byId'[IdOf(l)] = byId[IdOf(l)] /\ data'[ls[l].shared] = ds[ls[l].shared]
    <3>1. PICK s : s = ls[l].shared
      OBVIOUS
    <3>2. s \in DataNames /\ l \in Holders(ls, s)
      BY <1>1, <2>7, <3>1, InIsObject DEF LockObjects, Holders, In
    <3>3. s \notin gone /\ byId[s[1]] = s /\ s[1] = IdOf(l)
      BY <1>1, <2>3, <3>2, HeldIsFound
    <3>4. IdOf(l) \in Ids /\ IdOf(l) \notin ids
      BY <2>4, <3>3, Names
    <3> QED
      BY <2>1, <3>1, <3>2, <3>3, <3>4
  <2>8. UNCHANGED <<size, used, next, stored, live, timed, inside, recent, mapLock, expire, week, failed>>
    BY <2>2 DEF vars, pool, clients
  <2>9. Registered(locks)'
    BY <1>1, <2>1, <2>8 DEF Registered
  <2>10. Sharing(locks, data)'
    <3> SUFFICES ASSUME NEW l \in LockNames, In(ls, l)
                 PROVE  byId'[IdOf(l)] = ls[l].shared /\ data'[ls[l].shared] # Nothing
      BY <2>1 DEF Sharing, In
    <3> QED
      BY <1>1, <2>7 DEF Sharing
  <2>11. Masks(locks, data)'
    <3> SUFFICES ASSUME NEW l \in LockNames, In(ls, l) PROVE ls[l].mask \subseteq data'[ls[l].shared].mask
      BY <2>1 DEF Masks, In
    <3> QED
      BY <1>1, <2>7 DEF Masks
  <2>12. Single(locks)' /\ RowsMatch(locks, rows)' /\ MapLocks(locks)'
    BY <1>1, <2>1, <2>2, <2>8 DEF Single, RowsMatch, MapLocks, In
  <2>13. LockTable(locks, data, rows)'
    BY <1>1, <2>1, <2>2, <2>9, <2>10, <2>11, <2>12 DEF LockTable, Table
  <2>14. DataTable(data, inst)'
    <3>1. data' \in [DataNames -> DataObjects \cup {Nothing}] /\ inst' \in [Ids -> InstanceRows \cup {Nothing}]
      BY <2>1, <2>2, <2>5
    <3>2. ASSUME NEW s \in DataNames, data'[s] # Nothing
          PROVE  \/ data'[s].id = 0 /\ data'[s].mask = {}
                 \/ data'[s].id = s[1] /\ inst'[s[1]] = [mask |-> data'[s].mask]
      BY <2>2, <2>5, <2>6, <3>2
    <3> QED
      BY <3>1, <3>2 DEF DataTable
  <2>15. NoOrphans(locks, data)'
    <3>1. \A s \in DataNames : data'[s] # Nothing => Holders(locks', s) # {}
      BY <2>1, <2>6
    <3> QED
      BY <3>1 DEF NoOrphans, Holders
  <2>16. Pointers'
    <3>1. \A i \in Ids : byId'[i] # Nullptr => byId'[i][1] = i
      BY <1>1, <2>1 DEF Pointers
    <3> QED
      BY <1>1, <2>8, <3>1 DEF Pointers
  <2>17. Pool'
    BY <1>1, <2>8 DEF Pool, NextIsLowestFree
  <2>18. posted' \in Seq(TableStates) /\ Pending'
    <3>1. PICK order : order = SetToSeq(ids)
      OBVIOUS
    <3>2. ids \subseteq Ids /\ used \cup stored \subseteq used' \cup stored'
      BY <2>4, <2>8
    <3>3. Len(order) \in Nat /\ \A m \in 1..Len(order) : order[m] \in ids
      BY <3>1, <3>2, Listed
    <3>4. PICK before : before = [n \in 1..(Len(order) + 1) |->
                          [rows |-> rows, inst |-> Less(inst, {order[m] : m \in 1..(n - 1)})]]
      OBVIOUS
    <3>5. posted' = posted \o before
      BY <3>1, <3>4 DEF Commit, Post, ids
    <3>6. ASSUME NEW n \in 1..(Len(order) + 1)
          PROVE  before[n] \in TableStates /\ Passable(before[n], used' \cup stored', byId')
      <4>1. PICK t : t = before[n]
        OBVIOUS
      <4>2. PICK passed : passed = {order[m] : m \in 1..(n - 1)}
        OBVIOUS
      <4>3. passed \subseteq ids
        BY <3>3, <3>6, <4>2
      <4>4. t.rows = rows /\ t.inst = Less(inst, passed) /\ t = [rows |-> rows, inst |-> t.inst]
        BY <3>4, <4>1, <4>2
      <4>5. /\ rows \in [Keys -> LockRows \cup {Nothing}]
            /\ inst \in [Ids -> InstanceRows \cup {Nothing}]
        BY <1>1 DEF LTypeOK
      <4>6. t.inst = [i \in Ids |-> IF i \in passed THEN Nothing ELSE inst[i]]
        BY <4>4 DEF Less
      <4>7. t.inst \in [Ids -> InstanceRows \cup {Nothing}]
        BY <4>5, <4>6
      <4>8. t \in TableStates
        BY <4>4, <4>5, <4>7 DEF TableStates
      <4>9. \A i \in Ids : t.inst[i] = inst[i] \/ (t.inst[i] = Nothing /\ byId'[i] = Nullptr)
        BY <2>1, <4>3, <4>6
      <4>10. PICK taken, ptr : taken = used' \cup stored' /\ ptr = byId'
        OBVIOUS
      <4>11. Passable(t, taken, ptr)
        BY <3>2, <4>4, <4>8, <4>9, <4>10, PassTables
      <4> QED
        BY <4>1, <4>8, <4>10, <4>11
    <3>7. Len(before) = Len(order) + 1 /\ before \in Seq(TableStates)
      BY <3>3, <3>4, <3>6
    <3>8. \A i \in Ids : byId[i] = Nullptr => byId'[i] = Nullptr
      BY <2>1
    <3> QED
      BY <3>2, <3>5, <3>6, <3>7, <3>8, PendingStep
  <2>19. LTypeOK'
    <3>1. TypeOK'
      BY <1>1, <2>8 DEF LTypeOK, TypeOK
    <3>2. byId' \in [Ids -> DataNames \cup {Nullptr}]
      BY <1>1, <2>1 DEF LTypeOK
    <3>3. data' \in [DataNames -> DataObjects \cup {Nothing}] /\ inst' \in [Ids -> InstanceRows \cup {Nothing}]
      BY <2>14 DEF DataTable
    <3> QED
      BY <1>1, <2>1, <2>2, <2>8, <2>18, <3>1, <3>2, <3>3 DEF LTypeOK
  <2> QED
    BY <2>13, <2>14, <2>15, <2>16, <2>17, <2>18, <2>19 DEF LockInv
<1> QED
  BY <1>3

-----------------------------------------------------------------------------
(* The steps.                                                               *)

\* A live map has its lock; its id is in the range of the ids.
LEMMA LiveIs ==
    ASSUME LockInv, NEW key \in live
    PROVE  /\ key[2] \in Ids /\ key[1] \in Dungeons /\ key = <<key[1], key[2]>>
           /\ mapLock[key[2]] # Nullptr /\ mapLock[key[2]] \in LockNames
           /\ IdOf(mapLock[key[2]]) = key[2] /\ Key(mapLock[key[2]])[2] = key[1]
<1>1. LTypeOK /\ Pointers
  BY DEF LockInv
<1>2. key \in Dungeons \X Nat
  BY <1>1 DEF LTypeOK, TypeOK
<1>3. key[2] \in Ids /\ mapLock[key[2]] # Nullptr /\ Key(mapLock[key[2]])[2] = key[1]
  BY <1>1 DEF Pointers
<1>4. mapLock[key[2]] \in LockNames /\ IdOf(mapLock[key[2]]) = key[2]
  BY <1>1, <1>3 DEF LTypeOK, Pointers
<1> QED
  BY <1>2, <1>3, <1>4

\* The server goes down.
LEMMA FailStep ==
    ASSUME LockInv, NEW why \in {"no", "assert", "freed"}, GoDown(why)
    PROVE  LockInv'
<1>1. PICK t : t = Disk
  OBVIOUS
<1>2. Loadable(t.rows, t.inst)
  BY <1>1, DiskIs DEF Passable
<1>3. Load(t.rows, t.inst, why)
  BY <1>1 DEF GoDown
<1> QED
  BY <1>2, <1>3, LoadInv DEF LockInv

\* A step that leaves the tables, the data and the ids alone.
LEMMA Frame ==
    ASSUME LockInv, UNCHANGED <<locks, data, byId, rows, inst, posted, mapLock, live>>,
           used \cup stored \subseteq used' \cup stored', Pool',
           TypeOK', expire' \in [Ids -> Int], bind' \in [Players -> Ids \cup {0}], week' \in Nat,
           failed' = failed
    PROVE  LockInv'
<1>1. /\ LTypeOK /\ Pointers /\ Table(locks, data, rows) /\ MapLocks(locks) /\ DataTable(data, inst)
      /\ NoOrphans(locks, data)
  BY DEF LockInv, LockTable
<1>2. Table(locks, data, rows)'
  BY <1>1, TableFrame
<1>3. MapLocks(locks)'
  BY <1>1 DEF MapLocks, In
<1>4. DataTable(data, inst)' /\ NoOrphans(locks, data)'
  BY <1>1 DEF DataTable, NoOrphans, Holders
<1>5. Pointers'
  BY <1>1 DEF Pointers
<1>6. posted' \in Seq(TableStates) /\ Pending'
  BY PendingSame
<1>7. LTypeOK'
  BY <1>1, <1>6 DEF LTypeOK
<1> QED
  BY <1>2, <1>3, <1>4, <1>5, <1>6, <1>7 DEF LockInv, LockTable

\* A step that changes lock objects and rows only.
LEMMA TouchFrame ==
    ASSUME LockInv, NEW l \in LockNames, In(locks, l), NEW x \in LockObjects,
           x.st = locks[l].st, x.shared = locks[l].shared, x.mask = locks[l].mask, x.use = locks[l].use,
           NEW rs2 \in [Keys -> LockRows \cup {Nothing}],
           \A k \in Keys : k # Key(l) => rs2[k] = rows[k],
           x.st = "perm" => rs2[Key(l)] = RowOf(l, x),
           x.st # "perm" => rs2[Key(l)] = rows[Key(l)],
           locks' = [locks EXCEPT ![l] = x], rows' = rs2,
           Post(<<Tables>>), UNCHANGED <<vars, data, byId, world, inst, failed>>
    PROVE  LockInv'
<1>1. /\ LTypeOK /\ Pool /\ Pointers /\ Table(locks, data, rows) /\ MapLocks(locks)
      /\ DataTable(data, inst) /\ NoOrphans(locks, data)
  BY DEF LockInv, LockTable
<1>2. UNCHANGED <<size, used, next, stored, live, timed, inside, recent, data, byId, mapLock, expire, bind,
                  week, inst, failed>>
  BY DEF vars, pool, clients, world
<1>3. locks \in [LockNames -> LockObjects \cup {Nothing}]
  BY <1>1 DEF Table
<1>4. locks'[l] = x /\ \A m \in LockNames : m # l => locks'[m] = locks[m]
  BY <1>3
<1>5. PICK ls2 : ls2 = [locks EXCEPT ![l] = x]
  OBVIOUS
<1>6. Table(ls2, data, rs2)
  BY <1>1, <1>5, TouchStep
<1>7. Table(locks, data, rows)'
  BY <1>2, <1>5, <1>6, TableFrame
<1>8. MapLocks(locks)'
  <2>1. ASSUME NEW i \in Ids, mapLock[i] # Nullptr
        PROVE  locks'[mapLock[i]] # Nothing /\ (In(locks', mapLock[i]) => locks'[mapLock[i]].use)
    <3>1. PICK m : m = mapLock[i]
      OBVIOUS
    <3>2. m \in LockNames /\ locks[m] # Nothing /\ (In(locks, m) => locks[m].use)
      BY <1>1, <2>1, <3>1 DEF MapLocks, LTypeOK
    <3>3. CASE m = l
      BY <1>4, <3>1, <3>2, <3>3, Somethings
    <3>4. CASE m # l
      BY <1>4, <3>1, <3>2, <3>4 DEF In
    <3> QED
      BY <3>3, <3>4
  <2> QED
    BY <1>2, <2>1 DEF MapLocks, In
<1>9. NoOrphans(locks, data)'
  <2>1. ASSUME NEW s \in DataNames, data[s] # Nothing PROVE Holders(locks', s) # {}
    <3>1. PICK m : m \in Holders(locks, s)
      BY <1>1, <2>1 DEF NoOrphans
    <3>2. m \in Holders(locks', s)
      BY <1>4, <3>1 DEF Holders
    <3> QED
      BY <3>2
  <2> QED
    BY <1>2, <2>1 DEF NoOrphans, Holders
<1>10. DataTable(data, inst)' /\ Pointers' /\ Pool'
  BY <1>1, <1>2 DEF DataTable, Pointers, Pool, NextIsLowestFree
<1>11. posted' \in Seq(TableStates) /\ Pending'
  <2>1. PICK t : t = Tables
    OBVIOUS
  <2>2. t \in TableStates /\ t.rows = rows /\ t.inst = inst
    BY <1>1, <2>1 DEF Tables, TableStates, LTypeOK
  <2>3. Passable(t, used \cup stored, byId)
    BY <2>2, PassTables
  <2>4. PICK before : before = <<t>>
    OBVIOUS
  <2>5. before \in Seq(TableStates) /\ Len(before) = 1 /\ before[1] = t
    BY <2>2, <2>4
  <2>6. posted' = posted \o before
    BY <2>1, <2>4 DEF Post
  <2>7. \A n \in 1..Len(before) : Passable(before[n], used' \cup stored', byId')
    BY <1>2, <2>3, <2>5
  <2> QED
    BY <1>2, <2>5, <2>6, <2>7, PendingStep
<1>12. LTypeOK'
  <2>1. TypeOK'
    BY <1>1, <1>2 DEF LTypeOK, TypeOK
  <2> QED
    BY <1>1, <1>2, <1>7, <1>11, <2>1 DEF LTypeOK, Table
<1> QED
  BY <1>7, <1>8, <1>9, <1>10, <1>11, <1>12 DEF LockInv, LockTable

\* The table of the instances once the data of id is saved.
Saved(id, ds) == [inst EXCEPT ![id] = [mask |-> ds[byId[id]].mask]]

\* UpdateSharedInstanceLock: the data has done at least what the map's lock and e have done.
LEMMA SharedStep ==
    ASSUME LockInv, NEW key \in live, NEW id, id = key[2], NEW m, m = mapLock[id], Alloc(m),
           NEW e \in SUBSET Encounters, byId[id] # Nullptr, Holders(locks, byId[id]) # {},
           NEW ds, ds = Shared(id, e), NEW mask, mask = e \cup locks[m].mask
    PROVE  /\ LockTable(locks, ds, rows) /\ DataTable(ds, Saved(id, ds))
           /\ mask \in SUBSET Encounters /\ mask \subseteq ds[byId[id]].mask
<1>1. /\ LTypeOK /\ Pointers /\ MapLocks(locks) /\ NoOrphans(locks, data)
      /\ locks \in [LockNames -> LockObjects \cup {Nothing}] /\ rows \in [Keys -> LockRows \cup {Nothing}]
      /\ Registered(locks) /\ Sharing(locks, data) /\ Single(locks) /\ RowsMatch(locks, rows) /\ Masks(locks, data)
      /\ data \in [DataNames -> DataObjects \cup {Nothing}]
      /\ inst \in [Ids -> InstanceRows \cup {Nothing}]
      /\ \A s \in DataNames : data[s] # Nothing =>
            \/ data[s].id = 0 /\ data[s].mask = {}
            \/ data[s].id = s[1] /\ inst[s[1]] = [mask |-> data[s].mask]
  BY DEF LockInv, LockTable, Table, DataTable
<1>2. id \in Ids /\ m \in LockNames /\ IdOf(m) = id /\ In(locks, m)
  BY LiveIs DEF Alloc, In
<1>3. PICK s : s = byId[id]
  OBVIOUS
<1>4. s \in DataNames /\ s[1] = id
  BY <1>1, <1>2, <1>3 DEF LTypeOK, Pointers
<1>5. data[s] # Nothing
  <2>1. PICK l : l \in Holders(locks, s)
    BY <1>3
  <2> QED
    BY <1>1, <1>4, <2>1, HeldIsFound
<1>6. PICK old, new : old \in DataObjects /\ old = data[s] /\ new = [id |-> id, mask |-> old.mask \cup e]
  BY <1>1, <1>4, <1>5
<1>7. new \in DataObjects /\ new.id = id /\ new.mask = old.mask \cup e
  BY <1>2, <1>6 DEF DataObjects
<1>8. ds = [data EXCEPT ![s] = new]
  BY <1>3, <1>6 DEF Shared
<1>9. ds[s] = new /\ (\A t \in DataNames : t # s => ds[t] = data[t])
      /\ ds \in [DataNames -> DataObjects \cup {Nothing}]
  BY <1>1, <1>4, <1>7, <1>8
<1>10. \A t \in DataNames : data[t] # Nothing => ds[t] # Nothing /\ data[t].mask \subseteq ds[t].mask
  BY <1>6, <1>7, <1>9, Somethings
<1>11. \A l \in LockNames : In(locks, l) => locks[l].shared \in DataNames
  BY <1>1, InIsObject DEF LockObjects
<1>12. Sharing(locks, ds) /\ Masks(locks, ds)
  <2> SUFFICES ASSUME NEW l \in LockNames, In(locks, l)
               PROVE  /\ byId[IdOf(l)] = locks[l].shared /\ ds[locks[l].shared] # Nothing
                      /\ locks[l].mask \subseteq ds[locks[l].shared].mask
    BY DEF Sharing, Masks
  <2>1. PICK t \in DataNames : t = locks[l].shared
    BY <1>11
  <2>2. byId[IdOf(l)] = t /\ data[t] # Nothing /\ locks[l].mask \subseteq data[t].mask
    BY <1>1, <2>1 DEF Sharing, Masks
  <2> QED
    BY <1>10, <2>1, <2>2
<1>13. LockTable(locks, ds, rows)
  BY <1>1, <1>12 DEF LockTable, Table
<1>14. PICK row \in InstanceRows : row = [mask |-> new.mask]
  BY <1>7 DEF DataObjects, InstanceRows
<1>15. PICK ins : ins = Saved(id, ds) /\ ins = [inst EXCEPT ![id] = row]
  BY <1>3, <1>9, <1>14 DEF Saved
<1>16. DataTable(ds, ins)
  <2>1. ASSUME NEW t \in DataNames, ds[t] # Nothing
        PROVE  \/ ds[t].id = 0 /\ ds[t].mask = {}
               \/ ds[t].id = t[1] /\ ins[t[1]] = [mask |-> ds[t].mask]
    <3>1. CASE t = s
      <4>1. ins[id] = row
        BY <1>1, <1>2, <1>15
      <4> QED
        BY <1>4, <1>7, <1>9, <1>14, <3>1, <4>1
    <3>2. CASE t # s
      <4>1. ds[t] = data[t] /\ data[t] # Nothing
        BY <1>9, <2>1, <3>2
      <4>2. PICK l : l \in Holders(locks, t)
        BY <1>1, <4>1 DEF NoOrphans
      <4>3. byId[t[1]] = t /\ t[1] \in Ids
        BY <1>1, <4>2, HeldIsFound, DataNameIs
      <4>4. t[1] # id
        BY <1>3, <3>2, <4>3
      <4>5. ins[t[1]] = inst[t[1]]
        BY <1>1, <1>15, <4>3, <4>4
      <4> QED
        BY <1>1, <4>1, <4>5
    <3> QED
      BY <3>1, <3>2
  <2>2. ins \in [Ids -> InstanceRows \cup {Nothing}]
    BY <1>1, <1>2, <1>15
  <2> QED
    BY <1>9, <2>1, <2>2 DEF DataTable
<1>17. locks[m].shared = s /\ locks[m].mask \subseteq data[s].mask /\ locks[m].mask \subseteq Encounters
  <2>1. locks[m] \in LockObjects
    BY <1>1, <1>2, InIsObject
  <2> QED
    BY <1>1, <1>2, <1>3, <2>1 DEF Sharing, Masks, LockObjects
<1>18. e \cup locks[m].mask \subseteq ds[s].mask
  BY <1>6, <1>7, <1>9, <1>17
<1> QED
  BY <1>3, <1>13, <1>15, <1>16, <1>17, <1>18

\* InstanceMap::UpdateInstanceLock.
LEMMA UpdateInstanceLockStep ==
    ASSUME LockInv, NEW key \in live, NEW e \in SUBSET Encounters, UpdateInstanceLock(key, e)
    PROVE  \/ \E why \in {"assert", "freed"} : Fail(why)
           \/ \E ls, ds, rs, ins : /\ LockTable(ls, ds, rs) /\ DataTable(ds, ins) /\ Kept(locks, ls)
                                   /\ Commit(ls, ds, rs, ins, bind)
<1>1. CASE \E why \in {"assert", "freed"} : Fail(why)
  BY <1>1
<1>2. CASE ~\E why \in {"assert", "freed"} : Fail(why)
  <2>1. PICK id, m, ds, mask, end, ins :
           /\ id = key[2] /\ m = mapLock[id] /\ ds = Shared(id, e) /\ mask = e \cup locks[m].mask
           /\ end = UpdateEveryone(ds, key, mask)
           /\ ins = Saved(id, ds)
    OBVIOUS
  <2>2. /\ Alloc(m) /\ byId[id] # Nullptr /\ Holders(locks, byId[id]) # {} /\ end.ok
        /\ Commit(end.ls, ds, end.rows, ins, bind)
        /\ \A p \in Present(key) : FreeNames(locks, <<p, key[1]>>, id) # {}
    BY <1>2, <2>1 DEF UpdateInstanceLock, Saved
  <2>3. /\ LockTable(locks, ds, rows) /\ DataTable(ds, ins)
        /\ mask \in SUBSET Encounters /\ mask \subseteq ds[byId[id]].mask
    BY <2>1, <2>2, SharedStep
  <2>4. LockTable(end.ls, ds, end.rows) /\ Kept(locks, end.ls)
    <3>1. LTypeOK /\ Pointers
      BY DEF LockInv
    <3> QED
      BY <2>1, <2>2, <2>3, <3>1, LiveIs, EveryoneUpdated
  <2> QED
    BY <2>2, <2>3, <2>4
<1> QED
  BY <1>1, <1>2

\* ConfirmPendingBind, when the player is still in the raid.
LEMMA ConfirmStep ==
    ASSUME LockInv, NEW p \in Players, ConfirmPendingBind(p), inside[p] # Outside, inside[p][2] = bind[p]
    PROVE  \/ \E why \in {"assert", "freed"} : Fail(why)
           \/ \E ls, rs : /\ LockTable(ls, data, rs) /\ Kept(locks, ls)
                          /\ Commit(ls, data, rs, inst, [bind EXCEPT ![p] = 0])
<1> DEFINE key == inside[p]
           m == mapLock[key[2]]
           base == [ls |-> locks, rows |-> rows, ok |-> TRUE]
           end == UpdateInstanceLockForPlayer(base, data, <<p, key[1]>>, key[2], locks[m].mask)
<1>1. CASE \E why \in {"assert", "freed"} : Fail(why)
  BY <1>1
<1>2. CASE ~\E why \in {"assert", "freed"} : Fail(why)
  <2>1. /\ Alloc(m) /\ end.ok /\ FreeNames(locks, <<p, key[1]>>, key[2]) # {}
        /\ Commit(end.ls, data, end.rows, inst, [bind EXCEPT ![p] = 0])
    BY <1>2 DEF ConfirmPendingBind
  <2>2. PICK r, n, z, k : r = end /\ n = m /\ z = locks[m].mask /\ k = <<p, key[1]>>
    OBVIOUS
  <2>3. LTypeOK /\ Pointers /\ LockTable(locks, data, rows)
    BY DEF LockInv
  <2>4. key \in live
    BY <2>3 DEF LTypeOK, TypeOK
  <2>5. /\ key[2] \in Ids /\ key[1] \in Dungeons /\ <<key[1], key[2]>> \in live
        /\ n \in LockNames /\ IdOf(n) = key[2] /\ In(locks, n)
    BY <2>1, <2>2, <2>4, LiveIs DEF Alloc, In
  <2>6. k \in Keys /\ k[2] = key[1]
    BY <2>2, <2>5, KeyOf
  <2>7. z \in SUBSET Encounters /\ z \subseteq data[byId[key[2]]].mask
    <3>1. locks[n] \in LockObjects
      BY <2>3, <2>5, InIsObject DEF LockTable, Table
    <3> QED
      BY <2>2, <2>3, <2>5, <3>1 DEF LockTable, Table, Sharing, Masks, LockObjects
  <2>8. PICK st \in States : st = base /\ st.ls = locks /\ st.rows = rows /\ st.ok
    <3>1. PICK st : st = base
      OBVIOUS
    <3>2. st \in States /\ st.ls = locks /\ st.rows = rows /\ st.ok
      BY <2>3, <3>1 DEF States, LockTable, Table
    <3> QED
      BY <3>1, <3>2
  <2>9. r = UpdateInstanceLockForPlayer(st, data, k, key[2], z) /\ r.ok /\ FreeNames(st.ls, k, key[2]) # {}
    BY <2>1, <2>2, <2>8
  <2>10. LockTable(r.ls, data, r.rows) /\ Kept(locks, r.ls)
    <3>1. PICK id : id = key[2]
      OBVIOUS
    <3>2. id \in Ids /\ <<k[2], id>> \in live
      BY <2>5, <2>6, <3>1
    <3>3. LockTable(st.ls, data, st.rows) /\ z \subseteq data[byId[id]].mask /\ n \in LockNames /\ IdOf(n) = id
      BY <2>3, <2>5, <2>7, <2>8, <3>1
    <3>4. r = UpdateInstanceLockForPlayer(st, data, k, id, z) /\ r.ok /\ FreeNames(st.ls, k, id) # {}
      BY <2>9, <3>1
    <3> HIDE DEF key, m, base, end
    <3> QED
      BY <2>3, <2>5, <2>6, <2>7, <2>8, <3>2, <3>3, <3>4, UpdateStep
  <2> QED
    BY <2>1, <2>2, <2>10
<1> QED
  BY <1>1, <1>2

\* A handler that commits.
LEMMA UpdateInstanceLockInv ==
    ASSUME LockInv, NEW key \in live, NEW e \in SUBSET Encounters, UpdateInstanceLock(key, e)
    PROVE  LockInv'
<1>1. CASE \E why \in {"assert", "freed"} : Fail(why)
  BY <1>1, FailStep DEF Fail
<1>2. CASE \E ls, ds, rs, ins : /\ LockTable(ls, ds, rs) /\ DataTable(ds, ins) /\ Kept(locks, ls)
                                /\ Commit(ls, ds, rs, ins, bind)
  <2>1. bind \in [Players -> Ids \cup {0}]
    BY DEF LockInv, LTypeOK
  <2> QED
    BY <1>2, <2>1, CommitStep
<1> QED
  BY <1>1, <1>2, UpdateInstanceLockStep

\* The bind is forgotten, or the player is bound.
LEMMA ConfirmInv ==
    ASSUME LockInv, NEW p \in Players, ConfirmPendingBind(p)
    PROVE  LockInv'
<1> DEFINE less == [bind EXCEPT ![p] = 0]
<1>1. LTypeOK /\ Pool /\ DataTable(data, inst)
  BY DEF LockInv
<1>2. less \in [Players -> Ids \cup {0}]
  BY <1>1 DEF LTypeOK
<1>3. CASE inside[p] = Outside \/ inside[p][2] # bind[p]
  <2>1. bind' = less /\ UNCHANGED <<vars, mgr, mapLock, expire, week, db, failed>>
    BY <1>3 DEF ConfirmPendingBind
  <2>2. UNCHANGED <<size, used, next, stored, live, timed, inside, recent, locks, data, byId, mapLock,
                    expire, week, rows, inst, posted, failed>>
    BY <2>1 DEF vars, pool, clients, mgr, db
  <2>3. Pool' /\ TypeOK' /\ expire' \in [Ids -> Int] /\ week' \in Nat
    BY <1>1, <2>2 DEF Pool, NextIsLowestFree, LTypeOK, TypeOK
  <2> QED
    BY <1>2, <2>1, <2>2, <2>3, Frame
<1>4. CASE inside[p] # Outside /\ inside[p][2] = bind[p]
  <2>1. CASE \E why \in {"assert", "freed"} : Fail(why)
    BY <2>1, FailStep DEF Fail
  <2>2. CASE \E ls, rs : /\ LockTable(ls, data, rs) /\ Kept(locks, ls) /\ Commit(ls, data, rs, inst, less)
    BY <1>1, <1>2, <2>2, CommitStep
  <2> QED
    BY <1>4, <2>1, <2>2, ConfirmStep
<1> QED
  BY <1>3, <1>4

\* InstanceMap::RemovePlayerFromMap.
LEMMA LeaveInv ==
    ASSUME LockInv, NEW p \in Players, inside[p] # Outside, NEW pending \in [Players -> Ids \cup {0}],
           Leave(p, pending)
    PROVE  LockInv'
<1>1. CASE Fail("freed")
  BY <1>1, FailStep DEF Fail
<1>2. CASE LeaveDungeon(p) /\ bind' = pending /\ UNCHANGED <<mgr, mapLock, expire, week, db, failed>>
  <2>1. LTypeOK /\ Pool
    BY DEF LockInv
  <2>2. /\ UNCHANGED <<size, used, next, stored, live, recent, locks, data, byId, mapLock, expire, week,
                       rows, inst, posted, failed>>
        /\ inside' = [inside EXCEPT ![p] = Outside]
        /\ timed' \in {timed, timed \cup {inside[p]}}
    BY <1>2 DEF LeaveDungeon, mgr, db, pool
  <2>3. inside[p] \in live
    BY <2>1 DEF LTypeOK, TypeOK
  <2>4. TypeOK'
    BY <2>1, <2>2, <2>3 DEF LTypeOK, TypeOK
  <2>5. Pool' /\ expire' \in [Ids -> Int] /\ week' \in Nat
    BY <2>1, <2>2 DEF Pool, NextIsLowestFree, LTypeOK
  <2> QED
    BY <1>2, <2>2, <2>4, <2>5, Frame
<1> QED
  BY <1>1, <1>2 DEF Leave

\* InstanceMap::Update after the reset.
LEMMA ExpireInv ==
    ASSUME LockInv, NEW key \in live, Expire(key)
    PROVE  LockInv'
<1>1. CASE Fail("freed")
  BY <1>1, FailStep DEF Fail
<1>2. CASE ~Fail("freed")
  <2>1. LTypeOK /\ Pool
    BY DEF LockInv
  <2>2. /\ bind' = [q \in Players |-> IF inside[q] = key THEN key[2] ELSE bind[q]]
        /\ timed' \in {timed, timed \cup {key}}
        /\ expire' = [expire EXCEPT ![key[2]] = week]
        /\ UNCHANGED <<size, used, next, stored, live, inside, recent, locks, data, byId, mapLock, week,
                       rows, inst, posted, failed>>
    BY <1>2 DEF Expire, pool, mgr, db
  <2>3. key[2] \in Ids
    BY LiveIs
  <2>4. TypeOK'
    BY <2>1, <2>2 DEF LTypeOK, TypeOK
  <2>5. Pool' /\ expire' \in [Ids -> Int] /\ week' \in Nat /\ bind' \in [Players -> Ids \cup {0}]
    BY <2>1, <2>2, <2>3 DEF Pool, NextIsLowestFree, LTypeOK
  <2> QED
    BY <2>2, <2>4, <2>5, Frame
<1> QED
  BY <1>1, <1>2

\* The next reset.
LEMMA ResetInv ==
    ASSUME LockInv, Reset
    PROVE  LockInv'
<1>1. LTypeOK /\ Pool
  BY DEF LockInv
<1>2. /\ week' = week + 1
      /\ UNCHANGED <<size, used, next, stored, live, timed, inside, recent, locks, data, byId, mapLock,
                     expire, bind, rows, inst, posted, failed>>
  BY DEF Reset, vars, pool, clients, mgr, db
<1>3. Pool' /\ TypeOK' /\ expire' \in [Ids -> Int] /\ week' \in Nat /\ bind' \in [Players -> Ids \cup {0}]
  BY <1>1, <1>2 DEF Pool, NextIsLowestFree, LTypeOK, TypeOK
<1> QED
  BY <1>2, <1>3, Frame

\* RegisterInstanceId for a loaded lock.
LEMMA RegisterInv ==
    ASSUME LockInv, Register
    PROVE  LockInv'
<1>1. LTypeOK /\ Pool
  BY DEF LockInv
<1>2. /\ UNCHANGED <<size, live, timed, inside, recent, locks, data, byId, mapLock, expire, bind, week,
                     rows, inst, posted, failed>>
      /\ RegisterInstanceId
  BY DEF Register, RegisterInstanceId, clients, mgr, world, db
<1>3. Pool' /\ used \cup stored \subseteq used' \cup stored'
  BY <1>1, <1>2, RegisterStep
<1>4. TypeOK'
  <2>1. PICK n, u, s, x : n = size' /\ u = used' /\ s = stored' /\ x = next'
    OBVIOUS
  <2>2. n \in Nat /\ u \subseteq 0..(n - 1) /\ s \subseteq 1..(n - 2) /\ LowestFree(x, n, u)
    BY <1>3, <2>1 DEF Pool, NextIsLowestFree
  <2>3. u \subseteq Nat /\ x \in Nat
    BY <2>2, BitsetTypes
  <2>4. s \subseteq Nat
    BY <2>2
  <2> QED
    BY <1>1, <1>2, <2>1, <2>2, <2>3, <2>4 DEF LTypeOK, TypeOK
<1>5. expire' \in [Ids -> Int] /\ week' \in Nat /\ bind' \in [Players -> Ids \cup {0}]
  BY <1>1, <1>2 DEF LTypeOK
<1> QED
  BY <1>2, <1>3, <1>4, <1>5, Frame

\* The permanent lock of k and its row.
LEMMA PermIs ==
    ASSUME LockInv, NEW k \in Keys, NEW l \in Held(locks, k, "perm")
    PROVE  /\ l \in LockNames /\ Key(l) = k /\ In(locks, l) /\ locks[l] \in LockObjects
           /\ locks[l].st = "perm" /\ rows[k] = RowOf(l, locks[l]) /\ rows[k] \in LockRows
<1>1. l \in LockNames /\ Key(l) = k /\ In(locks, l) /\ locks[l].st = "perm"
  BY HeldIs DEF In
<1>2. locks[l] \in LockObjects /\ rows[k] = RowOf(l, locks[l])
  BY <1>1, InIsObject DEF LockInv, LockTable, Table, RowsMatch
<1> QED
  BY <1>1, <1>2, Names DEF RowOf, LockRows, LockObjects

\* UpdateInstanceLockExtensionForPlayer.
LEMMA ExtendInv ==
    ASSUME LockInv, NEW p \in Players, NEW d \in Dungeons, NEW ext \in BOOLEAN, Extend(p, d, ext)
    PROVE  LockInv'
<1>1. PICK k \in Keys : k = <<p, d>>
  BY KeyOf
<1>2. PICK l \in Held(locks, k, "perm") :
         locks' = [locks EXCEPT ![l].ext = ext] /\ rows' = [rows EXCEPT ![k].ext = ext]
  BY <1>1 DEF Extend
<1>3. Post(<<Tables>>) /\ UNCHANGED <<vars, data, byId, world, inst, failed>>
  BY DEF Extend
<1>4. /\ l \in LockNames /\ Key(l) = k /\ In(locks, l) /\ locks[l] \in LockObjects
      /\ locks[l].st = "perm" /\ rows[k] = RowOf(l, locks[l]) /\ rows[k] \in LockRows
  BY PermIs
<1>5. PICK lock, x, row, y :
         /\ lock = locks[l] /\ x = [lock EXCEPT !.ext = ext]
         /\ row = rows[k] /\ y = [row EXCEPT !.ext = ext]
  OBVIOUS
<1>6. /\ x \in LockObjects /\ x.st = lock.st /\ x.shared = lock.shared /\ x.mask = lock.mask /\ x.use = lock.use
      /\ x.expiry = lock.expiry /\ x.ext = ext
  BY <1>4, <1>5 DEF LockObjects
<1>7. y = RowOf(l, x) /\ y \in LockRows
  <2>1. /\ y \in LockRows /\ y.id = IdOf(l) /\ y.expiry = x.expiry /\ y.ext = x.ext /\ y.mask = x.mask
    BY <1>4, <1>5, <1>6 DEF LockRows, RowOf
  <2> QED
    BY <2>1 DEF LockRows, RowOf
<1>8. rows \in [Keys -> LockRows \cup {Nothing}]
  BY DEF LockInv, LTypeOK
<1>9. PICK rs2 : rs2 = [rows EXCEPT ![k] = y]
  OBVIOUS
<1>10. /\ rs2 \in [Keys -> LockRows \cup {Nothing}] /\ rs2[k] = y /\ Key(l) = k
       /\ \A j \in Keys : j # k => rs2[j] = rows[j]
  BY <1>4, <1>7, <1>8, <1>9
<1>11. locks' = [locks EXCEPT ![l] = x] /\ rows' = rs2
  BY <1>2, <1>5, <1>9
<1>12. /\ l \in LockNames /\ In(locks, l)
       /\ x.st = locks[l].st /\ x.shared = locks[l].shared /\ x.mask = locks[l].mask /\ x.use = locks[l].use
       /\ x.st = "perm" /\ rs2[Key(l)] = RowOf(l, x) /\ \A j \in Keys : j # Key(l) => rs2[j] = rows[j]
  BY <1>4, <1>5, <1>6, <1>7, <1>10
<1> QED
  BY <1>3, <1>6, <1>10, <1>11, <1>12, TouchFrame

\* ResetInstanceLocksForPlayer.
LEMMA ResetLocksInv ==
    ASSUME LockInv, NEW p \in Players, NEW d \in Dungeons, ResetInstanceLocks(p, d)
    PROVE  LockInv'
<1>1. PICK k \in Keys : k = <<p, d>>
  BY KeyOf
<1>2. PICK l \in Held(locks, k, "perm") :
         /\ locks' = [locks EXCEPT ![l].expiry = week - 1, ![l].ext = FALSE]
         /\ rows' = [rows EXCEPT ![k].expiry = week - 1, ![k].ext = FALSE]
  BY <1>1 DEF ResetInstanceLocks
<1>3. Post(<<Tables>>) /\ UNCHANGED <<vars, data, byId, world, inst, failed>>
  BY DEF ResetInstanceLocks
<1>4. /\ l \in LockNames /\ Key(l) = k /\ In(locks, l) /\ locks[l] \in LockObjects
      /\ locks[l].st = "perm" /\ rows[k] = RowOf(l, locks[l]) /\ rows[k] \in LockRows
  BY PermIs
<1>5. PICK n \in Int : n = week - 1
  BY DEF LockInv, LTypeOK
<1>6. PICK lock, x, row, y :
         /\ lock = locks[l] /\ x = [lock EXCEPT !.expiry = n, !.ext = FALSE]
         /\ row = rows[k] /\ y = [row EXCEPT !.expiry = n, !.ext = FALSE]
  OBVIOUS
<1>7. /\ x \in LockObjects /\ x.st = lock.st /\ x.shared = lock.shared /\ x.mask = lock.mask /\ x.use = lock.use
      /\ x.expiry = n /\ x.ext = FALSE
  BY <1>4, <1>6 DEF LockObjects
<1>8. y = RowOf(l, x) /\ y \in LockRows
  <2>1. /\ row \in LockRows /\ row = RowOf(l, lock) /\ FALSE \in BOOLEAN
    BY <1>4, <1>6
  <2>2. /\ y \in LockRows /\ y.id = row.id /\ y.expiry = n /\ y.ext = FALSE /\ y.mask = row.mask
    BY <1>6, <2>1 DEF LockRows
  <2>3. row.id = IdOf(l) /\ row.mask = lock.mask
    BY <2>1 DEF RowOf
  <2> QED
    BY <1>7, <2>2, <2>3 DEF LockRows, RowOf
<1>9. locks \in [LockNames -> LockObjects \cup {Nothing}] /\ rows \in [Keys -> LockRows \cup {Nothing}]
  BY DEF LockInv, LTypeOK
<1>10. PICK rs2 : rs2 = [rows EXCEPT ![k] = y]
  OBVIOUS
<1>11. /\ rs2 \in [Keys -> LockRows \cup {Nothing}] /\ rs2[k] = y /\ Key(l) = k
       /\ \A j \in Keys : j # k => rs2[j] = rows[j]
  BY <1>4, <1>8, <1>9, <1>10
<1>12. locks' = [locks EXCEPT ![l] = x] /\ rows' = rs2
  BY <1>2, <1>5, <1>6, <1>9, <1>10
<1>13. /\ l \in LockNames /\ In(locks, l)
       /\ x.st = locks[l].st /\ x.shared = locks[l].shared /\ x.mask = locks[l].mask /\ x.use = locks[l].use
       /\ x.st = "perm" /\ rs2[Key(l)] = RowOf(l, x) /\ \A j \in Keys : j # Key(l) => rs2[j] = rows[j]
  BY <1>4, <1>6, <1>7, <1>8, <1>11
<1> QED
  BY <1>3, <1>7, <1>11, <1>12, <1>13, TouchFrame

\* The active lock is a lock of the key.
LEMMA ActiveIs ==
    ASSUME NEW ls, NEW k \in Keys, NEW l \in FindActive(ls, k)
    PROVE  l \in LockNames /\ Key(l) = k /\ In(ls, l)
<1>1. l \in Held(ls, k, "perm") \/ l \in Held(ls, k, "temp")
  BY DEF FindActive, ActivePerm
<1> QED
  BY <1>1, HeldIs DEF In

\* A map takes or leaves its lock.
LEMMA UseFrame ==
    ASSUME LockInv, NEW l \in LockNames, In(locks, l), NEW u \in BOOLEAN,
           locks' = [locks EXCEPT ![l].use = u],
           UNCHANGED <<size, used, next, stored, recent, data, byId, rows, inst, posted, week, failed>>,
           TypeOK', mapLock' \in [Ids -> LockNames \cup {Nullptr}], expire' \in [Ids -> Int],
           bind' \in [Players -> Ids \cup {0}], Pointers',
           \A i \in Ids : mapLock'[i] # Nullptr =>
              \/ mapLock'[i] = l /\ u
              \/ mapLock'[i] # l /\ mapLock'[i] = mapLock[i]
    PROVE  LockInv'
<1>1. /\ LTypeOK /\ Pool /\ Table(locks, data, rows) /\ MapLocks(locks)
      /\ DataTable(data, inst) /\ NoOrphans(locks, data)
      /\ locks \in [LockNames -> LockObjects \cup {Nothing}] /\ rows \in [Keys -> LockRows \cup {Nothing}]
      /\ RowsMatch(locks, rows)
  BY DEF LockInv, LockTable, Table
<1>2. PICK lock, x : lock = locks[l] /\ x = [lock EXCEPT !.use = u]
  OBVIOUS
<1>3. lock \in LockObjects
  BY <1>1, <1>2, InIsObject
<1>4. /\ x \in LockObjects /\ x.st = lock.st /\ x.shared = lock.shared /\ x.mask = lock.mask /\ x.use = u
      /\ x.expiry = lock.expiry /\ x.ext = lock.ext
  BY <1>2, <1>3 DEF LockObjects
<1>5. PICK ls2 : ls2 = [locks EXCEPT ![l] = x] /\ locks' = ls2
  BY <1>1, <1>2
<1>6. /\ ls2[l] = x /\ (\A m \in LockNames : m # l => ls2[m] = locks[m])
      /\ ls2 \in [LockNames -> LockObjects \cup {Nothing}]
  BY <1>1, <1>4, <1>5
<1>7. x.st = "perm" => rows[Key(l)] = RowOf(l, x)
  <2>1. RowOf(l, x) = RowOf(l, lock)
    BY <1>4 DEF RowOf
  <2> QED
    BY <1>1, <1>2, <1>4, <2>1 DEF RowsMatch
<1>8. x.st = locks[l].st /\ x.shared = locks[l].shared /\ x.mask = locks[l].mask
  BY <1>2, <1>4
<1>9. Table(ls2, data, rows)
  BY <1>1, <1>4, <1>5, <1>7, <1>8, TouchStep
<1>10. Table(locks, data, rows)'
  BY <1>5, <1>9, TableFrame
<1>11. MapLocks(locks)'
  <2>1. ASSUME NEW i \in Ids, mapLock'[i] # Nullptr
        PROVE  locks'[mapLock'[i]] # Nothing /\ (In(locks', mapLock'[i]) => locks'[mapLock'[i]].use)
    <3>1. PICK m \in LockNames : m = mapLock'[i]
      BY <2>1
    <3>2. CASE m = l
      <4>1. u
        BY <2>1, <3>1, <3>2
      <4>2. locks'[m] = x /\ locks'[mapLock'[i]] = x
        BY <1>5, <1>6, <3>1, <3>2
      <4>3. x # Nothing /\ x.use
        BY <1>4, <4>1, Somethings
      <4> QED
        BY <4>2, <4>3
    <3>3. CASE m # l
      <4>1. mapLock[i] = m
        BY <2>1, <3>1, <3>3
      <4>2. locks[m] # Nothing /\ (In(locks, m) => locks[m].use)
        BY <1>1, <2>1, <3>1, <4>1 DEF MapLocks
      <4> QED
        BY <1>5, <1>6, <3>1, <3>3, <4>2 DEF In
    <3> QED
      BY <3>2, <3>3
  <2> QED
    BY <2>1 DEF MapLocks, In
<1>12. NoOrphans(locks, data)'
  <2>1. ASSUME NEW s \in DataNames, data[s] # Nothing PROVE Holders(locks', s) # {}
    <3>1. PICK m : m \in Holders(locks, s)
      BY <1>1, <2>1 DEF NoOrphans
    <3>2. m \in Holders(locks', s)
      BY <1>2, <1>4, <1>5, <1>6, <3>1 DEF Holders
    <3> QED
      BY <3>2
  <2> QED
    BY <2>1 DEF NoOrphans, Holders
<1>13. DataTable(data, inst)' /\ Pool'
  BY <1>1 DEF DataTable, Pool, NextIsLowestFree
<1>14. posted' \in Seq(TableStates) /\ Pending'
  BY PendingSame
<1>15. LTypeOK'
  BY <1>1, <1>10, <1>14 DEF LTypeOK, Table
<1> QED
  BY <1>10, <1>11, <1>12, <1>13, <1>14, <1>15 DEF LockInv, LockTable

\* MapManager::DestroyMap.
LEMMA DestroyRaidInv ==
    ASSUME LockInv, NEW key \in live, DestroyRaid(key)
    PROVE  LockInv'
<1>1. CASE Fail("freed")
  BY <1>1, FailStep DEF Fail
<1>2. CASE ~Fail("freed")
  <2>1. LTypeOK /\ Pointers
    BY DEF LockInv
  <2>2. PICK m : m = mapLock[key[2]]
    OBVIOUS
  <2>3. /\ Alloc(m) /\ locks' = [locks EXCEPT ![m].use = FALSE]
        /\ mapLock' = [mapLock EXCEPT ![key[2]] = Nullptr]
        /\ expire' = [expire EXCEPT ![key[2]] = 0]
        /\ live' = live \ {key} /\ timed' = timed \ {key}
        /\ UNCHANGED <<size, used, next, stored, inside, recent, data, byId, bind, week, rows, inst, posted, failed>>
        /\ Unloadable(key)
    BY <1>2, <2>2 DEF DestroyRaid, pool, db
  <2>4. /\ key[2] \in Ids /\ m \in LockNames /\ IdOf(m) = key[2] /\ In(locks, m)
        /\ key = <<key[1], key[2]>> /\ Key(m)[2] = key[1]
    BY <2>2, <2>3, LiveIs DEF Alloc, In
  <2>5. TypeOK'
    <3>1. \A q \in Players : inside[q] # key
      BY <2>3 DEF Unloadable, Present
    <3> QED
      BY <2>1, <2>3, <3>1 DEF LTypeOK, TypeOK
  <2>6. /\ mapLock' \in [Ids -> LockNames \cup {Nullptr}] /\ expire' \in [Ids -> Int]
        /\ bind' \in [Players -> Ids \cup {0}]
    <3>1. PICK i \in Ids : i = key[2]
      BY <2>4
    <3>2. mapLock' = [mapLock EXCEPT ![i] = Nullptr] /\ expire' = [expire EXCEPT ![i] = 0] /\ bind' = bind
      BY <2>3, <3>1
    <3> QED
      BY <2>1, <3>2 DEF LTypeOK
  <2>7. ASSUME NEW i \in Ids, mapLock'[i] # Nullptr
        PROVE  /\ i # key[2] /\ mapLock'[i] = mapLock[i] /\ mapLock[i] # Nullptr
               /\ IdOf(mapLock[i]) = i /\ mapLock[i] # m
    <3>1. i # key[2] /\ mapLock'[i] = mapLock[i]
      BY <2>1, <2>3, <2>7 DEF LTypeOK
    <3>2. IdOf(mapLock[i]) = i
      BY <2>1, <2>7, <3>1 DEF Pointers
    <3> QED
      BY <2>4, <2>7, <3>1, <3>2
  <2>8. Pointers'
    <3>1. \A i \in Ids : byId'[i] # Nullptr => byId'[i][1] = i
      BY <2>1, <2>3 DEF Pointers
    <3>2. ASSUME NEW i \in Ids, mapLock'[i] # Nullptr
          PROVE  IdOf(mapLock'[i]) = i /\ <<Key(mapLock'[i])[2], i>> \in live'
      <4>1. mapLock'[i] = mapLock[i] /\ IdOf(mapLock[i]) = i /\ i # key[2] /\ mapLock[i] # Nullptr
        BY <2>7, <3>2
      <4>2. PICK n, d : n = mapLock[i] /\ d = Key(n)[2]
        OBVIOUS
      <4>3. <<d, i>> \in live
        BY <2>1, <4>1, <4>2 DEF Pointers
      <4>4. <<d, i>> # key
        BY <4>1
      <4> QED
        BY <2>3, <4>1, <4>2, <4>3, <4>4
    <3>3. ASSUME NEW other \in live'
          PROVE  other[2] \in Ids /\ mapLock'[other[2]] # Nullptr /\ Key(mapLock'[other[2]])[2] = other[1]
      <4>1. other \in live /\ other # key
        BY <2>3
      <4>2. PICK n, i : n = mapLock[i] /\ i = other[2]
        OBVIOUS
      <4>3. i \in Ids /\ n # Nullptr /\ Key(n)[2] = other[1] /\ other = <<other[1], other[2]>>
        BY <4>1, <4>2, LiveIs
      <4>4. i # key[2]
        <5> SUFFICES ASSUME i = key[2] PROVE FALSE
          OBVIOUS
        <5>1. n = m
          BY <2>2, <4>2
        <5> QED
          BY <2>4, <4>1, <4>2, <4>3, <5>1
      <4>5. mapLock'[i] = n
        BY <2>1, <2>3, <4>2, <4>3, <4>4 DEF LTypeOK
      <4> QED
        BY <4>2, <4>3, <4>5
    <3> QED
      BY <3>1, <3>2, <3>3 DEF Pointers
  <2> QED
    BY <2>3, <2>4, <2>5, <2>6, <2>7, <2>8, UseFrame
<1> QED
  BY <1>1, <1>2

\* MapManager::CreateMap for a player with an active lock.
LEMMA EnterRaidInv ==
    ASSUME LockInv, NEW p \in Players, NEW owner \in Players, NEW d \in Dungeons, EnterRaid(p, owner, d)
    PROVE  LockInv'
<1>1. CASE Fail("freed")
  BY <1>1, FailStep DEF Fail
<1>2. CASE ~Fail("freed")
  <2>1. LTypeOK /\ Pool /\ Pointers /\ Registered(locks) /\ MapLocks(locks)
    BY DEF LockInv, LockTable, Table
  <2>2. PICK k \in Keys : k = <<owner, d>> /\ k[2] = d
    BY KeyOf
  <2>3. PICK l, id, key, m :
           /\ l \in FindActive(locks, k)
           /\ id = IdOf(l) /\ key = <<d, id>> /\ m = (IF key \in live THEN mapLock[id] ELSE l)
           /\ Alloc(m)
           /\ locks' = (IF key \in live THEN locks ELSE [locks EXCEPT ![l].use = TRUE])
           /\ mapLock' = [mapLock EXCEPT ![id] = m]
           /\ expire' = (IF key \in live THEN expire ELSE [expire EXCEPT ![id] = locks[l].expiry])
           /\ live' = live \cup {key}
           /\ \/ AddPlayerToMap(p, key) /\ bind' \in {bind, [bind EXCEPT ![p] = id]}
              \/ timed' \in {timed, timed \cup {key}} /\ UNCHANGED <<inside, bind>>
           /\ UNCHANGED <<pool, stored, recent, data, byId, week, db, failed>>
    BY <1>2, <2>2 DEF EnterRaid
  <2>4. l \in LockNames /\ Key(l) = k /\ In(locks, l) /\ id \in Ids /\ l # Nullptr /\ IdOf(l) = id
    BY <2>3, ActiveIs, Names
  <2>5. locks[l] \in LockObjects /\ locks[l] # Nothing
    BY <2>1, <2>4, InIsObject DEF LTypeOK
  <2>6. UNCHANGED <<size, used, next, stored, recent, data, byId, week, rows, inst, posted, failed>>
    BY <2>3 DEF pool, db
  <2>7. TypeOK'
    <3>1. key \in Dungeons \X Nat
      <4>1. id \in Nat
        BY <2>4, BoundsAssumption DEF Ids
      <4> QED
        BY <2>3, <4>1
    <3>2. live' \subseteq Dungeons \X Nat /\ key \in live' /\ live \subseteq live'
      BY <2>1, <2>3, <3>1 DEF LTypeOK, TypeOK
    <3>3. timed' \subseteq live' /\ inside' \in [Players -> live' \cup {Outside}]
      <4>1. CASE AddPlayerToMap(p, key)
        BY <2>1, <3>2, <4>1 DEF AddPlayerToMap, LTypeOK, TypeOK
      <4>2. CASE timed' \in {timed, timed \cup {key}} /\ UNCHANGED <<inside, bind>>
        BY <2>1, <3>2, <4>2 DEF LTypeOK, TypeOK
      <4> QED
        BY <2>3, <4>1, <4>2
    <3> QED
      BY <2>1, <2>6, <3>2, <3>3 DEF LTypeOK, TypeOK
  <2>8. bind' \in [Players -> Ids \cup {0}]
    BY <2>1, <2>3, <2>4 DEF LTypeOK
  <2>9. expire' \in [Ids -> Int]
    <3>1. locks[l].expiry \in Int
      BY <2>5 DEF LockObjects
    <3> QED
      BY <2>1, <2>3, <3>1 DEF LTypeOK
  <2>10. CASE key \in live
    <3>1. live' = live /\ locks' = locks /\ mapLock' = mapLock
      BY <2>1, <2>3, <2>10 DEF LTypeOK
    <3>2. Pool' /\ week' \in Nat
      BY <2>1, <2>6 DEF Pool, NextIsLowestFree, LTypeOK
    <3> QED
      BY <2>6, <2>7, <2>8, <2>9, <3>1, <3>2, Frame
  <2>11. CASE key \notin live
    <3>1. mapLock[id] = Nullptr
      <4> SUFFICES ASSUME mapLock[id] # Nullptr PROVE FALSE
        OBVIOUS
      <4>1. PICK n : n = mapLock[id]
        OBVIOUS
      <4>2. n \in LockNames /\ IdOf(n) = id /\ <<Key(n)[2], id>> \in live /\ locks[n] # Nothing
        BY <2>1, <2>4, <4>1 DEF LTypeOK, Pointers, MapLocks
      <4>3. Key(n)[2] = d
        BY <2>1, <2>2, <2>4, <2>5, <4>2 DEF Registered
      <4> QED
        BY <2>3, <2>11, <4>2, <4>3
    <3>2. m = l /\ mapLock' = [mapLock EXCEPT ![id] = l] /\ locks' = [locks EXCEPT ![l].use = TRUE]
      BY <2>3, <2>11
    <3>3. /\ mapLock' \in [Ids -> LockNames \cup {Nullptr}] /\ mapLock'[id] = l
          /\ \A i \in Ids : i # id => mapLock'[i] = mapLock[i]
      BY <2>1, <2>4, <3>2 DEF LTypeOK
    <3>4. ASSUME NEW i \in Ids, mapLock'[i] # Nullptr
          PROVE  \/ i = id /\ mapLock'[i] = l
                 \/ i # id /\ mapLock'[i] # l /\ mapLock'[i] = mapLock[i]
      <4>1. CASE i = id
        BY <3>3, <4>1
      <4>2. CASE i # id
        <5>1. mapLock'[i] = mapLock[i] /\ IdOf(mapLock[i]) = i
          BY <2>1, <3>3, <3>4, <4>2 DEF Pointers
        <5> QED
          BY <2>4, <4>2, <5>1
      <4> QED
        BY <4>1, <4>2
    <3>5. Pointers'
      <4>1. \A i \in Ids : byId'[i] # Nullptr => byId'[i][1] = i
        BY <2>1, <2>6 DEF Pointers
      <4>2. ASSUME NEW i \in Ids, mapLock'[i] # Nullptr
            PROVE  IdOf(mapLock'[i]) = i /\ <<Key(mapLock'[i])[2], i>> \in live'
        <5>1. CASE i = id
          BY <2>2, <2>3, <2>4, <3>3, <5>1
        <5>2. CASE i # id
          BY <2>1, <2>3, <3>3, <4>2, <5>2 DEF Pointers
        <5> QED
          BY <5>1, <5>2
      <4>3. ASSUME NEW other \in live'
            PROVE  other[2] \in Ids /\ mapLock'[other[2]] # Nullptr /\ Key(mapLock'[other[2]])[2] = other[1]
        <5>1. CASE other = key
          BY <2>2, <2>3, <2>4, <3>3, <5>1
        <5>2. CASE other \in live
          <6>1. PICK i, n : i = other[2] /\ n = mapLock[i]
            OBVIOUS
          <6>2. i \in Ids /\ n # Nullptr /\ Key(n)[2] = other[1]
            BY <5>2, <6>1, LiveIs
          <6>3. i # id
            BY <3>1, <6>1, <6>2
          <6> QED
            BY <3>3, <6>1, <6>2, <6>3
        <5> QED
          BY <2>3, <5>1, <5>2
      <4> QED
        BY <4>1, <4>2, <4>3 DEF Pointers
    <3>6. \A i \in Ids : mapLock'[i] # Nullptr =>
             \/ mapLock'[i] = l /\ TRUE
             \/ mapLock'[i] # l /\ mapLock'[i] = mapLock[i]
      BY <3>4
    <3> QED
      BY <2>4, <2>6, <2>7, <2>8, <2>9, <3>2, <3>3, <3>5, <3>6, UseFrame
  <2> QED
    BY <2>10, <2>11
<1> QED
  BY <1>1, <1>2

\* A new id has no lock, no data and no map yet.
LEMMA NextIsNew ==
    ASSUME LockInv, stored = {}, next \in Ids
    PROVE  /\ \A l \in LockNames : IdOf(l) = next => locks[l] = Nothing
           /\ \A s \in DataNames : s[1] = next => data[s] = Nothing
           /\ mapLock[next] = Nullptr
           /\ \A d \in Dungeons : <<d, next>> \notin live
<1>1. /\ LTypeOK /\ Pointers /\ Registered(locks) /\ Sharing(locks, data) /\ MapLocks(locks)
      /\ NoOrphans(locks, data) /\ next \notin used
  BY DEF LockInv, LockTable, Table, Pool, NextIsLowestFree, LowestFree
<1>2. \A l \in LockNames : IdOf(l) = next => locks[l] = Nothing
  BY <1>1 DEF Registered
<1>3. ASSUME NEW s \in DataNames, s[1] = next, data[s] # Nothing PROVE FALSE
  <2>1. PICK l : l \in Holders(locks, s)
    BY <1>1, <1>3 DEF NoOrphans
  <2>2. IdOf(l) = next /\ In(locks, l) /\ l \in LockNames
    BY <1>1, <1>3, <2>1, HeldIsFound DEF Holders
  <2> QED
    BY <1>2, <2>2, Somethings DEF In
<1>4. mapLock[next] = Nullptr
  <2> SUFFICES ASSUME mapLock[next] # Nullptr PROVE FALSE
    OBVIOUS
  <2>1. PICK m : m = mapLock[next]
    OBVIOUS
  <2>2. m \in LockNames /\ IdOf(m) = next /\ locks[m] # Nothing
    BY <1>1, <2>1 DEF LTypeOK, Pointers, MapLocks
  <2> QED
    BY <1>2, <2>2
<1>5. ASSUME NEW d \in Dungeons, <<d, next>> \in live PROVE FALSE
  <2>1. mapLock[<<d, next>>[2]] # Nullptr
    BY <1>5, LiveIs
  <2> QED
    BY <1>4, <2>1
<1> QED
  BY <1>2, <1>3, <1>4, <1>5

\* A new instance has an id in the range and a free name for its lock.
LEMMA NewLockName ==
    ASSUME LockInv, NEW owner \in Players, NEW d \in Dungeons, stored = {}, GenerateInstanceId,
           NEW k, k = <<owner, d>>, NEW l, l = The(FreeNames(locks, k, next))
    PROVE  /\ next \in Ids
           /\ l \in LockNames /\ Key(l) = k /\ IdOf(l) = next /\ locks[l] = Nothing
<1>1. next \in 1 .. MaxId
  BY BoundsAssumption DEF LockInv, Pool, NextIsLowestFree, LowestFree, GenerateInstanceId
<1>2. PICK id \in Ids : id = next
  BY <1>1 DEF Ids
<1>3. k \in Keys
  BY KeyOf
<1>4. \A m \in LockNames : IdOf(m) = id => locks[m] = Nothing
  BY <1>2, NextIsNew
<1>5. <<k, id, 1>> \in FreeNames(locks, k, id)
  <2>1. 1 \in 1..MaxCopies /\ 1..(1 - 1) = {}
    BY LockBoundsAssumption
  <2>2. locks[<<k, id, 1>>] = Nothing
    BY <1>3, <1>4, <2>1, NameOf
  <2> QED
    BY <2>1, <2>2 DEF FreeNames
<1>6. l \in FreeNames(locks, k, id)
  BY <1>2, <1>5 DEF The
<1> QED
  BY <1>2, <1>3, <1>6, FreeIs

\* MapManager::CreateMap for a player without one: a new instance.
LEMMA EnterNewRaidInv ==
    ASSUME LockInv, NEW p \in Players, NEW owner \in Players, NEW d \in Dungeons, EnterNewRaid(p, owner, d)
    PROVE  LockInv'
<1>1. /\ LTypeOK /\ Pool /\ Pointers
      /\ locks \in [LockNames -> LockObjects \cup {Nothing}] /\ rows \in [Keys -> LockRows \cup {Nothing}]
      /\ Registered(locks) /\ Sharing(locks, data) /\ Single(locks) /\ RowsMatch(locks, rows)
      /\ Masks(locks, data) /\ MapLocks(locks)
      /\ DataTable(data, inst) /\ NoOrphans(locks, data)
  BY DEF LockInv, LockTable, Table
<1>2. stored = {} /\ FindActive(locks, <<owner, d>>) = {} /\ GenerateInstanceId
  BY DEF EnterNewRaid, Up
<1>3. PICK id \in Ids : id = next
  BY <1>2, NewLockName
<1>4. PICK k \in Keys : k = <<owner, d>> /\ k[2] = d
  BY KeyOf
<1>5. /\ \A l \in LockNames : IdOf(l) = id => locks[l] = Nothing
      /\ \A s \in DataNames : s[1] = id => data[s] = Nothing
      /\ mapLock[id] = Nullptr /\ \A e \in Dungeons : <<e, id>> \notin live
  BY <1>2, <1>3, NextIsNew
<1>6. PICK n, l, s : /\ n = Min({c \in 1..MaxCopies : data[<<id, c>>] = Nothing})
                     /\ s = <<id, n>> /\ l = The(FreeNames(locks, k, id))
  OBVIOUS
<1>7. s \in DataNames /\ s[1] = id /\ data[s] = Nothing
  <2> DEFINE free == {c \in 1..MaxCopies : data[<<id, c>>] = Nothing}
  <2>1. 1 \in 1..MaxCopies /\ \A c \in 1..MaxCopies : <<id, c>> \in DataNames /\ c >= 1
    BY LockBoundsAssumption DEF DataNames
  <2>2. 1 \in free /\ \A c \in free : 1 <= c
    BY <1>5, <2>1
  <2>3. n \in free
    <3> HIDE DEF free
    <3>1. \E x \in free : \A y \in free : x <= y
      BY <2>2
    <3> QED
      BY <1>6, <3>1 DEF Min, free
  <2> QED
    BY <1>5, <1>6, <2>1, <2>3
<1>8. l \in LockNames /\ Key(l) = k /\ IdOf(l) = id /\ locks[l] = Nothing
  BY <1>2, <1>3, <1>4, <1>6, NewLockName
<1>9. PICK x, y : x = [Lock("temp", s) EXCEPT !.use = TRUE] /\ y = [id |-> 0, mask |-> {}]
  OBVIOUS
<1>10. /\ locks' = [locks EXCEPT ![l] = x] /\ data' = [data EXCEPT ![s] = y]
       /\ byId' = [byId EXCEPT ![id] = s] /\ mapLock' = [mapLock EXCEPT ![id] = l]
       /\ expire' = [expire EXCEPT ![id] = week] /\ live' = live \cup {<<d, id>>}
       /\ \/ AddPlayerToMap(p, <<d, id>>)
          \/ timed' = timed \cup {<<d, id>>} /\ inside' = inside
       /\ UNCHANGED <<stored, recent, bind, week, rows, inst, posted, failed>>
  BY <1>3, <1>4, <1>6, <1>9 DEF EnterNewRaid, db
<1>11. /\ x \in LockObjects /\ x.st = "temp" /\ x.use = TRUE /\ x.mask = {} /\ x.shared = s
       /\ y \in DataObjects /\ y.id = 0 /\ y.mask = {}
  <2>1. PICK z : z = Lock("temp", s)
    OBVIOUS
  <2>2. z \in LockObjects /\ z.st = "temp" /\ z.mask = {} /\ z.shared = s
    <3>1. week \in Int
      BY <1>1 DEF LTypeOK
    <3> QED
      BY <1>7, <2>1, <3>1 DEF Lock, LockObjects
  <2>3. x = [z EXCEPT !.use = TRUE]
    BY <1>9, <2>1
  <2>4. x \in LockObjects /\ x.st = "temp" /\ x.use = TRUE /\ x.mask = {} /\ x.shared = s
    BY <2>2, <2>3 DEF LockObjects
  <2>5. y \in DataObjects /\ y.id = 0 /\ y.mask = {}
    BY <1>9 DEF DataObjects
  <2> QED
    BY <2>4, <2>5
<1>12. /\ locks'[l] = x /\ (\A m \in LockNames : m # l => locks'[m] = locks[m])
       /\ locks' \in [LockNames -> LockObjects \cup {Nothing}]
  BY <1>1, <1>8, <1>10, <1>11
<1>13. /\ data'[s] = y /\ (\A t \in DataNames : t # s => data'[t] = data[t])
       /\ data' \in [DataNames -> DataObjects \cup {Nothing}]
  BY <1>1, <1>7, <1>10, <1>11 DEF LTypeOK
<1>14. /\ byId'[id] = s /\ (\A i \in Ids : i # id => byId'[i] = byId[i])
       /\ byId' \in [Ids -> DataNames \cup {Nullptr}]
  BY <1>1, <1>7, <1>10 DEF LTypeOK
<1>15. /\ mapLock'[id] = l /\ (\A i \in Ids : i # id => mapLock'[i] = mapLock[i])
       /\ mapLock' \in [Ids -> LockNames \cup {Nullptr}]
  BY <1>1, <1>8, <1>10 DEF LTypeOK
<1>16. /\ size' \in Nat /\ used' \subseteq 0..(size' - 1) /\ NextIsLowestFree' /\ stored' = {}
       /\ used' = used \cup {id}
  <2>1. size \in Nat /\ used \subseteq 0..(size - 1) /\ NextIsLowestFree
    BY <1>1 DEF Pool
  <2>2. used' = used \cup {id}
    BY <1>2, <1>3 DEF GenerateInstanceId
  <2> QED
    BY <1>2, <1>10, <2>1, <2>2, GenerateStep
<1>17. Pool'
  BY <1>16 DEF Pool
<1>18. ASSUME NEW m \in LockNames, locks'[m] # Nothing
       PROVE  \/ m = l
              \/ m # l /\ locks'[m] = locks[m] /\ locks[m] # Nothing /\ IdOf(m) \in Ids /\ IdOf(m) # id
  BY <1>5, <1>12, <1>18, Names
<1>19. \A m \in LockNames : In(locks', m) => locks'[m] # Nothing
  BY Somethings DEF In
<1>20. Registered(locks)'
  <2>1. ASSUME NEW m \in LockNames, locks'[m] # Nothing PROVE IdOf(m) \in used' \cup stored'
    <3>1. CASE m = l
      BY <1>8, <1>16, <3>1
    <3>2. CASE m # l
      BY <1>1, <1>2, <1>16, <1>18, <2>1, <3>2 DEF Registered
    <3> QED
      BY <3>1, <3>2
  <2>2. ASSUME NEW m \in LockNames, NEW o \in LockNames, locks'[m] # Nothing, locks'[o] # Nothing,
               IdOf(m) = IdOf(o)
        PROVE  Key(m)[2] = Key(o)[2]
    BY <1>1, <1>8, <1>18, <2>2 DEF Registered
  <2> QED
    BY <2>1, <2>2 DEF Registered
<1>21. ASSUME NEW m \in LockNames, m # l, In(locks', m)
       PROVE  /\ In(locks, m) /\ locks'[m] = locks[m] /\ byId'[IdOf(m)] = locks[m].shared
              /\ locks[m].shared \in DataNames /\ data'[locks[m].shared] = data[locks[m].shared]
              /\ data[locks[m].shared] # Nothing
  <2>1. locks'[m] = locks[m] /\ IdOf(m) \in Ids /\ IdOf(m) # id
    BY <1>18, <1>19, <1>21
  <2>2. In(locks, m)
    BY <1>21, <2>1 DEF In
  <2>3. PICK t : t = locks[m].shared
    OBVIOUS
  <2>4. byId[IdOf(m)] = t /\ data[t] # Nothing
    BY <1>1, <2>2, <2>3 DEF Sharing
  <2>5. t \in DataNames
    BY <1>1, <2>2, <2>3, InIsObject DEF LockObjects
  <2>6. t # s
    BY <1>7, <2>4
  <2> QED
    BY <1>13, <1>14, <2>1, <2>2, <2>3, <2>4, <2>5, <2>6
<1>22. Sharing(locks, data)'
  <2> SUFFICES ASSUME NEW m \in LockNames, In(locks', m)
               PROVE  byId'[IdOf(m)] = locks'[m].shared /\ data'[locks'[m].shared] # Nothing
    BY DEF Sharing, In
  <2>1. CASE m = l
    BY <1>8, <1>11, <1>12, <1>13, <1>14, <2>1, Somethings
  <2>2. CASE m # l
    BY <1>21, <2>2
  <2> QED
    BY <2>1, <2>2
<1>23. Masks(locks, data)'
  <2> SUFFICES ASSUME NEW m \in LockNames, In(locks', m)
               PROVE  locks'[m].mask \subseteq data'[locks'[m].shared].mask
    BY DEF Masks, In
  <2>1. CASE m = l
    BY <1>11, <1>12, <2>1
  <2>2. CASE m # l
    <3>1. locks[m].mask \subseteq data[locks[m].shared].mask
      BY <1>1, <1>21, <2>2 DEF Masks
    <3> QED
      BY <1>21, <2>2, <3>1
  <2> QED
    BY <2>1, <2>2
<1>24. \A m \in LockNames : Key(m) = k => locks[m].st # "temp"
  BY <1>2, <1>4, HeldIs DEF FindActive
<1>25. Single(locks)'
  <2> SUFFICES ASSUME NEW m \in LockNames, NEW o \in LockNames, In(locks', m),
                      locks'[m].st = locks'[o].st, Key(m) = Key(o), m # o
               PROVE  FALSE
    BY DEF Single, In
  <2>1. CASE m # l /\ o # l
    <3>1. locks'[m] = locks[m] /\ locks'[o] = locks[o] /\ In(locks, m)
      BY <1>12, <1>21, <2>1
    <3> QED
      BY <1>1, <3>1 DEF Single
  <2>2. CASE m = l
    <3>1. locks[o].st = "temp" /\ Key(o) = k
      BY <1>8, <1>11, <1>12, <2>2
    <3> QED
      BY <1>24, <3>1
  <2>3. CASE o = l
    <3>1. locks[m].st = "temp" /\ Key(m) = k
      BY <1>8, <1>11, <1>12, <2>3
    <3> QED
      BY <1>24, <3>1
  <2> QED
    BY <2>1, <2>2, <2>3
<1>26. RowsMatch(locks, rows)'
  <2>1. ASSUME NEW j \in Keys, rows[j] # Nothing
        PROVE  \E m \in LockNames : Key(m) = j /\ locks'[m].st = "perm"
    <3>1. PICK m \in LockNames : Key(m) = j /\ locks[m].st = "perm"
      BY <1>1, <2>1 DEF RowsMatch
    <3>2. m # l
      BY <1>8, <3>1, Somethings
    <3> QED
      BY <1>12, <3>1, <3>2
  <2>2. ASSUME NEW m \in LockNames, locks'[m].st = "perm" PROVE rows[Key(m)] = RowOf(m, locks'[m])
    <3>1. m # l
      BY <1>11, <1>12, <2>2
    <3> QED
      BY <1>1, <1>12, <2>2, <3>1 DEF RowsMatch
  <2> QED
    BY <1>10, <2>1, <2>2 DEF RowsMatch
<1>27. MapLocks(locks)'
  <2>1. ASSUME NEW i \in Ids, mapLock'[i] # Nullptr
        PROVE  locks'[mapLock'[i]] # Nothing /\ (In(locks', mapLock'[i]) => locks'[mapLock'[i]].use)
    <3>1. PICK m : m = mapLock'[i]
      OBVIOUS
    <3>2. CASE i = id
      BY <1>11, <1>12, <1>15, <3>1, <3>2, Somethings
    <3>3. CASE i # id
      <4>1. m = mapLock[i] /\ m \in LockNames
        BY <1>1, <1>15, <2>1, <3>1, <3>3 DEF LTypeOK
      <4>2. locks[m] # Nothing /\ (In(locks, m) => locks[m].use)
        BY <1>1, <2>1, <3>1, <4>1 DEF MapLocks
      <4>3. m # l /\ locks'[m] = locks[m]
        BY <1>8, <1>12, <4>1, <4>2
      <4> QED
        BY <3>1, <4>2, <4>3 DEF In
    <3> QED
      BY <3>2, <3>3
  <2> QED
    BY <2>1 DEF MapLocks, In
<1>28. DataTable(data, inst)'
  <2>1. ASSUME NEW t \in DataNames, data'[t] # Nothing
        PROVE  \/ data'[t].id = 0 /\ data'[t].mask = {}
               \/ data'[t].id = t[1] /\ inst[t[1]] = [mask |-> data'[t].mask]
    <3>1. CASE t = s
      BY <1>11, <1>13, <3>1
    <3>2. CASE t # s
      BY <1>1, <1>13, <2>1, <3>2 DEF DataTable
    <3> QED
      BY <3>1, <3>2
  <2>2. inst \in [Ids -> InstanceRows \cup {Nothing}]
    BY <1>1 DEF LTypeOK
  <2> QED
    BY <1>10, <1>13, <2>1, <2>2 DEF DataTable
<1>29. NoOrphans(locks, data)'
  <2>1. ASSUME NEW t \in DataNames, data'[t] # Nothing PROVE Holders(locks', t) # {}
    <3>1. CASE t = s
      <4>1. l \in Holders(locks', t)
        BY <1>8, <1>11, <1>12, <3>1 DEF Holders
      <4> QED
        BY <4>1
    <3>2. CASE t # s
      <4>1. PICK m : m \in Holders(locks, t)
        BY <1>1, <1>13, <2>1, <3>2 DEF NoOrphans
      <4>2. m # l
        BY <1>8, <4>1, Somethings DEF Holders
      <4>3. m \in Holders(locks', t)
        BY <1>12, <4>1, <4>2 DEF Holders
      <4> QED
        BY <4>3
    <3> QED
      BY <3>1, <3>2
  <2> QED
    BY <2>1 DEF NoOrphans, Holders
<1>30. Pointers'
  <2>1. \A i \in Ids : byId'[i] # Nullptr => byId'[i][1] = i
    BY <1>1, <1>7, <1>14 DEF Pointers
  <2>2. ASSUME NEW i \in Ids, mapLock'[i] # Nullptr
        PROVE  IdOf(mapLock'[i]) = i /\ <<Key(mapLock'[i])[2], i>> \in live'
    <3>1. CASE i = id
      BY <1>4, <1>8, <1>10, <1>15, <3>1
    <3>2. CASE i # id
      BY <1>1, <1>10, <1>15, <2>2, <3>2 DEF Pointers
    <3> QED
      BY <3>1, <3>2
  <2>3. ASSUME NEW other \in live'
        PROVE  other[2] \in Ids /\ mapLock'[other[2]] # Nullptr /\ Key(mapLock'[other[2]])[2] = other[1]
    <3>1. CASE other = <<d, id>>
      <4>1. l # Nullptr
        BY <1>8, Names
      <4> QED
        BY <1>4, <1>8, <1>15, <3>1, <4>1
    <3>2. CASE other \in live
      <4>1. PICK i, m : i = other[2] /\ m = mapLock[i]
        OBVIOUS
      <4>2. i \in Ids /\ m # Nullptr /\ Key(m)[2] = other[1]
        BY <3>2, <4>1, LiveIs
      <4>3. i # id
        BY <1>5, <4>1, <4>2
      <4> QED
        BY <1>15, <4>1, <4>2, <4>3
    <3> QED
      BY <1>10, <3>1, <3>2
  <2> QED
    BY <2>1, <2>2, <2>3 DEF Pointers
<1>31. TypeOK'
  <2>1. PICK key : key = <<d, id>>
    OBVIOUS
  <2>2. key \in Dungeons \X Nat
    BY <2>1, BoundsAssumption DEF Ids
  <2>3. live' \subseteq Dungeons \X Nat /\ key \in live' /\ live \subseteq live'
    BY <1>1, <1>10, <2>1, <2>2 DEF LTypeOK, TypeOK
  <2>4. timed' \subseteq live' /\ inside' \in [Players -> live' \cup {Outside}]
    <3>1. CASE AddPlayerToMap(p, key)
      BY <1>1, <2>3, <3>1 DEF AddPlayerToMap, LTypeOK, TypeOK
    <3>2. CASE timed' = timed \cup {key} /\ inside' = inside
      BY <1>1, <2>3, <3>2 DEF LTypeOK, TypeOK
    <3> QED
      BY <1>10, <2>1, <3>1, <3>2
  <2>5. used' \subseteq Nat /\ next' \in Nat
    BY <1>16, BitsetTypes DEF NextIsLowestFree
  <2> QED
    BY <1>1, <1>10, <1>16, <2>3, <2>4, <2>5 DEF LTypeOK, TypeOK
<1>32. posted' \in Seq(TableStates) /\ Pending'
  <2>1. id \notin used /\ used \subseteq used' /\ stored' = {}
    BY <1>2, <1>3, <1>10, <1>16, <1>1 DEF Pool, NextIsLowestFree, LowestFree
  <2>2. \A i \in Ids : i \in used \cup stored /\ byId[i] = Nullptr => byId'[i] = Nullptr
    BY <1>1, <1>2, <1>10, <2>1 DEF LTypeOK
  <2> QED
    BY <1>2, <1>10, <2>1, <2>2, PendingSame
<1>33. LTypeOK'
  <2>1. expire' \in [Ids -> Int]
    BY <1>1, <1>10 DEF LTypeOK
  <2> QED
    BY <1>1, <1>10, <1>12, <1>13, <1>14, <1>15, <1>31, <1>32, <2>1 DEF LTypeOK
<1>34. LockTable(locks, data, rows)'
  BY <1>1, <1>10, <1>12, <1>20, <1>22, <1>23, <1>25, <1>26, <1>27 DEF LockTable, Table
<1> QED
  BY <1>17, <1>28, <1>29, <1>30, <1>32, <1>33, <1>34 DEF LockInv

-----------------------------------------------------------------------------
(* The invariant and what follows from it.                                  *)

\* The server starts with empty tables.
LEMMA LockInitInv == LInit => LockInv
<1> SUFFICES ASSUME LInit PROVE LockInv
  OBVIOUS
<1>1. /\ Init
      /\ locks = [l \in LockNames |-> Nothing] /\ data = [s \in DataNames |-> Nothing]
      /\ byId = [i \in Ids |-> Nullptr] /\ mapLock = [i \in Ids |-> Nullptr]
      /\ expire = [i \in Ids |-> 0] /\ bind = [q \in Players |-> 0] /\ week = 0
      /\ rows = [k \in Keys |-> Nothing] /\ inst = [i \in Ids |-> Nothing] /\ posted = <<>>
      /\ failed = "no"
  BY DEF LInit
<1>2. Inv
  BY <1>1, InitInv
<1>3. Pool /\ TypeOK /\ live = {}
  BY <1>1, <1>2 DEF Inv, Init
<1>4. LTypeOK
  BY <1>1, <1>3 DEF LTypeOK
<1>5. Pointers
  BY <1>1, <1>3 DEF Pointers
<1>6. \A l \in LockNames : locks[l] = Nothing /\ ~In(locks, l) /\ locks[l].st # "perm"
  BY <1>1, Somethings DEF In
<1>7. LockTable(locks, data, rows)
  BY <1>1, <1>4, <1>6 DEF LockTable, Table, LTypeOK, Registered, Sharing, Single, RowsMatch, Masks, MapLocks
<1>8. DataTable(data, inst) /\ NoOrphans(locks, data)
  BY <1>1, <1>4 DEF DataTable, NoOrphans, LTypeOK
<1>9. Pending
  BY <1>1 DEF Pending
<1> QED
  BY <1>3, <1>4, <1>5, <1>7, <1>8, <1>9 DEF LockInv

\* The worker of the database.
LEMMA ExecuteInv ==
    ASSUME LockInv, ExecuteNext
    PROVE  LockInv'
<1>1. posted # <<>> /\ posted' = Tail(posted) /\ UNCHANGED <<vars, mgr, world, rows, inst, failed>>
  BY DEF ExecuteNext
<1>2. UNCHANGED <<size, used, next, stored, live, timed, inside, recent, locks, data, byId, mapLock, expire,
                  bind, week, rows, inst, failed>>
  BY <1>1 DEF vars, pool, clients, mgr, world
<1>3. /\ LTypeOK /\ Pool /\ Pointers /\ LockTable(locks, data, rows) /\ DataTable(data, inst)
      /\ NoOrphans(locks, data) /\ Pending /\ posted \in Seq(TableStates)
  BY DEF LockInv, LTypeOK
<1>4. /\ posted' \in Seq(TableStates) /\ Len(posted') = Len(posted) - 1
      /\ \A n \in 1..Len(posted') : posted'[n] = posted[n + 1]
  BY <1>1, <1>3, HeadTailProperties
<1>5. Pending'
  <2>1. ASSUME NEW n \in 1..Len(posted') PROVE Passable(posted'[n], used' \cup stored', byId')
    <3>1. n + 1 \in 1..Len(posted)
      BY <1>3, <1>4
    <3>2. PICK t : t = posted[n + 1]
      OBVIOUS
    <3>3. Passable(t, used \cup stored, byId)
      BY <1>3, <3>1, <3>2 DEF Pending
    <3>4. PICK taken, ptr : taken = used \cup stored /\ ptr = byId
      OBVIOUS
    <3>5. Passable(t, taken, ptr) /\ t = posted'[n] /\ taken = used' \cup stored' /\ ptr = byId'
      BY <1>2, <1>4, <3>2, <3>3, <3>4
    <3> QED
      BY <3>5
  <2> QED
    BY <2>1 DEF Pending
<1>6. LTypeOK'
  BY <1>2, <1>3, <1>4 DEF LTypeOK, TypeOK
<1>7. Pool' /\ Pointers' /\ DataTable(data, inst)' /\ NoOrphans(locks, data)'
  BY <1>2, <1>3 DEF Pool, NextIsLowestFree, Pointers, DataTable, NoOrphans, Holders
<1>8. Table(locks, data, rows)'
  BY <1>2, <1>3, TableFrame DEF LockTable
<1>9. MapLocks(locks)'
  BY <1>2, <1>3 DEF LockTable, MapLocks, In
<1> QED
  BY <1>5, <1>6, <1>7, <1>8, <1>9 DEF LockInv, LockTable

\* Nothing happens.
LEMMA LockStutter ==
    ASSUME LockInv, UNCHANGED lvars
    PROVE  LockInv'
<1>1. LTypeOK /\ Pool
  BY DEF LockInv
<1>2. UNCHANGED <<size, used, next, stored, live, timed, inside, recent, locks, data, byId, mapLock, expire,
                  bind, week, rows, inst, posted, failed>>
  BY DEF lvars, vars, pool, clients, mgr, world, db
<1>3. Pool' /\ TypeOK' /\ expire' \in [Ids -> Int] /\ week' \in Nat /\ bind' \in [Players -> Ids \cup {0}]
  BY <1>1, <1>2 DEF Pool, NextIsLowestFree, LTypeOK, TypeOK
<1> QED
  BY <1>2, <1>3, Frame

\* Every step keeps the invariant.
LEMMA LockInvStep == LockInv /\ [LNext]_lvars => LockInv'
<1> SUFFICES ASSUME LockInv, [LNext]_lvars PROVE LockInv'
  OBVIOUS
<1>1. CASE Register
  BY <1>1, RegisterInv
<1>2. CASE Restart
  BY <1>2, FailStep DEF Restart
<1>3. CASE Reset
  BY <1>3, ResetInv
<1>4. ASSUME NEW p \in Players, NEW d \in Dungeons, NEW owner \in {p} \cup Leaders,
             EnterNewRaid(p, owner, d) \/ EnterRaid(p, owner, d)
      PROVE  LockInv'
  <2>1. owner \in Players
    BY LockBoundsAssumption
  <2> QED
    BY <1>4, <2>1, EnterNewRaidInv, EnterRaidInv
<1>5. ASSUME NEW p \in Players, NEW d \in Dungeons, NEW ext \in BOOLEAN, Extend(p, d, ext) PROVE LockInv'
  BY <1>5, ExtendInv
<1>6. ASSUME NEW p \in Players, NEW d \in Dungeons, ResetInstanceLocks(p, d) PROVE LockInv'
  BY <1>6, ResetLocksInv
<1>7. ASSUME NEW p \in Players, LeaveRaid(p) PROVE LockInv'
  <2>1. bind \in [Players -> Ids \cup {0}]
    BY DEF LockInv, LTypeOK
  <2> QED
    BY <1>7, <2>1, LeaveInv DEF LeaveRaid
<1>8. ASSUME NEW p \in Players, ConfirmPendingBind(p) PROVE LockInv'
  BY <1>8, ConfirmInv
<1>9. ASSUME NEW p \in Players, DeclinePendingBind(p) PROVE LockInv'
  <2>1. PICK pending : pending = [bind EXCEPT ![p] = 0]
    OBVIOUS
  <2>2. pending \in [Players -> Ids \cup {0}]
    BY <2>1 DEF LockInv, LTypeOK
  <2>3. inside[p] # Outside /\ Leave(p, pending)
    BY <1>9, <2>1 DEF DeclinePendingBind
  <2> QED
    BY <2>2, <2>3, LeaveInv
<1>10. ASSUME NEW key \in live, DestroyRaid(key) PROVE LockInv'
  BY <1>10, DestroyRaidInv
<1>11. ASSUME NEW key \in live, Expire(key) PROVE LockInv'
  BY <1>11, ExpireInv
<1>12. ASSUME NEW key \in live, NEW e \in SUBSET Encounters, UpdateInstanceLock(key, e) PROVE LockInv'
  BY <1>12, UpdateInstanceLockInv
<1>13. CASE UNCHANGED lvars
  BY <1>13, LockStutter
<1>14. CASE ExecuteNext
  BY <1>14, ExecuteInv
<1> QED
  BY <1>1, <1>2, <1>3, <1>4, <1>5, <1>6, <1>7, <1>8, <1>9, <1>10, <1>11, <1>12, <1>13, <1>14 DEF LNext

\* The invariant holds in every reachable state.
LEMMA LockInvariant == LSpec => []LockInv
  BY LockInitInv, LockInvStep, PTL DEF LSpec

\* The type invariant of the locks, their tables and the maps that use them.
THEOREM LocksTypeCorrect == LSpec => []LTypeOK
  BY LockInvariant, PTL DEF LockInv

\* A set without two different elements has at most one.
LEMMA AtMostOne ==
    ASSUME NEW S, \A x, y \in S : x = y
    PROVE  Cardinality(S) <= 1
<1>1. CASE S = {}
  BY <1>1, FS_EmptySet
<1>2. CASE S # {}
  <2>1. PICK x \in S : S = {x}
    BY <1>2
  <2> QED
    BY <2>1, FS_Singleton
<1> QED
  BY <1>1, <1>2

\* Whatever players, game masters, resets and crashes do, all locks of an instance share one
\* SharedInstanceLockData, the one _instanceLockDataById finds; a player has one lock of
\* each kind for a raid; and exactly the live raids have a lock.
THEOREM OneStatePerInstanceHolds == LSpec => []OneStatePerInstance
<1>1. LockInv => OneStatePerInstance
  <2> SUFFICES ASSUME LockInv PROVE OneStatePerInstance
    OBVIOUS
  <2>1. LTypeOK /\ Pointers /\ Sharing(locks, data) /\ Single(locks)
    BY DEF LockInv, LockTable, Table
  <2>2. \A l \in LockNames : Alloc(l) => byId[IdOf(l)] = locks[l].shared /\ data[locks[l].shared] # Nothing
    BY <2>1 DEF Sharing, Alloc, In
  <2>3. ASSUME NEW k \in Keys
        PROVE  Cardinality(Held(locks, k, "perm")) <= 1 /\ Cardinality(Held(locks, k, "temp")) <= 1
    <3>1. \A l, m \in Held(locks, k, "perm") : l = m
      BY <2>1, HeldIs DEF Single, In
    <3>2. \A l, m \in Held(locks, k, "temp") : l = m
      BY <2>1, HeldIs DEF Single, In
    <3> QED
      BY <3>1, <3>2, AtMostOne
  <2>4. ASSUME NEW i \in Ids PROVE mapLock[i] # Nullptr <=> \E d \in Dungeons : <<d, i>> \in live
    <3>1. ASSUME mapLock[i] # Nullptr PROVE \E d \in Dungeons : <<d, i>> \in live
      <4>1. mapLock[i] \in LockNames /\ <<Key(mapLock[i])[2], i>> \in live
        BY <2>1, <3>1 DEF LTypeOK, Pointers
      <4> QED
        BY <4>1, Names
    <3>2. ASSUME NEW d \in Dungeons, <<d, i>> \in live PROVE mapLock[i] # Nullptr
      <4>1. mapLock[<<d, i>>[2]] # Nullptr
        BY <3>2, LiveIs
      <4> QED
        BY <4>1
    <3> QED
      BY <3>1, <3>2
  <2> QED
    BY <2>2, <2>3, <2>4 DEF OneStatePerInstance
<1> QED
  BY <1>1, LockInvariant, PTL

\* No player is saved to an encounter that the instance has not seen done, in memory or in
\* any state the two tables pass while what is posted is executed.
THEOREM SavedBossesAreDeadHolds == LSpec => []SavedBossesAreDead
<1>1. LockInv => SavedBossesAreDead
  <2> SUFFICES ASSUME LockInv PROVE SavedBossesAreDead
    OBVIOUS
  <2>1. Masks(locks, data)
    BY DEF LockInv, LockTable, Table
  <2>2. \A l \in LockNames : Alloc(l) => locks[l].mask \subseteq data[locks[l].shared].mask
    BY <2>1 DEF Masks, Alloc, In
  <2>3. PICK t : t = Tables
    OBVIOUS
  <2>4. t.rows = rows /\ t.inst = inst
    BY <2>3 DEF Tables
  <2>5. RowsBehind(t)
    BY <2>4, CanLoad DEF RowsBehind, Loadable
  <2>6. ASSUME NEW n \in DOMAIN posted PROVE RowsBehind(posted[n])
    <3>1. n \in 1..Len(posted) /\ Pending
      BY <2>6 DEF LockInv, LTypeOK
    <3>2. PICK x : x = posted[n]
      OBVIOUS
    <3>3. Loadable(x.rows, x.inst)
      BY <3>1, <3>2 DEF Pending, Passable
    <3> QED
      BY <3>2, <3>3 DEF RowsBehind, Loadable
  <2> QED
    BY <2>2, <2>3, <2>5, <2>6, CanLoad DEF SavedBossesAreDead
<1> QED
  BY <1>1, LockInvariant, PTL

-----------------------------------------------------------------------------
(* What a step never does to a lock that has not expired.                   *)

\* Load brings back the permanent lock of a row whose instance is there.
LEMMA LoadedLock ==
    ASSUME NEW rs, NEW ins, NEW why, Load(rs, ins, why), NEW k \in Keys, rs[k] \in LockRows,
           rs[k].id \in Ids, ins[rs[k].id] # Nothing, NEW l, l = <<k, rs[k].id, 1>>
    PROVE  /\ l \in LockNames /\ locks'[l].st = "perm" /\ locks'[l].expiry = rs[k].expiry
           /\ locks'[l].mask = rs[k].mask
<1>1. PICK i \in Ids, n \in 1..MaxCopies : i = rs[k].id /\ n = 1
  BY LockBoundsAssumption
<1>2. l \in LockNames /\ Key(l) = k /\ IdOf(l) = i
  BY <1>1, NameOf
<1>3. rs[k] # Nothing
  BY Somethings
<1>4. PICK lock, x, e, m : lock = Lock("perm", <<i, 1>>) /\ x = rs[k].expiry /\ e = rs[k].ext /\ m = rs[k].mask
  OBVIOUS
<1>5. locks'[l] = [lock EXCEPT !.expiry = x, !.ext = e, !.mask = m]
  BY <1>1, <1>2, <1>3, <1>4 DEF Load
<1>6. [lock EXCEPT !.expiry = x, !.ext = e, !.mask = m].st = "perm"
      /\ [lock EXCEPT !.expiry = x, !.ext = e, !.mask = m].expiry = x
      /\ [lock EXCEPT !.expiry = x, !.ext = e, !.mask = m].mask = m
  BY <1>4 DEF Lock
<1> QED
  BY <1>2, <1>4, <1>5, <1>6

\* Every step keeps the lock, resets it for a game master, or takes the server down.
LEMMA StepKeeps ==
    ASSUME LockInv, [LNext]_lvars, week' = week,
           NEW l \in LockNames, In(locks, l), locks[l].expiry >= week
    PROVE  \/ In(locks', l) /\ locks'[l].expiry >= week /\ locks[l].mask \subseteq locks'[l].mask
              /\ (locks[l].st = "perm" => locks'[l].st = "perm")
           \/ ~locks[l].use /\ ResetInstanceLocks(Key(l)[1], Key(l)[2])
           \/ \E why \in {"no", "assert", "freed"} : GoDown(why)
<1> DEFINE Goal == \/ In(locks', l) /\ locks'[l].expiry >= week /\ locks[l].mask \subseteq locks'[l].mask
                      /\ (locks[l].st = "perm" => locks'[l].st = "perm")
                   \/ ~locks[l].use /\ ResetInstanceLocks(Key(l)[1], Key(l)[2])
                   \/ \E why \in {"no", "assert", "freed"} : GoDown(why)
<1>1. locks \in [LockNames -> LockObjects \cup {Nothing}] /\ locks[l] \in LockObjects /\ locks[l] # Nothing
  BY InIsObject DEF LockInv, LTypeOK
<1>2. ASSUME locks'[l] = locks[l] PROVE Goal
  BY <1>2 DEF In
<1>3. ASSUME NEW why \in {"no", "assert", "freed"}, GoDown(why) PROVE Goal
  BY <1>3
<1>4. ASSUME NEW m, NEW x, NEW y, x = locks[l], y = locks'[l], y.st = x.st, y.expiry = x.expiry, y.mask = x.mask
      PROVE  Goal
  BY <1>4 DEF In
<1>5. ASSUME NEW ls, NEW ds, NEW rs, NEW ins, NEW pending, Kept(locks, ls), Commit(ls, ds, rs, ins, pending)
      PROVE  Goal
  BY <1>5 DEF Commit, SetLocks, Kept
<1> HIDE DEF Goal
<1>6. ASSUME Register PROVE Goal
  BY <1>2, <1>6 DEF Register, mgr
<1>7. ASSUME Restart PROVE Goal
  BY <1>3, <1>7 DEF Restart
<1>8. ASSUME Reset PROVE Goal
  BY <1>2, <1>8 DEF Reset, mgr
<1>9. ASSUME NEW p \in Players, NEW d \in Dungeons, NEW owner \in {p} \cup Leaders, EnterNewRaid(p, owner, d)
      PROVE  Goal
  <2>1. owner \in Players
    BY LockBoundsAssumption
  <2>2. PICK k, m, x : /\ k = <<owner, d>> /\ m = The(FreeNames(locks, k, next))
                       /\ locks' = [locks EXCEPT ![m] = x]
    BY <1>9 DEF EnterNewRaid
  <2>3. stored = {} /\ GenerateInstanceId
    BY <1>9 DEF EnterNewRaid, Up
  <2>4. locks[m] = Nothing
    BY <2>1, <2>2, <2>3, NewLockName
  <2>5. locks'[l] = locks[l]
    BY <1>1, <2>2, <2>4
  <2> QED
    BY <1>2, <2>5
<1>10. ASSUME NEW m, NEW u, locks' = [locks EXCEPT ![m].use = u] PROVE Goal
  <2>1. PICK x, y, z : x = locks[l] /\ y = locks'[l] /\ z = [x EXCEPT !.use = u]
    OBVIOUS
  <2>2. y = x \/ y = z
    BY <1>1, <1>10, <2>1
  <2>3. z.st = x.st /\ z.expiry = x.expiry /\ z.mask = x.mask
    BY <1>1, <2>1 DEF LockObjects
  <2> QED
    BY <1>4, <2>1, <2>2, <2>3
<1>11. ASSUME NEW p \in Players, NEW d \in Dungeons, NEW owner \in {p} \cup Leaders, EnterRaid(p, owner, d)
       PROVE  Goal
  <2>1. \/ Fail("freed")
        \/ locks' = locks
        \/ \E m : locks' = [locks EXCEPT ![m].use = TRUE]
    BY <1>11 DEF EnterRaid
  <2> QED
    BY <1>2, <1>3, <1>10, <2>1 DEF Fail
<1>12. ASSUME NEW p \in Players, NEW d \in Dungeons, NEW ext \in BOOLEAN, Extend(p, d, ext) PROVE Goal
  <2>1. PICK m : locks' = [locks EXCEPT ![m].ext = ext]
    BY <1>12 DEF Extend
  <2>2. PICK x, y, z : x = locks[l] /\ y = locks'[l] /\ z = [x EXCEPT !.ext = ext]
    OBVIOUS
  <2>3. y = x \/ y = z
    BY <1>1, <2>1, <2>2
  <2>4. z.st = x.st /\ z.expiry = x.expiry /\ z.mask = x.mask
    BY <1>1, <2>2 DEF LockObjects
  <2> QED
    BY <1>4, <2>2, <2>3, <2>4
<1>13. ASSUME NEW p \in Players, NEW d \in Dungeons, ResetInstanceLocks(p, d) PROVE Goal
  <2>1. PICK m \in Held(locks, <<p, d>>, "perm") :
           ~locks[m].use /\ locks' = [locks EXCEPT ![m].expiry = week - 1, ![m].ext = FALSE]
    BY <1>13 DEF ResetInstanceLocks
  <2>2. CASE m = l
    <3>1. Key(l) = <<p, d>>
      BY <2>1, <2>2, KeyOf, HeldIs
    <3>2. ~locks[l].use /\ ResetInstanceLocks(Key(l)[1], Key(l)[2])
      BY <1>13, <2>1, <2>2, <3>1
    <3> QED
      BY <3>2 DEF Goal
  <2>3. CASE m # l
    <3>1. locks'[l] = locks[l]
      BY <1>1, <2>1, <2>3
    <3> QED
      BY <1>2, <3>1
  <2> QED
    BY <2>2, <2>3
<1>14. ASSUME NEW p, NEW pending, Leave(p, pending) PROVE Goal
  <2>1. Fail("freed") \/ locks' = locks
    BY <1>14 DEF Leave, mgr
  <2> QED
    BY <1>2, <1>3, <2>1 DEF Fail
<1>15. ASSUME NEW p \in Players, ConfirmPendingBind(p) PROVE Goal
  <2>1. CASE inside[p] = Outside \/ inside[p][2] # bind[p]
    <3>1. locks' = locks
      BY <1>15, <2>1 DEF ConfirmPendingBind, mgr
    <3> QED
      BY <1>2, <3>1
  <2>2. CASE inside[p] # Outside /\ inside[p][2] = bind[p]
    <3>1. CASE \E why \in {"assert", "freed"} : Fail(why)
      BY <1>3, <3>1 DEF Fail
    <3>2. CASE \E ls, rs : /\ LockTable(ls, data, rs) /\ Kept(locks, ls)
                           /\ Commit(ls, data, rs, inst, [bind EXCEPT ![p] = 0])
      BY <1>5, <3>2
    <3> QED
      BY <1>15, <2>2, <3>1, <3>2, ConfirmStep
  <2> QED
    BY <2>1, <2>2
<1>16. ASSUME NEW key \in live, DestroyRaid(key) PROVE Goal
  <2>1. Fail("freed") \/ \E m : locks' = [locks EXCEPT ![m].use = FALSE]
    BY <1>16 DEF DestroyRaid
  <2> QED
    BY <1>3, <1>10, <2>1 DEF Fail
<1>17. ASSUME NEW key \in live, Expire(key) PROVE Goal
  <2>1. Fail("freed") \/ locks' = locks
    BY <1>17 DEF Expire, mgr
  <2> QED
    BY <1>2, <1>3, <2>1 DEF Fail
<1>18. ASSUME NEW key \in live, NEW e \in SUBSET Encounters, UpdateInstanceLock(key, e) PROVE Goal
  <2>1. CASE \E why \in {"assert", "freed"} : Fail(why)
    BY <1>3, <2>1 DEF Fail
  <2>2. CASE \E ls, ds, rs, ins : /\ LockTable(ls, ds, rs) /\ DataTable(ds, ins) /\ Kept(locks, ls)
                                  /\ Commit(ls, ds, rs, ins, bind)
    BY <1>5, <2>2
  <2> QED
    BY <1>18, <2>1, <2>2, UpdateInstanceLockStep
<1>19. ASSUME ExecuteNext PROVE Goal
  BY <1>2, <1>19 DEF ExecuteNext, mgr
<1>20. ASSUME UNCHANGED lvars PROVE Goal
  BY <1>2, <1>20 DEF lvars, mgr
<1>21. ASSUME NEW p \in Players, LeaveRaid(p) PROVE Goal
  BY <1>14, <1>21 DEF LeaveRaid
<1>22. ASSUME NEW p \in Players, DeclinePendingBind(p) PROVE Goal
  BY <1>14, <1>22 DEF DeclinePendingBind
<1>23. ASSUME NEW p \in Players, NEW d \in Dungeons, NEW owner \in {p} \cup Leaders,
              EnterNewRaid(p, owner, d) \/ EnterRaid(p, owner, d)
       PROVE  Goal
  BY <1>9, <1>11, <1>23
<1>24. Goal
  BY <1>6, <1>7, <1>8, <1>12, <1>13, <1>15, <1>16, <1>17, <1>18, <1>20, <1>21, <1>22, <1>23, <1>19 DEF LNext
<1> QED
  BY <1>24 DEF Goal

\* A player saved to an instance in which an encounter is done stays saved to it, with all
\* that was done, until the reset, whatever he and others do; only a game master ends it, or
\* the server going down before the worker of the database has executed the save.
THEOREM SavedStaysSavedHolds == LSpec => SavedStaysSaved
<1> DEFINE Saved2 == \A k \in Keys : \A l \in ActivePerm(locks, k) :
                        \/ locks[l].mask = {} \/ Expired(locks[l])
                        \/ week' # week
                        \/ ResetInstanceLocks(k[1], k[2])
                        \/ /\ SavedIn(Tables, k, l) /\ ~SavedIn(Disk, k, l)
                           /\ \E why \in {"no", "assert", "freed"} : GoDown(why)
                        \/ \E n \in 1..MaxCopies : LET lock == locks'[<<k, IdOf(l), n>>] IN
                              lock.st = "perm" /\ lock.expiry >= week /\ locks[l].mask \subseteq lock.mask
<1>1. LockInv /\ [LNext]_lvars => Saved2
  <2> SUFFICES ASSUME LockInv, [LNext]_lvars, NEW k \in Keys, NEW l \in ActivePerm(locks, k),
                      locks[l].mask # {}, ~Expired(locks[l]), week' = week,
                      ~ResetInstanceLocks(k[1], k[2])
               PROVE  \/ /\ SavedIn(Tables, k, l) /\ ~SavedIn(Disk, k, l)
                         /\ \E why \in {"no", "assert", "freed"} : GoDown(why)
                      \/ \E n \in 1..MaxCopies : LET lock == locks'[<<k, IdOf(l), n>>] IN
                            lock.st = "perm" /\ lock.expiry >= week /\ locks[l].mask \subseteq lock.mask
    OBVIOUS
  <2>1. /\ l \in LockNames /\ Key(l) = k /\ In(locks, l) /\ locks[l] \in LockObjects
        /\ locks[l].st = "perm" /\ rows[k] = RowOf(l, locks[l]) /\ rows[k] \in LockRows
    BY PermIs DEF ActivePerm
  <2>2. locks[l].expiry >= week
    <3>1. locks[l].expiry \in Int /\ week \in Int
      BY <2>1 DEF LockObjects, LockInv, LTypeOK
    <3> QED
      BY <3>1 DEF Expired
  <2>3. l = <<k, IdOf(l), l[3]>> /\ l[3] \in 1..MaxCopies /\ IdOf(l) \in Ids
    BY <2>1, Names
  <2>4. CASE /\ In(locks', l) /\ locks'[l].expiry >= week /\ locks[l].mask \subseteq locks'[l].mask
             /\ (locks[l].st = "perm" => locks'[l].st = "perm")
    BY <2>1, <2>3, <2>4
  <2>5. SavedIn(Tables, k, l)
    <3>1. rows[k].id = IdOf(l) /\ rows[k].mask = locks[l].mask /\ rows[k].expiry = locks[l].expiry
      BY <2>1 DEF RowOf
    <3>2. rows[k] # Nothing
      BY <2>1, Somethings
    <3> QED
      BY <2>2, <3>1, <3>2 DEF SavedIn, Tables
  <2>6. ASSUME NEW why \in {"no", "assert", "freed"}, GoDown(why), SavedIn(Disk, k, l)
        PROVE  \E n \in 1..MaxCopies : LET lock == locks'[<<k, IdOf(l), n>>] IN
                  lock.st = "perm" /\ lock.expiry >= week /\ locks[l].mask \subseteq lock.mask
    <3>1. PICK t : t = Disk
      OBVIOUS
    <3>2. PICK rs, ins : rs = t.rows /\ ins = t.inst
      OBVIOUS
    <3>3. Load(rs, ins, why)
      BY <2>6, <3>1, <3>2 DEF GoDown
    <3>4. /\ rs[k] # Nothing /\ rs[k].id = IdOf(l) /\ rs[k].expiry >= week
          /\ locks[l].mask \subseteq rs[k].mask
      BY <2>6, <3>1, <3>2 DEF SavedIn
    <3>5. /\ Loadable(rs, ins)
          /\ rs[k].mask # {} /\ ins[rs[k].id] = Nothing => byId[rs[k].id] = Nullptr
      BY <3>1, <3>2, <3>4, DiskIs DEF Passable
    <3>6. byId[IdOf(l)] # Nullptr
      <4>1. byId[IdOf(l)] = locks[l].shared
        BY <2>1 DEF LockInv, LockTable, Table, Sharing
      <4>2. locks[l].shared \in DataNames
        BY <2>1 DEF LockObjects
      <4> QED
        BY <4>1, <4>2, DataNameIs
    <3>7. rs[k] \in LockRows /\ ins[rs[k].id] # Nothing
      BY <3>4, <3>5, <3>6 DEF Loadable
    <3>8. PICK m : m = <<k, IdOf(l), 1>>
      OBVIOUS
    <3>9. m = <<k, rs[k].id, 1>> /\ rs[k].id \in Ids
      BY <2>3, <3>4, <3>8
    <3>10. locks'[m].st = "perm" /\ locks'[m].expiry = rs[k].expiry /\ locks'[m].mask = rs[k].mask
      BY <3>3, <3>7, <3>9, LoadedLock
    <3>11. 1 \in 1..MaxCopies
      BY LockBoundsAssumption
    <3> QED
      BY <3>4, <3>8, <3>10, <3>11
  <2>7. ~(~locks[l].use /\ ResetInstanceLocks(Key(l)[1], Key(l)[2]))
    BY <2>1
  <2> QED
    BY <2>1, <2>2, <2>4, <2>5, <2>6, <2>7, StepKeeps
<1> QED
  BY <1>1, LockInvariant, PTL DEF LSpec, SavedStaysSaved

\* While a map is live, only the reset ends the lock it was created with.
THEOREM InUseUntilResetHolds == LSpec => InUseUntilReset
<1> DEFINE Used == \A i \in Ids : mapLock[i] # Nullptr =>
                      LET l == mapLock[i]
                      IN  Alloc(l) /\ ~Expired(locks[l]) /\ week' = week /\ mapLock'[i] = l =>
                             locks'[l].st # "freed" /\ locks'[l].expiry >= week
<1>1. LockInv /\ [LNext]_lvars => Used
  <2> SUFFICES ASSUME LockInv, [LNext]_lvars, NEW i \in Ids, mapLock[i] # Nullptr, NEW l, l = mapLock[i],
                      Alloc(l), ~Expired(locks[l]), week' = week, mapLock'[i] = l
               PROVE  locks'[l].st # "freed" /\ locks'[l].expiry >= week
    OBVIOUS
  <2>1. LTypeOK /\ MapLocks(locks)
    BY DEF LockInv, LockTable
  <2>2. l \in LockNames /\ l # Nullptr /\ In(locks, l) /\ locks[l].use
    BY <2>1 DEF LTypeOK, MapLocks, Alloc, In
  <2>3. locks[l].expiry >= week
    <3>1. locks[l].expiry \in Int /\ week \in Int
      BY <2>1, <2>2, InIsObject DEF LTypeOK, LockObjects
    <3> QED
      BY <3>1 DEF Expired
  <2>4. ~\E why \in {"no", "assert", "freed"} : GoDown(why)
    BY <2>2 DEF GoDown, Load
  <2> QED
    BY <2>2, <2>3, <2>4, StepKeeps DEF In
<1> QED
  BY <1>1, LockInvariant, PTL DEF LSpec, InUseUntilReset
================================================================================
