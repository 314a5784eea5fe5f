------------------------- MODULE WorldSessions_proofs -------------------------
(***************************************************************************)
(* What WorldSessions promises for any accounts, limits, tolerance and      *)
(* number of sessions: who owns a session, what the login queue holds, that *)
(* it is served in order, that the player limit is kept and that no place   *)
(* stays empty while somebody waits.                                        *)
(***************************************************************************)
EXTENDS WorldSessions, SequenceTheorems, FiniteSetTheorems, TLAPS

\* m_QueuedPlayer holds each session once, and only sessions that still wait.
Queued ==
    /\ IsInjective(queue)
    /\ ToSet(queue) \cap admitted = {}
    /\ pc # "gone" => ToSet(queue) \subseteq listed \cap inQueue

\* Only sessions of m_sessions have been initialized.
Admitted ==
    /\ admitted \subseteq listed
    /\ ~stopping => listed = admitted \cup ToSet(queue)

\* The pass of UpdateSessions has sessions left only while it runs, and the world
\* is torn down only after the main loop.
Order ==
    /\ pc # "update" => todo = {}
    /\ pc \in {"stopped", "gone"} => stopping

\* m_sessions is finite, so that its size is a number.
Finite == IsFiniteSet(listed)

Inv == TypeOK /\ Queued /\ Admitted /\ OwnedOnce /\ Order /\ Finite

-----------------------------------------------------------------------------
(* The operations on sequences of sessions. *)

\* x stands in front of y.
Before(q, x, y) == \E i, j \in DOMAIN q : i < j /\ q[i] = x /\ q[j] = y

\* What the proofs use of a sequence: its length, its members and Contains.
LEMMA SeqFacts ==
    ASSUME NEW S, NEW q \in Seq(S)
    PROVE  /\ Len(q) \in Nat /\ DOMAIN q = 1..Len(q)
           /\ \A i \in 1..Len(q) : q[i] \in S
           /\ ToSet(q) \subseteq S
           /\ \A x : x \in ToSet(q) <=> \E i \in 1..Len(q) : q[i] = x
           /\ \A x : Contains(q, x) <=> x \in ToSet(q)
  <1>1. Len(q) \in Nat /\ DOMAIN q = 1..Len(q) /\ \A i \in 1..Len(q) : q[i] \in S
    BY LenProperties
  <1>2. \A x : x \in ToSet(q) <=> \E i \in 1..Len(q) : q[i] = x
    BY <1>1 DEF ToSet
  <1> QED BY <1>1, <1>2 DEF Contains

\* erase: what is left is the sequence without the one element.
LEMMA EraseEffect ==
    ASSUME NEW S, NEW q \in Seq(S), IsInjective(q), NEW s
    PROVE  LET r == RemoveFirst(q, s) IN
           /\ r \in Seq(S) /\ IsInjective(r)
           /\ ToSet(r) = ToSet(q) \ {s}
           /\ Len(r) = IF Contains(q, s) THEN Len(q) - 1 ELSE Len(q)
           /\ \A x, y : x # s /\ y # s /\ Before(q, x, y) => Before(r, x, y)
  <1> DEFINE r == RemoveFirst(q, s)
  <1>1. Len(q) \in Nat /\ DOMAIN q = 1..Len(q) /\ \A i \in 1..Len(q) : q[i] \in S
    BY SeqFacts
  <1>2. CASE ~Contains(q, s)
    <2>1. r = q
      BY <1>2 DEF RemoveFirst, Contains
    <2>2. s \notin ToSet(q)
      BY <1>2, SeqFacts
    <2> QED BY <1>2, <2>1, <2>2
  <1>3. CASE Contains(q, s)
    <2>1. PICK k \in 1..Len(q) : q[k] = s
      BY <1>3 DEF Contains
    <2>2. {i \in 1..Len(q) : q[i] = s} = {k}
      BY <1>1, <2>1 DEF IsInjective
    <2>3. Min({k}) = k
      BY <1>1 DEF Min
    <2>4. SelectInSeq(q, LAMBDA v : v = s) = k
      BY <2>2, <2>3 DEF SelectInSeq
    <2>5. r = SubSeq(q, 1, k - 1) \o SubSeq(q, k + 1, Len(q))
      BY <1>3, <2>4 DEF RemoveFirst, RemoveAt, Contains
    <2>6. /\ SubSeq(q, 1, k - 1) \in Seq(S) /\ Len(SubSeq(q, 1, k - 1)) = k - 1
          /\ \A i \in 1..(k - 1) : SubSeq(q, 1, k - 1)[i] = q[i]
      BY <1>1, SubSeqProperties
    <2>7. /\ SubSeq(q, k + 1, Len(q)) \in Seq(S)
          /\ Len(SubSeq(q, k + 1, Len(q))) = Len(q) - k
          /\ \A i \in 1..(Len(q) - k) : SubSeq(q, k + 1, Len(q))[i] = q[k + i]
      <3>1. k + 1 \in Int /\ Len(q) \in Int /\ \A i \in (k + 1)..Len(q) : q[i] \in S
        BY <1>1
      <3>2. /\ SubSeq(q, k + 1, Len(q)) \in Seq(S)
            /\ Len(SubSeq(q, k + 1, Len(q))) =
                   IF k + 1 <= Len(q) THEN Len(q) - (k + 1) + 1 ELSE 0
            /\ \A i \in 1..(Len(q) - (k + 1) + 1) :
                   SubSeq(q, k + 1, Len(q))[i] = q[(k + 1) + i - 1]
        BY <3>1, SubSeqProperties
      <3>3. Len(q) - (k + 1) + 1 = Len(q) - k /\ \A i \in Int : (k + 1) + i - 1 = k + i
        BY <1>1
      <3>4. Len(SubSeq(q, k + 1, Len(q))) = Len(q) - k
        <4>1. CASE k + 1 <= Len(q)
          BY <3>2, <3>3, <4>1
        <4>2. CASE ~(k + 1 <= Len(q))
          <5>1. Len(q) - k = 0
            <6>1. k \in Int /\ Len(q) \in Int /\ k <= Len(q) /\ Len(q) < k + 1
              BY <1>1, <4>2
            <6> HIDE <4>2
            <6> QED BY <6>1
          <5> QED BY <3>2, <4>2, <5>1
        <4> QED BY <4>1, <4>2
      <3>5. \A i \in 1..(Len(q) - k) : SubSeq(q, k + 1, Len(q))[i] = q[k + i]
        BY <3>2, <3>3
      <3> QED BY <3>2, <3>4, <3>5
    <2>8. /\ r \in Seq(S) /\ Len(r) = Len(q) - 1
          /\ \A i \in 1..(Len(q) - 1) : r[i] = IF i < k THEN q[i] ELSE q[i + 1]
      <3> DEFINE a == SubSeq(q, 1, k - 1)
                 b == SubSeq(q, k + 1, Len(q))
      <3>1. /\ a \o b \in Seq(S) /\ Len(a \o b) = Len(a) + Len(b)
            /\ \A i \in 1..(Len(a) + Len(b)) :
                 (a \o b)[i] = IF i <= Len(a) THEN a[i] ELSE b[i - Len(a)]
        BY <2>6, <2>7, ConcatProperties
      <3> HIDE DEF a, b
      <3>2. /\ r = a \o b /\ Len(a) = k - 1 /\ Len(b) = Len(q) - k
            /\ \A i \in 1..(k - 1) : a[i] = q[i]
            /\ \A i \in 1..(Len(q) - k) : b[i] = q[k + i]
        BY <2>5, <2>6, <2>7 DEF a, b
      <3> HIDE DEF r
      <3>3. r \in Seq(S) /\ Len(r) = Len(q) - 1
        <4>1. Len(r) = (k - 1) + (Len(q) - k)
          BY <3>1, <3>2
        <4>2. (k - 1) + (Len(q) - k) = Len(q) - 1
          BY <1>1
        <4> QED BY <3>1, <3>2, <4>1, <4>2
      <3>4. ASSUME NEW i \in 1..(Len(q) - 1) PROVE r[i] = IF i < k THEN q[i] ELSE q[i + 1]
        <4>1. r[i] = IF i <= k - 1 THEN a[i] ELSE b[i - (k - 1)]
          BY <1>1, <3>1, <3>2
        <4>2. CASE i < k
          BY <1>1, <3>2, <4>1, <4>2
        <4>3. CASE ~(i < k)
          <5>1. i - (k - 1) \in 1..(Len(q) - k) /\ k + (i - (k - 1)) = i + 1
            BY <1>1, <4>3
          <5> QED BY <1>1, <3>2, <4>1, <4>3, <5>1
        <4> QED BY <4>2, <4>3
      <3> QED BY <3>3, <3>4
    <2> HIDE DEF r
    <2>9. DOMAIN r = 1..(Len(q) - 1)
      BY <2>8, SeqFacts
    <2>10. /\ \A i \in 1..(Len(q) - 1) : i < k => r[i] = q[i]
           /\ \A i \in 1..(Len(q) - 1) : k <= i => r[i] = q[i + 1] /\ i + 1 \in 1..Len(q)
      BY <1>1, <2>8
    <2>11. IsInjective(r)
      <3> SUFFICES ASSUME NEW i \in 1..(Len(q) - 1), NEW j \in 1..(Len(q) - 1), r[i] = r[j]
                   PROVE  i = j
        BY <2>9 DEF IsInjective
      <3>1. \A m, n \in 1..Len(q) : q[m] = q[n] => m = n
        BY <1>1 DEF IsInjective
      <3> QED BY <1>1, <2>10, <3>1
    <2>12. ToSet(r) = ToSet(q) \ {s}
      <3>1. ASSUME NEW x \in ToSet(r) PROVE x \in ToSet(q) \ {s}
        <4>1. PICK i \in 1..(Len(q) - 1) : r[i] = x
          BY <2>8, SeqFacts
        <4>2. \E j \in 1..Len(q) : j # k /\ q[j] = x
          BY <1>1, <2>10, <4>1
        <4> QED BY <1>1, <2>1, <4>2, SeqFacts DEF IsInjective
      <3>2. ASSUME NEW x \in ToSet(q) \ {s} PROVE x \in ToSet(r)
        <4>1. PICK j \in 1..Len(q) : q[j] = x /\ j # k
          BY <2>1, SeqFacts
        <4>2. CASE j < k
          <5>1. j \in 1..(Len(q) - 1) /\ r[j] = x
            BY <1>1, <2>10, <4>1, <4>2
          <5> QED BY <2>8, <5>1, SeqFacts
        <4>3. CASE k < j
          <5>1. j - 1 \in 1..(Len(q) - 1) /\ k <= j - 1 /\ (j - 1) + 1 = j
            BY <1>1, <4>1, <4>3
          <5>2. r[j - 1] = x
            BY <2>10, <4>1, <5>1
          <5> QED BY <2>8, <5>1, <5>2, SeqFacts
        <4> QED BY <1>1, <4>1, <4>2, <4>3
      <3> QED BY <3>1, <3>2
    <2>13. ASSUME NEW x, NEW y, x # s, y # s, Before(q, x, y) PROVE Before(r, x, y)
      <3>1. PICK i \in 1..Len(q), j \in 1..Len(q) : i < j /\ q[i] = x /\ q[j] = y
        BY <1>1, <2>13 DEF Before
      <3>2. i # k /\ j # k
        BY <2>1, <2>13, <3>1
      <3> DEFINE down(n) == IF n < k THEN n ELSE n - 1
      <3>3. /\ down(i) \in 1..(Len(q) - 1) /\ down(j) \in 1..(Len(q) - 1) /\ down(i) < down(j)
        BY <1>1, <3>1, <3>2
      <3>4. r[down(i)] = x /\ r[down(j)] = y
        <4>1. \A n \in 1..Len(q) : n # k /\ down(n) \in 1..(Len(q) - 1) => r[down(n)] = q[n]
          <5> SUFFICES ASSUME NEW n \in 1..Len(q), n # k, down(n) \in 1..(Len(q) - 1)
                       PROVE  r[down(n)] = q[n]
            OBVIOUS
          <5>1. CASE n < k
            BY <2>10, <5>1
          <5>2. CASE k < n
            <6>1. k <= n - 1 /\ down(n) = n - 1 /\ (n - 1) + 1 = n
              BY <1>1, <5>2
            <6> QED BY <2>10, <6>1
          <5> QED BY <1>1, <5>1, <5>2
        <4> QED BY <3>1, <3>2, <3>3, <4>1
      <3> QED BY <2>9, <3>3, <3>4 DEF Before
    <2> QED BY <1>3, <2>8, <2>11, <2>12, <2>13 DEF r
  <1> QED BY <1>2, <1>3

\* pop_front: nobody stood in front of the first.
LEMMA TailEffect ==
    ASSUME NEW S, NEW q \in Seq(S), IsInjective(q), q # <<>>
    PROVE  /\ Tail(q) \in Seq(S) /\ IsInjective(Tail(q)) /\ Len(Tail(q)) = Len(q) - 1
           /\ Head(q) \in ToSet(q) /\ ToSet(Tail(q)) = ToSet(q) \ {Head(q)}
           /\ \A x : ~Before(q, x, Head(q))
           /\ \A x, y : x # Head(q) /\ Before(q, x, y) => Before(Tail(q), x, y)
  <1> DEFINE r == Tail(q)
  <1>1. /\ Len(q) \in Nat /\ DOMAIN q = 1..Len(q) /\ Len(q) > 0
        /\ r \in Seq(S) /\ Len(r) = Len(q) - 1 /\ Head(q) = q[1]
        /\ \A i \in 1..(Len(q) - 1) : r[i] = q[i + 1]
    BY HeadTailProperties, SeqFacts, EmptySeq
  <1> HIDE DEF r
  <1>2. DOMAIN r = 1..(Len(q) - 1)
    BY <1>1, SeqFacts
  <1>3. \A m, n \in 1..Len(q) : q[m] = q[n] => m = n
    BY <1>1 DEF IsInjective
  <1>4. IsInjective(r)
    BY <1>1, <1>2, <1>3 DEF IsInjective
  <1>5. Head(q) \in ToSet(q)
    BY <1>1, SeqFacts
  <1>6. ASSUME NEW x \in ToSet(r) PROVE x \in ToSet(q) \ {Head(q)}
    <2>1. PICK i \in 1..(Len(q) - 1) : r[i] = x
      BY <1>1, SeqFacts
    <2>2. i + 1 \in 1..Len(q) /\ q[i + 1] = x /\ i + 1 # 1
      BY <1>1, <2>1
    <2> QED BY <1>1, <1>3, <2>2, SeqFacts
  <1>7. ASSUME NEW x \in ToSet(q) \ {Head(q)} PROVE x \in ToSet(r)
    <2>1. PICK j \in 1..Len(q) : q[j] = x /\ j # 1
      BY <1>1, SeqFacts
    <2>2. j - 1 \in 1..(Len(q) - 1) /\ r[j - 1] = x
      BY <1>1, <2>1
    <2> QED BY <1>1, <2>2, SeqFacts
  <1>8. ASSUME NEW x PROVE ~Before(q, x, Head(q))
    <2> SUFFICES ASSUME NEW i \in 1..Len(q), NEW j \in 1..Len(q), i < j, q[j] = q[1] PROVE FALSE
      BY <1>1 DEF Before
    <2> QED BY <1>1, <1>3
  <1>9. ASSUME NEW x, NEW y, x # Head(q), Before(q, x, y) PROVE Before(r, x, y)
    <2>1. PICK i \in 1..Len(q), j \in 1..Len(q) : i < j /\ q[i] = x /\ q[j] = y
      BY <1>1, <1>9 DEF Before
    <2>2. i - 1 \in 1..(Len(q) - 1) /\ j - 1 \in 1..(Len(q) - 1) /\ i - 1 < j - 1
      BY <1>1, <1>9, <2>1
    <2>3. r[i - 1] = x /\ r[j - 1] = y
      BY <1>1, <2>1, <2>2
    <2> QED BY <1>2, <2>2, <2>3 DEF Before
  <1> QED BY <1>1, <1>4, <1>5, <1>6, <1>7, <1>8, <1>9 DEF r

\* push_back
LEMMA AppendEffect ==
    ASSUME NEW S, NEW q \in Seq(S), IsInjective(q), NEW s \in S, s \notin ToSet(q)
    PROVE  /\ Append(q, s) \in Seq(S) /\ IsInjective(Append(q, s))
           /\ Len(Append(q, s)) = Len(q) + 1
           /\ ToSet(Append(q, s)) = ToSet(q) \cup {s}
  <1> DEFINE r == Append(q, s)
  <1>1. /\ r \in Seq(S) /\ Len(q) \in Nat /\ DOMAIN q = 1..Len(q) /\ Len(r) = Len(q) + 1
        /\ \A i \in 1..Len(q) : r[i] = q[i] /\ q[i] # s
        /\ r[Len(q) + 1] = s
    BY AppendProperties, SeqFacts
  <1> HIDE DEF r
  <1>2. DOMAIN r = 1..(Len(q) + 1)
    BY <1>1, SeqFacts
  <1>3. IsInjective(r)
    BY <1>1, <1>2 DEF IsInjective
  <1>4. ToSet(r) = ToSet(q) \cup {s}
    BY <1>1, <1>2 DEF ToSet
  <1> QED BY <1>1, <1>3, <1>4 DEF r

\* A sequence without repetitions is as long as it has elements.
LEMMA Size ==
    ASSUME NEW S, NEW q \in Seq(S), IsInjective(q)
    PROVE  IsFiniteSet(ToSet(q)) /\ Cardinality(ToSet(q)) = Len(q)
  <1>1. Len(q) \in Nat /\ DOMAIN q = 1..Len(q) /\ q \in [1..Len(q) -> S]
    BY LenProperties
  <1>2. q \in Bijection(1..Len(q), ToSet(q))
    BY <1>1 DEF Bijection, Injection, Surjection, IsInjective, ToSet
  <1>3. ExistsBijection(1..Len(q), ToSet(q))
    BY <1>2 DEF ExistsBijection
  <1>4. IsFiniteSet(1..Len(q)) /\ Cardinality(1..Len(q)) = Len(q)
    BY <1>1, FS_Interval
  <1> QED BY <1>3, <1>4, FS_Bijection

-----------------------------------------------------------------------------
(* World::RemoveQueuedPlayer. *)

\* The places left in the queue once s is out of it.
Rest(q, s) == IF Contains(q, s) THEN Len(q) - 1 ELSE Len(q)

\* Somebody is let in.
Pops(q, size, s) == HasRoom(Without(Contains(q, s), size - Len(q))) /\ Rest(q, s) > 0

\* RemoveQueuedPlayer takes s and the one it lets in out of the queue, keeps the
\* others in order, and lets in only the first.
LEMMA RemoveQueuedPlayerEffect ==
    ASSUME NEW q \in Seq(Sessions), IsInjective(q), NEW size, NEW s
    PROVE  LET R == RemoveQueuedPlayer(q, size, s) IN
           /\ R.found = Contains(q, s)
           /\ R.queue \in Seq(Sessions) /\ IsInjective(R.queue)
           /\ R.admitted \subseteq ToSet(q) \ {s}
           /\ ToSet(R.queue) = (ToSet(q) \ {s}) \ R.admitted
           /\ \A x, y : Before(q, x, y) /\ y \in R.admitted => x \notin ToSet(R.queue)
           /\ \A x, y : x \in ToSet(R.queue) /\ y \in ToSet(R.queue) /\ Before(q, x, y)
                            => Before(R.queue, x, y)
           /\ Len(R.queue) = IF Pops(q, size, s) THEN Rest(q, s) - 1 ELSE Rest(q, s)
           /\ R.admitted # {} <=> Pops(q, size, s)
  <1> DEFINE rest == RemoveFirst(q, s)
             room == HasRoom(Without(Contains(q, s), size - Len(q)))
             pop  == room /\ rest # <<>>
             R    == RemoveQueuedPlayer(q, size, s)
  <1>1. /\ rest \in Seq(Sessions) /\ IsInjective(rest)
        /\ ToSet(rest) = ToSet(q) \ {s} /\ Len(rest) = Rest(q, s)
        /\ \A x, y : x # s /\ y # s /\ Before(q, x, y) => Before(rest, x, y)
    BY EraseEffect DEF Rest
  <1>2. /\ R.found = Contains(q, s)
        /\ R.queue = IF pop THEN Tail(rest) ELSE rest
        /\ R.admitted = IF pop THEN {Head(rest)} ELSE {}
    BY DEF RemoveQueuedPlayer, Accept
  <1> HIDE DEF rest, R, room
  <1>3. pop <=> Pops(q, size, s)
    <2>1. rest # <<>> <=> Rest(q, s) > 0
      BY <1>1, EmptySeq, SeqFacts
    <2> QED BY <2>1 DEF Pops, room
  <1>4. CASE ~pop
    <2>1. R.queue = rest /\ R.admitted = {}
      BY <1>2, <1>4
    <2>2. \A x \in ToSet(rest) : x # s
      BY <1>1
    <2> QED BY <1>1, <1>2, <1>3, <1>4, <2>1, <2>2 DEF R
  <1>5. CASE pop
    <2>1. R.queue = Tail(rest) /\ R.admitted = {Head(rest)} /\ rest # <<>>
      BY <1>2, <1>5
    <2>2. /\ Tail(rest) \in Seq(Sessions) /\ IsInjective(Tail(rest))
          /\ Len(Tail(rest)) = Len(rest) - 1
          /\ Head(rest) \in ToSet(rest) /\ ToSet(Tail(rest)) = ToSet(rest) \ {Head(rest)}
          /\ \A x : ~Before(rest, x, Head(rest))
          /\ \A x, y : x # Head(rest) /\ Before(rest, x, y) => Before(Tail(rest), x, y)
      BY <1>1, <2>1, TailEffect
    <2>3. ASSUME NEW x, NEW y, Before(q, x, y), y \in R.admitted PROVE x \notin ToSet(R.queue)
      <3>1. y = Head(rest) /\ y # s
        BY <1>1, <2>1, <2>2, <2>3
      <3>2. x = s
        BY <1>1, <2>2, <2>3, <3>1
      <3> QED BY <1>1, <2>1, <2>2, <3>2
    <2>4. ASSUME NEW x, NEW y, x \in ToSet(R.queue), y \in ToSet(R.queue), Before(q, x, y)
          PROVE  Before(R.queue, x, y)
      BY <1>1, <2>1, <2>2, <2>4
    <2>5. ToSet(R.queue) = (ToSet(q) \ {s}) \ R.admitted /\ R.admitted \subseteq ToSet(q) \ {s}
      BY <1>1, <2>1, <2>2
    <2>6. Len(R.queue) = Rest(q, s) - 1 /\ R.admitted # {}
      BY <1>1, <2>1, <2>2
    <2> QED BY <1>2, <1>3, <1>5, <2>1, <2>2, <2>3, <2>4, <2>5, <2>6 DEF R
  <1> QED BY <1>4, <1>5

\* Deleting sessions keeps the objects well typed.
LEMMA DeleteEffect ==
    ASSUME ObjectTypes, NEW gone, Delete(gone)
    PROVE  ObjectTypes' /\ live' = live \ gone
  <1>1. "none" \in PlayerStates /\ Expiry \in 1..Expiry
    BY ConstantsAssumption DEF PlayerStates
  <1> QED BY <1>1 DEF ObjectTypes, Delete

\* The session of the account that s replaces, if there is one.
LEMMA OldIs ==
    ASSUME OwnedOnce, NEW s
    PROVE  Old(s) = {} \/ \E o \in listed : Old(s) = {o}
  BY DEF OwnedOnce, Old

\* What AddSession_ finds in the queue after it has taken the old session out.
LEMMA LeaveQueueEffect ==
    ASSUME Inv, NEW s
    PROVE  LET L == LeaveQueue(s) IN
           /\ L.queue \in Seq(Sessions) /\ IsInjective(L.queue)
           /\ L.admitted \subseteq ToSet(queue) \ Old(s)
           /\ ToSet(L.queue) = (ToSet(queue) \ Old(s)) \ L.admitted
           /\ \A x, y : Before(queue, x, y) /\ y \in L.admitted => x \notin ToSet(L.queue)
  <1>1. queue \in Seq(Sessions) /\ IsInjective(queue) /\ OwnedOnce
    BY DEF Inv, TypeOK, ListTypes, Queued
  <1>2. CASE Old(s) = {}
    <2>1. LeaveQueue(s).queue = queue /\ LeaveQueue(s).admitted = {}
      BY <1>2 DEF LeaveQueue
    <2> QED BY <1>1, <1>2, <2>1
  <1>3. ASSUME NEW o \in listed, Old(s) = {o}
        PROVE  LET L == LeaveQueue(s) IN
               /\ L.queue \in Seq(Sessions) /\ IsInjective(L.queue)
               /\ L.admitted \subseteq ToSet(queue) \ Old(s)
               /\ ToSet(L.queue) = (ToSet(queue) \ Old(s)) \ L.admitted
               /\ \A x, y : Before(queue, x, y) /\ y \in L.admitted => x \notin ToSet(L.queue)
    <2>1. (CHOOSE x \in Old(s) : TRUE) = o
      BY <1>3
    <2>2. LeaveQueue(s) = RemoveQueuedPlayer(queue, Cardinality(listed), o)
      BY <1>3, <2>1 DEF LeaveQueue
    <2> QED BY <1>1, <1>3, <2>2, RemoveQueuedPlayerEffect
  <1> QED BY <1>1, <1>2, <1>3, OldIs

-----------------------------------------------------------------------------
(* The steps. *)

\* A network thread publishes a session nobody else knows.
LEMMA AddSessionStep ==
    ASSUME Inv, NEW s \in Sessions, AddSession(s)
    PROVE  Inv'
  <1>1. /\ pc # "gone" /\ s \notin live /\ Len(adding) < MaxPending
        /\ live' = live \cup {s} /\ open' = open \cup {s} /\ adding' = Append(adding, s)
        /\ UNCHANGED <<player, expire, forced, listed, queue, inQueue, admitted>>
        /\ UNCHANGED <<limit, disconnects, now, pc, todo, stopping>>
    BY DEF AddSession, control
  <1>2. adding \in Seq(Sessions) /\ IsInjective(adding) /\ s \notin ToSet(adding)
    BY <1>1 DEF Inv, TypeOK, ListTypes, OwnedOnce
  <1>3. /\ adding' \in Seq(Sessions) /\ IsInjective(adding')
        /\ Len(adding') = Len(adding) + 1 /\ ToSet(adding') = ToSet(adding) \cup {s}
    BY <1>1, <1>2, AppendEffect
  <1>4. TypeOK'
    <2>1. Len(adding') <= MaxPending
      BY <1>1, <1>2, <1>3, ConstantsAssumption, SeqFacts
    <2>2. ListTypes'
      BY <1>1, <1>3, <2>1 DEF Inv, TypeOK, ListTypes
    <2>3. ObjectTypes'
      BY <1>1 DEF Inv, TypeOK, ObjectTypes
    <2>4. ControlTypes'
      BY <1>1 DEF Inv, TypeOK, ControlTypes
    <2> QED BY <2>2, <2>3, <2>4 DEF TypeOK
  <1>5. Queued' /\ Admitted' /\ Order' /\ Finite'
    BY <1>1 DEF Inv, Queued, Admitted, Order, Finite
  <1>6. OwnedOnce'
    BY <1>1, <1>3 DEF Inv, OwnedOnce
  <1> QED BY <1>4, <1>5, <1>6 DEF Inv

\* AddSession_ takes the first session out of addSessQueue.
LEMMA TakeEffect ==
    ASSUME Inv, AddSession_
    PROVE  LET s == Head(adding) IN
           /\ s \in Sessions /\ s \in live /\ s \notin listed /\ s \notin ToSet(queue)
           /\ adding' \in Seq(Sessions) /\ IsInjective(adding') /\ Len(adding') <= MaxPending
           /\ ToSet(adding') = ToSet(adding) \ {s}
           /\ s \in ToSet(adding)
  <1>1. adding # <<>> /\ adding' = Tail(adding) /\ pc = "add"
    BY DEF AddSession_
  <1>2. adding \in Seq(Sessions) /\ IsInjective(adding) /\ Len(adding) <= MaxPending
    BY DEF Inv, TypeOK, ListTypes, OwnedOnce
  <1>3. /\ Tail(adding) \in Seq(Sessions) /\ IsInjective(Tail(adding))
        /\ Len(Tail(adding)) = Len(adding) - 1
        /\ Head(adding) \in ToSet(adding)
        /\ ToSet(Tail(adding)) = ToSet(adding) \ {Head(adding)}
    BY <1>1, <1>2, TailEffect
  <1>4. Len(adding) \in Nat /\ ToSet(adding) \subseteq Sessions
    BY <1>2, SeqFacts
  <1>5. /\ ToSet(queue) \subseteq listed /\ listed \cap ToSet(adding) = {}
        /\ ToSet(adding) \subseteq live
    BY <1>1 DEF Inv, Queued, OwnedOnce
  <1> QED BY <1>1, <1>2, <1>3, <1>4, <1>5, ConstantsAssumption

\* The new session is deleted: the old one is loading a player.
LEMMA RejectSessionStep ==
    ASSUME Inv, AddSession_, RejectSession(Head(adding))
    PROVE  Inv'
  <1>1. PICK s : s = Head(adding)
    OBVIOUS
  <1>2. /\ s \in Sessions /\ s \in live /\ s \notin listed /\ s \notin ToSet(queue)
        /\ adding' \in Seq(Sessions) /\ IsInjective(adding') /\ Len(adding') <= MaxPending
        /\ ToSet(adding') = ToSet(adding) \ {s} /\ s \in ToSet(adding)
    BY <1>1, TakeEffect
  <1>3. /\ Delete({s}) /\ UNCHANGED <<listed, queue, inQueue, admitted>>
        /\ UNCHANGED <<limit, disconnects, now, pc, todo, stopping>>
    BY <1>1 DEF RejectSession, AddSession_, control
  <1>4. ObjectTypes' /\ live' = live \ {s}
    BY <1>3, DeleteEffect DEF Inv, TypeOK
  <1>5. TypeOK'
    BY <1>2, <1>3, <1>4 DEF Inv, TypeOK, ListTypes, ControlTypes
  <1>6. Queued' /\ Admitted' /\ Order' /\ Finite'
    BY <1>3 DEF Inv, Queued, Admitted, Order, Finite
  <1>7. OwnedOnce'
    BY <1>2, <1>3, <1>4 DEF Inv, OwnedOnce
  <1> QED BY <1>5, <1>6, <1>7 DEF Inv

\* m_sessions.size() as AddSession_ counts it against the limit.
InsertCount(s) ==
    LET size == Cardinality((listed \ Old(s)) \cup {s})
    IN IF LeaveQueue(s).found THEN size ELSE size - 1

MustQueue(s) == limit > 0 /\ InsertCount(s) >= limit /\ ~Exempt(s)

\* What AddSession_ does to the lists, member by member.
LEMMA InsertEffect ==
    ASSUME Inv, AddSession_, NEW s, s = Head(adding), InsertSession(s)
    PROVE  LET L == LeaveQueue(s) IN
           /\ Delete(Old(s))
           /\ listed' = (listed \ Old(s)) \cup {s}
           /\ \A x : x \in inQueue' <=>
                        (x \in inQueue /\ x \notin Old(s)) \/ (MustQueue(s) /\ x = s)
           /\ \A x : x \in admitted' <=> \/ (x \in admitted \/ x \in L.admitted) /\ x \notin Old(s)
                                         \/ ~MustQueue(s) /\ x = s
           /\ queue' \in Seq(Sessions) /\ IsInjective(queue')
           /\ \A x : x \in ToSet(queue') <=>
                        \/ x \in ToSet(queue) /\ x \notin Old(s) /\ x \notin L.admitted
                        \/ MustQueue(s) /\ x = s
           /\ Len(queue') = IF MustQueue(s) THEN Len(L.queue) + 1 ELSE Len(L.queue)
  <1> DEFINE L == LeaveQueue(s)
  <1>1. /\ Delete(Old(s))
        /\ listed' = (listed \ Old(s)) \cup {s}
        /\ queue' = IF MustQueue(s) THEN Append(L.queue, s) ELSE L.queue
        /\ inQueue' = (inQueue \ Old(s)) \cup (IF MustQueue(s) THEN {s} ELSE {})
        /\ admitted' = ((admitted \cup L.admitted) \ Old(s))
                           \cup (IF MustQueue(s) THEN {} ELSE {s})
    BY DEF InsertSession, Replaced, MustQueue, InsertCount, Exempt
  <1>2. s \in Sessions /\ s \notin ToSet(queue)
    BY TakeEffect
  <1>3. /\ L.queue \in Seq(Sessions) /\ IsInjective(L.queue)
        /\ L.admitted \subseteq ToSet(queue) \ Old(s)
        /\ ToSet(L.queue) = (ToSet(queue) \ Old(s)) \ L.admitted
    BY LeaveQueueEffect
  <1> HIDE DEF L
  <1>4. CASE MustQueue(s)
    <2>1. s \notin ToSet(L.queue)
      BY <1>2, <1>3
    <2>2. /\ queue' = Append(L.queue, s) /\ inQueue' = (inQueue \ Old(s)) \cup {s}
          /\ admitted' = (admitted \cup L.admitted) \ Old(s)
      BY <1>1, <1>4
    <2>3. /\ queue' \in Seq(Sessions) /\ IsInjective(queue') /\ Len(queue') = Len(L.queue) + 1
          /\ ToSet(queue') = ToSet(L.queue) \cup {s}
      BY <1>2, <1>3, <2>1, <2>2, AppendEffect
    <2>4. \A x : x \in ToSet(queue') <=>
                    (x \in ToSet(queue) /\ x \notin Old(s) /\ x \notin L.admitted) \/ x = s
      BY <1>3, <2>3
    <2> QED BY <1>1, <1>4, <2>2, <2>3, <2>4 DEF L
  <1>5. CASE ~MustQueue(s)
    <2>2. /\ queue' = L.queue /\ inQueue' = inQueue \ Old(s)
          /\ admitted' = ((admitted \cup L.admitted) \ Old(s)) \cup {s}
      BY <1>1, <1>5
    <2>4. \A x : x \in ToSet(queue') <=>
                    x \in ToSet(queue) /\ x \notin Old(s) /\ x \notin L.admitted
      BY <1>3, <2>2
    <2> QED BY <1>1, <1>3, <1>5, <2>2, <2>4 DEF L
  <1> QED BY <1>4, <1>5

\* The new session takes the place of the old one, in the queue or in the world.
LEMMA InsertSessionStep ==
    ASSUME Inv, AddSession_, InsertSession(Head(adding))
    PROVE  Inv'
  <1>1. PICK s, adm, must, old : s = Head(adding) /\ adm = LeaveQueue(s).admitted
                                  /\ must = MustQueue(s) /\ old = Old(s)
    OBVIOUS
  <1>2. /\ s \in Sessions /\ s \in live /\ s \notin listed /\ s \notin ToSet(queue)
        /\ adding' \in Seq(Sessions) /\ IsInjective(adding') /\ Len(adding') <= MaxPending
        /\ ToSet(adding') = ToSet(adding) \ {s} /\ s \in ToSet(adding)
    BY <1>1, TakeEffect
  <1>3. pc = "add" /\ UNCHANGED <<limit, disconnects, now, pc, todo, stopping>>
    BY DEF AddSession_, control
  <1>4. /\ Delete(old)
        /\ listed' = (listed \ old) \cup {s}
        /\ \A x : x \in inQueue' <=> (x \in inQueue /\ x \notin old) \/ (must /\ x = s)
        /\ \A x : x \in admitted' <=> \/ (x \in admitted \/ x \in adm) /\ x \notin old
                                      \/ ~must /\ x = s
        /\ queue' \in Seq(Sessions) /\ IsInjective(queue')
        /\ \A x : x \in ToSet(queue') <=> \/ x \in ToSet(queue) /\ x \notin old /\ x \notin adm
                                          \/ must /\ x = s
    BY <1>1, InsertEffect
  <1>5. adm \subseteq ToSet(queue) \ old
    BY <1>1, LeaveQueueEffect
  <1>6. old \subseteq listed /\ \A t \in listed : t \in old <=> Account(t) = Account(s)
    BY <1>1 DEF Old
  <1>7. /\ ToSet(queue) \subseteq listed \cap inQueue /\ ToSet(queue) \cap admitted = {}
        /\ admitted \subseteq listed /\ listed \subseteq Sessions
        /\ ~stopping => listed = admitted \cup ToSet(queue)
    BY <1>3 DEF Inv, Queued, Admitted, TypeOK, ListTypes
  <1>8. ObjectTypes' /\ live' = live \ old
    BY <1>4, DeleteEffect DEF Inv, TypeOK
  <1>9. TypeOK'
    <2>1. todo' = {}
      BY <1>3 DEF Inv, Order
    <2>2. /\ inQueue \subseteq Sessions /\ admitted \subseteq Sessions
          /\ ToSet(queue) \subseteq Sessions
      BY <1>7 DEF Inv, TypeOK, ListTypes
    <2>3. listed' \subseteq Sessions
      BY <1>2, <1>4, <1>7
    <2>4. inQueue' \subseteq Sessions
      BY <1>2, <1>4, <2>2
    <2>5. admitted' \subseteq Sessions
      BY <1>2, <1>4, <1>5, <2>2
    <2>6. ListTypes'
      BY <1>2, <1>4, <2>1, <2>3, <2>4, <2>5 DEF ListTypes
    <2>7. ControlTypes'
      BY <1>3 DEF Inv, TypeOK, ControlTypes
    <2> QED BY <1>8, <2>6, <2>7 DEF TypeOK
  <1>10. Queued'
    <2>1. s \notin admitted /\ s \notin adm
      BY <1>2, <1>5, <1>7
    <2>2. ToSet(queue') \subseteq listed'
      BY <1>4, <1>7
    <2>3. ToSet(queue') \subseteq inQueue'
      BY <1>4, <1>7
    <2>4. ToSet(queue') \cap admitted' = {}
      BY <1>2, <1>4, <1>7, <2>1
    <2> QED BY <1>4, <2>2, <2>3, <2>4 DEF Queued
  <1>11. Admitted'
    <2>1. admitted' \subseteq listed'
      BY <1>4, <1>5, <1>7
    <2>2. ASSUME ~stopping' PROVE listed' = admitted' \cup ToSet(queue')
      <3>1. listed = admitted \cup ToSet(queue)
        BY <1>3, <1>7, <2>2
      <3>2. \A x : x \in listed' <=> (x \in listed /\ x \notin old) \/ x = s
        BY <1>4
      <3>3. \A x : x \in listed' <=> x \in admitted' \/ x \in ToSet(queue')
        BY <1>4, <1>5, <1>6, <3>1, <3>2
      <3> QED BY <3>3
    <2> QED BY <2>1, <2>2 DEF Admitted
  <1>12. OwnedOnce'
    <2>1. live' = listed' \cup ToSet(adding') /\ listed' \cap ToSet(adding') = {}
      BY <1>2, <1>4, <1>6, <1>8 DEF Inv, OwnedOnce
    <2>2. \A t, u \in listed' : Account(t) = Account(u) => t = u
      BY <1>4, <1>6 DEF Inv, OwnedOnce
    <2> QED BY <1>2, <2>1, <2>2 DEF OwnedOnce
  <1>13. Order'
    BY <1>3 DEF Inv, Order
  <1>14. Finite'
    <2>1. IsFiniteSet(listed \ old)
      BY FS_Subset DEF Inv, Finite
    <2> QED BY <1>4, <2>1, FS_AddElement DEF Finite
  <1> QED BY <1>9, <1>10, <1>11, <1>12, <1>13, <1>14 DEF Inv

\* UpdateSessions takes s out of the queue twice: what both calls do together.
LEMMA DropEffect ==
    ASSUME Inv, NEW s
    PROVE  LET first  == RemoveQueuedPlayer(queue, Cardinality(listed), s)
               second == RemoveQueuedPlayer(first.queue, Cardinality(listed), s)
               adm    == first.admitted \cup second.admitted
           IN /\ second.queue \in Seq(Sessions) /\ IsInjective(second.queue)
              /\ adm \subseteq ToSet(queue) \ {s}
              /\ ToSet(second.queue) = (ToSet(queue) \ {s}) \ adm
              /\ \A x, y : Before(queue, x, y) /\ y \in adm => x \notin ToSet(second.queue)
  <1>1. PICK size : size = Cardinality(listed)
    OBVIOUS
  <1> DEFINE first  == RemoveQueuedPlayer(queue, size, s)
             second == RemoveQueuedPlayer(first.queue, size, s)
             adm    == first.admitted \cup second.admitted
  <1>2. queue \in Seq(Sessions) /\ IsInjective(queue)
    BY DEF Inv, TypeOK, ListTypes, Queued
  <1>3. /\ first.queue \in Seq(Sessions) /\ IsInjective(first.queue)
        /\ first.admitted \subseteq ToSet(queue) \ {s}
        /\ ToSet(first.queue) = (ToSet(queue) \ {s}) \ first.admitted
        /\ \A x, y : Before(queue, x, y) /\ y \in first.admitted => x \notin ToSet(first.queue)
        /\ \A x, y : x \in ToSet(first.queue) /\ y \in ToSet(first.queue) /\ Before(queue, x, y)
                        => Before(first.queue, x, y)
    BY <1>2, RemoveQueuedPlayerEffect
  <1> HIDE DEF first
  <1>4. /\ second.queue \in Seq(Sessions) /\ IsInjective(second.queue)
        /\ second.admitted \subseteq ToSet(first.queue) \ {s}
        /\ ToSet(second.queue) = (ToSet(first.queue) \ {s}) \ second.admitted
        /\ \A x, y : Before(first.queue, x, y) /\ y \in second.admitted
                        => x \notin ToSet(second.queue)
    BY <1>3, RemoveQueuedPlayerEffect
  <1> HIDE DEF second
  <1>5. adm \subseteq ToSet(queue) \ {s} /\ ToSet(second.queue) = (ToSet(queue) \ {s}) \ adm
    BY <1>3, <1>4
  <1>6. ASSUME NEW x, NEW y, Before(queue, x, y), y \in adm, x \in ToSet(second.queue)
        PROVE  FALSE
    <2>1. x \in ToSet(first.queue)
      BY <1>4, <1>6
    <2>2. y \in second.admitted
      BY <1>3, <1>6, <2>1
    <2>3. Before(first.queue, x, y)
      BY <1>3, <1>4, <1>6, <2>1, <2>2
    <2> QED BY <1>4, <1>6, <2>2, <2>3
  <1> QED BY <1>1, <1>4, <1>5, <1>6 DEF first, second

\* WorldSession::Update returned true.
LEMMA KeepSessionStep ==
    ASSUME Inv, NEW s \in Sessions, UpdateSession(s),
           NEW connected, NEW lost, NEW p \in PlayerStates, NEW ready,
           ready => s \in admitted,
           KeepSession(s, connected, lost, p, ready)
    PROVE  Inv'
  <1>1. /\ pc = "update" /\ todo' = todo \ {s}
        /\ UNCHANGED <<adding, limit, now, pc, stopping>>
    BY DEF UpdateSession
  <1>2. /\ (connected /\ ~lost) \/ ~Expired(s, p)
        /\ player' = [player EXCEPT ![s] = p]
        /\ expire' = [expire EXCEPT ![s] = IF connected /\ ~lost THEN @ ELSE Countdown(s)]
        /\ open' = IF connected THEN open ELSE open \ {s}
        /\ inQueue' = IF ready THEN inQueue \ {s} ELSE inQueue
        /\ UNCHANGED <<live, forced, listed, queue, admitted, disconnects>>
    BY DEF KeepSession
  <1>3. ObjectTypes'
    <2>1. expire[s] \in 1..Expiry /\ Expiry \in Nat
      BY ConstantsAssumption DEF Inv, TypeOK, ObjectTypes
    <2>2. ~(connected /\ ~lost) => Countdown(s) \in 1..Expiry
      BY <1>2, <2>1 DEF Expired, Countdown
    <2>3. expire' \in [Sessions -> 1..Expiry]
      BY <1>2, <2>1, <2>2 DEF Inv, TypeOK, ObjectTypes
    <2>4. player' \in [Sessions -> PlayerStates]
      BY <1>2 DEF Inv, TypeOK, ObjectTypes
    <2>5. open' \subseteq live'
      BY <1>2 DEF Inv, TypeOK, ObjectTypes
    <2> QED BY <1>2, <2>3, <2>4, <2>5 DEF Inv, TypeOK, ObjectTypes
  <1>4. ListTypes'
    <2>1. inQueue' \subseteq inQueue /\ todo' \subseteq todo
      BY <1>1, <1>2
    <2> QED BY <1>1, <1>2, <2>1 DEF Inv, TypeOK, ListTypes
  <1>5. ControlTypes'
    BY <1>1, <1>2 DEF Inv, TypeOK, ControlTypes
  <1>6. Queued'
    <2>1. ToSet(queue) \subseteq listed \cap inQueue /\ ToSet(queue) \cap admitted = {}
      BY <1>1 DEF Inv, Queued
    <2>2. ToSet(queue) \subseteq inQueue'
      BY <1>2, <2>1
    <2> QED BY <1>2, <2>1, <2>2 DEF Inv, Queued
  <1>7. Admitted' /\ OwnedOnce' /\ Finite'
    BY <1>1, <1>2 DEF Inv, Admitted, OwnedOnce, Finite
  <1>8. Order'
    BY <1>1 DEF Inv, Order
  <1> QED BY <1>3, <1>4, <1>5, <1>6, <1>7, <1>8 DEF Inv, TypeOK

\* WorldSession::Update returned false.
LEMMA DropSessionStep ==
    ASSUME Inv, NEW s \in Sessions, UpdateSession(s),
           NEW connected, NEW lost, NEW p, DropSession(s, connected, lost, p)
    PROVE  Inv'
  <1>1. /\ pc = "update" /\ s \in todo /\ todo' = todo \ {s}
        /\ UNCHANGED <<adding, limit, now, pc, stopping>>
    BY DEF UpdateSession
  <1>2. PICK q, adm :
          LET first  == RemoveQueuedPlayer(queue, Cardinality(listed), s)
              second == RemoveQueuedPlayer(first.queue, Cardinality(listed), s)
          IN q = second.queue /\ adm = first.admitted \cup second.admitted
    OBVIOUS
  <1>3. /\ queue' = q /\ admitted' = (admitted \cup adm) \ {s}
        /\ inQueue' = inQueue \ {s} /\ listed' = listed \ {s} /\ Delete({s})
        /\ \/ disconnects' = disconnects
           \/ disconnects' = [disconnects EXCEPT ![Account(s)] = now]
    BY <1>2 DEF DropSession
  <1>4. /\ q \in Seq(Sessions) /\ IsInjective(q) /\ adm \subseteq ToSet(queue) \ {s}
        /\ ToSet(q) = (ToSet(queue) \ {s}) \ adm
    BY <1>2, DropEffect
  <1>5. /\ ToSet(queue) \subseteq listed \cap inQueue /\ ToSet(queue) \cap admitted = {}
        /\ admitted \subseteq listed /\ listed \subseteq Sessions
        /\ ~stopping => listed = admitted \cup ToSet(queue)
    BY <1>1 DEF Inv, Queued, Admitted, TypeOK, ListTypes
  <1>6. ObjectTypes' /\ live' = live \ {s}
    BY <1>3, DeleteEffect DEF Inv, TypeOK
  <1>7. ListTypes'
    <2>1. todo \subseteq listed /\ inQueue \subseteq Sessions
      BY DEF Inv, TypeOK, ListTypes
    <2>2. todo' \subseteq listed' /\ listed' \subseteq Sessions /\ inQueue' \subseteq Sessions
      BY <1>1, <1>3, <1>5, <2>1
    <2>3. admitted' \subseteq Sessions
      BY <1>3, <1>4, <1>5
    <2> QED BY <1>1, <1>3, <1>4, <2>2, <2>3 DEF Inv, TypeOK, ListTypes
  <1>8. ControlTypes'
    <2>1. now \in 0..MaxTime
      BY DEF Inv, TypeOK, ControlTypes
    <2>2. disconnects' \in [Accounts -> {Never} \cup 0..MaxTime]
      BY <1>3, <2>1 DEF Inv, TypeOK, ControlTypes
    <2> QED BY <1>1, <2>2 DEF Inv, TypeOK, ControlTypes
  <1>9. Queued'
    BY <1>3, <1>4, <1>5 DEF Queued
  <1>10. Admitted'
    <2>1. admitted' \subseteq listed'
      BY <1>3, <1>4, <1>5
    <2>2. ~stopping' => listed' = admitted' \cup ToSet(queue')
      BY <1>1, <1>3, <1>4, <1>5
    <2> QED BY <2>1, <2>2 DEF Admitted
  <1>11. OwnedOnce'
    <2>1. s \in listed
      BY <1>1 DEF Inv, TypeOK, ListTypes
    <2> QED BY <1>1, <1>3, <1>6, <2>1 DEF Inv, OwnedOnce
  <1>12. Order'
    BY <1>1 DEF Inv, Order
  <1>13. Finite'
    BY <1>3, FS_Subset DEF Inv, Finite
  <1> QED BY <1>6, <1>7, <1>8, <1>9, <1>10, <1>11, <1>12, <1>13 DEF Inv, TypeOK

\* The steps that leave the lists and the objects alone.
LEMMA WorldThreadStep ==
    ASSUME Inv, BeginUpdateSessions \/ BeginPass \/ EndPass
    PROVE  Inv'
  <1>1. /\ UNCHANGED <<live, open, player, expire, forced>>
        /\ UNCHANGED <<adding, listed, queue, inQueue, admitted>>
        /\ UNCHANGED <<limit, disconnects, stopping>>
    BY DEF BeginUpdateSessions, BeginPass, EndPass, objects, world
  <1>2. OwnedOnce' /\ Finite' /\ ObjectTypes' /\ Admitted'
    BY <1>1 DEF Inv, TypeOK, OwnedOnce, Finite, ObjectTypes, Admitted
  <1>3. /\ pc # "gone" /\ pc' \in {"idle", "add", "update", "stopped"}
        /\ todo' \subseteq listed /\ (pc' # "update" => todo' = {})
        /\ pc' = "stopped" => stopping
    BY DEF Inv, Order, TypeOK, ListTypes, BeginUpdateSessions, BeginPass, EndPass
  <1>4. now' \in 0..MaxTime
    <2>1. now \in 0..MaxTime /\ MaxTime \in Nat
      BY ConstantsAssumption DEF Inv, TypeOK, ControlTypes
    <2>2. now' = now \/ now' = (IF now < MaxTime THEN now + 1 ELSE now)
      BY DEF BeginUpdateSessions, BeginPass, EndPass
    <2> QED BY <2>1, <2>2
  <1>5. Queued' /\ Order' /\ ControlTypes' /\ ListTypes'
    BY <1>1, <1>3, <1>4 DEF Inv, TypeOK, Queued, Order, ControlTypes, ListTypes
  <1> QED BY <1>2, <1>5 DEF Inv, TypeOK

\* Kicking changes sockets and flags only; KickAll also empties the queue.
LEMMA KickStep ==
    ASSUME Inv, NEW S, S \subseteq listed, KickPlayers(S),
           UNCHANGED <<adding, listed, inQueue, admitted, limit, disconnects, now, pc, todo>>,
           \/ UNCHANGED <<queue, stopping>>
           \/ queue' = <<>> /\ stopping' = TRUE
    PROVE  Inv'
  <1>1. open' = open \ S /\ forced' = forced \cup S /\ UNCHANGED <<live, player, expire>>
    BY DEF KickPlayers
  <1>2. S \subseteq live
    BY DEF Inv, OwnedOnce
  <1>3. ObjectTypes'
    BY <1>1, <1>2 DEF Inv, TypeOK, ObjectTypes
  <1>4. OwnedOnce' /\ Finite'
    BY <1>1 DEF Inv, OwnedOnce, Finite
  <1>5. CASE UNCHANGED <<queue, stopping>>
    BY <1>3, <1>4, <1>5 DEF Inv, TypeOK, ListTypes, ControlTypes, Queued, Admitted, Order
  <1>6. CASE queue' = <<>> /\ stopping' = TRUE
    <2>1. queue' \in Seq(Sessions) /\ IsInjective(queue') /\ ToSet(queue') = {}
      BY <1>6 DEF IsInjective, ToSet
    <2>2. Queued' /\ Admitted' /\ Order'
      BY <1>6, <2>1 DEF Inv, Queued, Admitted, Order
    <2>3. ListTypes' /\ ControlTypes'
      BY <1>6, <2>1 DEF Inv, TypeOK, ListTypes, ControlTypes
    <2> QED BY <1>3, <1>4, <2>2, <2>3 DEF Inv, TypeOK
  <1> QED BY <1>5, <1>6

\* ~World deletes what is left in m_sessions.
LEMMA DestroyWorldStep ==
    ASSUME Inv, DestroyWorld
    PROVE  Inv'
  <1>1. /\ pc = "stopped" /\ pc' = "gone" /\ listed' = {} /\ inQueue' = inQueue \ listed
        /\ admitted' = admitted \ listed /\ Delete(listed)
        /\ UNCHANGED <<adding, queue, limit, disconnects, now, todo, stopping>>
    BY DEF DestroyWorld
  <1>2. ObjectTypes' /\ live' = live \ listed
    BY <1>1, DeleteEffect DEF Inv, TypeOK
  <1>3. todo = {} /\ stopping /\ admitted' = {}
    BY <1>1 DEF Inv, Order, Admitted
  <1>4. Queued' /\ Admitted' /\ Order'
    BY <1>1, <1>3 DEF Inv, Queued, Admitted, Order
  <1>5. ListTypes' /\ ControlTypes'
    BY <1>1, <1>3 DEF Inv, TypeOK, ListTypes, ControlTypes
  <1>6. OwnedOnce'
    BY <1>1, <1>2 DEF Inv, OwnedOnce
  <1>7. Finite'
    BY <1>1, FS_EmptySet DEF Finite
  <1> QED BY <1>2, <1>4, <1>5, <1>6, <1>7 DEF Inv, TypeOK

\* The world starts with no session.
LEMMA InitInv == Init => Inv
  <1> SUFFICES ASSUME Init PROVE Inv
    OBVIOUS
  <1>1. <<>> \in Seq(Sessions) /\ IsInjective(<<>>) /\ ToSet(<<>>) = {} /\ Len(<<>>) = 0
    BY DEF IsInjective, ToSet
  <1>2. ListTypes
    BY <1>1, ConstantsAssumption DEF Init, ListTypes
  <1>3. ObjectTypes
    BY ConstantsAssumption DEF Init, ObjectTypes, PlayerStates
  <1>4. ControlTypes
    <2>1. disconnects \in [Accounts -> {Never} \cup 0..MaxTime]
      BY DEF Init
    <2>2. now \in 0..MaxTime
      BY ConstantsAssumption DEF Init
    <2> QED BY <2>1, <2>2 DEF Init, ControlTypes
  <1>5. Queued /\ Admitted /\ Order /\ OwnedOnce
    BY <1>1 DEF Init, Queued, Admitted, Order, OwnedOnce
  <1>6. Finite
    BY FS_EmptySet DEF Init, Finite
  <1> QED BY <1>2, <1>3, <1>4, <1>5, <1>6 DEF Inv, TypeOK

\* Every step of the network threads, the world thread and the commands keeps Inv.
LEMMA NextInv == Inv /\ [Next]_vars => Inv'
  <1> SUFFICES ASSUME Inv, [Next]_vars PROVE Inv'
    OBVIOUS
  <1>1. ASSUME NEW s \in Sessions, AddSession(s) PROVE Inv'
    BY <1>1, AddSessionStep
  <1>2. ASSUME NEW s \in Sessions, Disconnect(s) PROVE Inv'
    BY <1>2 DEF Disconnect, world, control, Inv, TypeOK, ListTypes, ObjectTypes, ControlTypes,
                Queued, Admitted, OwnedOnce, Order, Finite
  <1>3. ASSUME NEW s \in Sessions, KickPlayer(s) PROVE Inv'
    <2>1. /\ KickPlayers({s}) /\ {s} \subseteq listed
          /\ UNCHANGED <<adding, listed, inQueue, admitted, limit, disconnects, now, pc, todo>>
          /\ UNCHANGED <<queue, stopping>>
      BY <1>3 DEF KickPlayer, world, control
    <2> QED BY <2>1, KickStep
  <1>4. ASSUME AddSession_ PROVE Inv'
    BY <1>4, RejectSessionStep, InsertSessionStep DEF AddSession_
  <1>5. ASSUME NEW s \in Sessions, UpdateSession(s) PROVE Inv'
    <2>1. PICK idle, lost, ready \in BOOLEAN, p \in PlayerStates :
            LET connected == s \in open /\ ~idle IN
            /\ ready => s \in admitted
            /\ KeepSession(s, connected, lost, p, ready) \/ DropSession(s, connected, lost, p)
      BY <1>5 DEF UpdateSession
    <2>2. PICK connected : connected = (s \in open /\ ~idle)
      OBVIOUS
    <2>3. CASE KeepSession(s, connected, lost, p, ready)
      BY <1>5, <2>1, <2>3, KeepSessionStep
    <2>4. CASE DropSession(s, connected, lost, p)
      BY <1>5, <2>4, DropSessionStep
    <2> QED BY <2>1, <2>2, <2>3, <2>4
  <1>6. ASSUME BeginUpdateSessions \/ BeginPass \/ EndPass PROVE Inv'
    BY <1>6, WorldThreadStep
  <1>7. ASSUME DestroyWorld PROVE Inv'
    BY <1>7, DestroyWorldStep
  <1>8. ASSUME NEW l \in Limits, SetPlayerAmountLimit(l) PROVE Inv'
    BY <1>8 DEF SetPlayerAmountLimit, objects, world, Inv, TypeOK, ListTypes, ObjectTypes,
                ControlTypes, Queued, Admitted, OwnedOnce, Order, Finite
  <1>9. ASSUME KickAllLess PROVE Inv'
    <2>1. PICK S : S = {s \in listed : Account(s) \notin Privileged}
      OBVIOUS
    <2>2. /\ KickPlayers(S) /\ S \subseteq listed
          /\ UNCHANGED <<adding, listed, inQueue, admitted, limit, disconnects, now, pc, todo>>
          /\ UNCHANGED <<queue, stopping>>
      BY <1>9, <2>1 DEF KickAllLess, world, control
    <2> QED BY <2>2, KickStep
  <1>10. ASSUME KickAll PROVE Inv'
    <2>1. /\ KickPlayers(listed) /\ listed \subseteq listed
          /\ UNCHANGED <<adding, listed, inQueue, admitted, limit, disconnects, now, pc, todo>>
          /\ queue' = <<>> /\ stopping' = TRUE
      BY <1>10 DEF KickAll
    <2> QED BY <2>1, KickStep
  <1>11. ASSUME UNCHANGED vars PROVE Inv'
    BY <1>11 DEF vars, objects, world, control, Inv, TypeOK, ListTypes, ObjectTypes,
                 ControlTypes, Queued, Admitted, OwnedOnce, Order, Finite
  <1> QED BY <1>1, <1>2, <1>3, <1>4, <1>5, <1>6, <1>7, <1>8, <1>9, <1>10, <1>11
          DEF Next, WorldThread, Terminated

\* Inv is an invariant.
LEMMA Invariance == Spec => []Inv
  BY InitInv, NextInv, PTL DEF Spec

-----------------------------------------------------------------------------
(* The steps seen from the login queue. *)

\* Only AddSession_ and the end of a session let somebody in.
LEMMA StepKinds ==
    ASSUME Inv, [Next]_vars
    PROVE  \/ /\ queue' = queue /\ admitted' \subseteq admitted
              /\ listed' = listed \/ stopping'
           \/ queue' = <<>> /\ admitted' = admitted /\ stopping'
           \/ AddSession_ /\ InsertSession(Head(adding))
           \/ \E s \in Sessions : UpdateSession(s)
                  /\ \E connected, lost, p : DropSession(s, connected, lost, p)
  <1> DEFINE Quiet == /\ queue' = queue /\ admitted' \subseteq admitted
                      /\ listed' = listed \/ stopping'
             Drops == \E s \in Sessions : UpdateSession(s)
                          /\ \E connected, lost, p : DropSession(s, connected, lost, p)
  <1>1. ASSUME NEW s \in Sessions, AddSession(s) \/ Disconnect(s) \/ KickPlayer(s) PROVE Quiet
    BY <1>1 DEF AddSession, Disconnect, KickPlayer, world
  <1>2. ASSUME AddSession_ PROVE Quiet \/ InsertSession(Head(adding))
    BY <1>2 DEF AddSession_, RejectSession
  <1>3. ASSUME NEW s \in Sessions, UpdateSession(s)
        PROVE  Quiet \/ \E connected, lost, p : DropSession(s, connected, lost, p)
    <2>1. PICK idle, lost, ready \in BOOLEAN, p \in PlayerStates :
            LET connected == s \in open /\ ~idle IN
            KeepSession(s, connected, lost, p, ready) \/ DropSession(s, connected, lost, p)
      BY <1>3 DEF UpdateSession
    <2>2. PICK connected : connected = (s \in open /\ ~idle)
      OBVIOUS
    <2>3. ASSUME KeepSession(s, connected, lost, p, ready) PROVE Quiet
      BY <2>3 DEF KeepSession
    <2> QED BY <2>1, <2>2, <2>3
  <1>4. ASSUME BeginUpdateSessions \/ BeginPass \/ EndPass PROVE Quiet
    BY <1>4 DEF BeginUpdateSessions, BeginPass, EndPass, world
  <1>5. ASSUME DestroyWorld PROVE Quiet
    BY <1>5 DEF DestroyWorld, Inv, Order
  <1>6. ASSUME NEW l \in Limits, SetPlayerAmountLimit(l) PROVE Quiet
    BY <1>6 DEF SetPlayerAmountLimit, world
  <1>7. ASSUME KickAllLess PROVE Quiet
    BY <1>7 DEF KickAllLess, world
  <1>8. ASSUME KickAll PROVE queue' = <<>> /\ admitted' = admitted /\ stopping'
    BY <1>8 DEF KickAll
  <1>9. ASSUME UNCHANGED vars PROVE Quiet
    BY <1>9 DEF vars, world
  <1> HIDE DEF Quiet
  <1>10. \/ Quiet \/ Drops
         \/ queue' = <<>> /\ admitted' = admitted /\ stopping'
         \/ AddSession_ /\ InsertSession(Head(adding))
    BY <1>1, <1>2, <1>3, <1>4, <1>5, <1>6, <1>7, <1>8, <1>9 DEF Next, WorldThread, Terminated
  <1> QED BY <1>10 DEF Quiet

\* Whoever stands before a session that is let in does not stay in the queue.
LEMMA FairStep ==
    ASSUME Inv, [Next]_vars, NEW x, NEW y, Before(queue, x, y), y \in admitted'
    PROVE  x \notin ToSet(queue')
  <1>1. /\ queue \in Seq(Sessions) /\ ToSet(queue) \cap admitted = {}
        /\ x \in ToSet(queue) /\ y \in ToSet(queue)
    BY DEF Inv, TypeOK, ListTypes, Queued, Before, ToSet
  <1>2. CASE admitted' \subseteq admitted
    BY <1>1, <1>2
  <1>3. CASE queue' = <<>> /\ admitted' = admitted
    BY <1>1, <1>3
  <1>4. CASE AddSession_ /\ InsertSession(Head(adding))
    <2>1. PICK s, L : s = Head(adding) /\ L = LeaveQueue(s)
      OBVIOUS
    <2>2. s \notin ToSet(queue)
      BY <1>4, <2>1, TakeEffect
    <2>3. /\ \A a : a \in admitted' <=> \/ (a \in admitted \/ a \in L.admitted) /\ a \notin Old(s)
                                        \/ ~MustQueue(s) /\ a = s
          /\ \A a : a \in ToSet(queue') <=>
                        \/ a \in ToSet(queue) /\ a \notin Old(s) /\ a \notin L.admitted
                        \/ MustQueue(s) /\ a = s
      BY <1>4, <2>1, InsertEffect
    <2>4. /\ ToSet(L.queue) = (ToSet(queue) \ Old(s)) \ L.admitted
          /\ \A a, b : Before(queue, a, b) /\ b \in L.admitted => a \notin ToSet(L.queue)
      BY <2>1, LeaveQueueEffect
    <2>5. y \in L.admitted
      BY <1>1, <2>2, <2>3
    <2>6. x \notin ToSet(L.queue)
      BY <2>4, <2>5
    <2> QED BY <1>1, <2>2, <2>3, <2>4, <2>6
  <1>5. ASSUME NEW s \in Sessions, UpdateSession(s), NEW connected, NEW lost, NEW p,
               DropSession(s, connected, lost, p)
        PROVE  x \notin ToSet(queue')
    <2>1. PICK q, adm :
            LET first  == RemoveQueuedPlayer(queue, Cardinality(listed), s)
                second == RemoveQueuedPlayer(first.queue, Cardinality(listed), s)
            IN q = second.queue /\ adm = first.admitted \cup second.admitted
      OBVIOUS
    <2>2. queue' = q /\ admitted' = (admitted \cup adm) \ {s}
      BY <1>5, <2>1 DEF DropSession
    <2>3. \A a, b : Before(queue, a, b) /\ b \in adm => a \notin ToSet(q)
      BY <2>1, DropEffect
    <2> QED BY <1>1, <2>2, <2>3
  <1> QED BY <1>2, <1>3, <1>4, <1>5, StepKinds

-----------------------------------------------------------------------------
(* Counting: how many sessions are outside the queue. *)

\* A queue of members of a finite set leaves the others outside.
LEMMA Outside ==
    ASSUME NEW S, IsFiniteSet(S), NEW q \in Seq(Sessions), IsInjective(q), ToSet(q) \subseteq S
    PROVE  /\ Cardinality(S) \in Nat /\ Len(q) \in Nat /\ Len(q) <= Cardinality(S)
           /\ IsFiniteSet(S \ ToSet(q))
           /\ Cardinality(S \ ToSet(q)) = Cardinality(S) - Len(q)
           /\ \A x \in S \ ToSet(q) : Len(q) < Cardinality(S)
  <1>1. IsFiniteSet(ToSet(q)) /\ Cardinality(ToSet(q)) = Len(q) /\ Len(q) \in Nat
    BY Size, SeqFacts
  <1>2. Cardinality(S) \in Nat
    BY FS_CardinalityType
  <1>3. Len(q) <= Cardinality(S) /\ (Cardinality(S) = Len(q) => S = ToSet(q))
    BY <1>1, FS_Subset
  <1>4. S \cap ToSet(q) = ToSet(q)
    OBVIOUS
  <1>5. IsFiniteSet(S \ ToSet(q)) /\ Cardinality(S \ ToSet(q)) = Cardinality(S) - Len(q)
    <2>1. PICK T : T = ToSet(q)
      OBVIOUS
    <2>2. IsFiniteSet(S \ T) /\ Cardinality(S \ T) = Cardinality(S) - Cardinality(S \cap T)
      BY FS_Difference
    <2>3. S \cap T = T
      BY <1>4, <2>1
    <2> QED BY <1>1, <2>1, <2>2, <2>3
  <1> QED BY <1>1, <1>2, <1>3, <1>5

\* The numbers the limit is compared with are numbers.
LEMMA Numbers ==
    ASSUME Inv
    PROVE  Cardinality(listed) \in Nat /\ Len(queue) \in Nat /\ limit \in Nat
  <1>1. IsFiniteSet(listed) /\ queue \in Seq(Sessions) /\ limit \in Limits
    BY DEF Inv, Finite, TypeOK, ListTypes, ControlTypes
  <1>2. Cardinality(listed) \in Nat
    BY <1>1, FS_CardinalityType
  <1>3. Len(queue) \in Nat
    BY <1>1, SeqFacts
  <1> QED BY <1>1, <1>2, <1>3, ConstantsAssumption

\* RemoveQueuedPlayer in numbers, for a session outside or inside the queue.
LEMMA RemovedCount ==
    ASSUME NEW q \in Seq(Sessions), IsInjective(q), NEW size \in Nat, NEW s, NEW l, l = Len(q),
           s \in ToSet(q) \/ l < size, limit \in Nat
    PROVE  LET R == RemoveQueuedPlayer(q, size, s) IN
           /\ (R.found <=> s \in ToSet(q)) /\ l \in Nat
           /\ s \in ToSet(q) =>
                 /\ l > 0
                 /\ \/ (limit = 0 \/ size - l < limit) /\ l > 1 /\ Len(R.queue) = l - 2
                    \/ /\ ~((limit = 0 \/ size - l < limit) /\ l > 1)
                       /\ Len(R.queue) = l - 1 /\ R.admitted = {}
           /\ s \notin ToSet(q) =>
                 \/ (limit = 0 \/ size - l - 1 < limit) /\ l > 0 /\ Len(R.queue) = l - 1
                 \/ /\ ~((limit = 0 \/ size - l - 1 < limit) /\ l > 0)
                    /\ Len(R.queue) = l /\ R.admitted = {}
  <1>1. PICK R : R = RemoveQueuedPlayer(q, size, s)
    OBVIOUS
  <1>2. /\ R.found = Contains(q, s)
        /\ Len(R.queue) = IF Pops(q, size, s) THEN Rest(q, s) - 1 ELSE Rest(q, s)
        /\ R.admitted # {} <=> Pops(q, size, s)
    BY <1>1, RemoveQueuedPlayerEffect
  <1>3. l \in Nat /\ (Contains(q, s) <=> s \in ToSet(q)) /\ (s \in ToSet(q) => l > 0)
    BY SeqFacts
  <1>4. CASE s \in ToSet(q)
    <2>1. /\ Rest(q, s) = l - 1
          /\ Pops(q, size, s) <=> (limit = 0 \/ size - l < limit) /\ l - 1 > 0
      BY <1>3, <1>4 DEF Rest, Pops, HasRoom, Without
    <2> QED BY <1>1, <1>2, <1>3, <1>4, <2>1
  <1>5. CASE s \notin ToSet(q)
    <2>1. size - l > 0
      BY <1>3, <1>5
    <2>2. /\ Rest(q, s) = l
          /\ Pops(q, size, s) <=> (limit = 0 \/ size - l - 1 < limit) /\ l > 0
      BY <1>3, <1>5, <2>1 DEF Rest, Pops, HasRoom, Without
    <2> QED BY <1>1, <1>2, <1>3, <1>5, <2>2
  <1> QED BY <1>4, <1>5

\* What AddSession_ does to the numbers, k sessions being queued once the old one
\* is out of the queue: nothing is replaced, a queued session is, or an active one.
Replaces(s, n, l, k) ==
    \/ /\ Cardinality(listed') = n + 1 /\ InsertCount(s) = n
       /\ k = l /\ LeaveQueue(s).admitted = {}
    \/ /\ Cardinality(listed') = n /\ InsertCount(s) = n /\ l > 0
       /\ \/ (limit = 0 \/ n - l < limit) /\ l > 1 /\ k = l - 2
          \/ /\ ~((limit = 0 \/ n - l < limit) /\ l > 1)
             /\ k = l - 1 /\ LeaveQueue(s).admitted = {}
    \/ /\ Cardinality(listed') = n /\ InsertCount(s) = n - 1 /\ l < n
       /\ \/ (limit = 0 \/ n - l - 1 < limit) /\ l > 0 /\ k = l - 1
          \/ /\ ~((limit = 0 \/ n - l - 1 < limit) /\ l > 0)
             /\ k = l /\ LeaveQueue(s).admitted = {}

\* AddSession_ in numbers.
LEMMA InsertNumbers ==
    ASSUME Inv, AddSession_, NEW s, s = Head(adding), InsertSession(s),
           NEW n, n = Cardinality(listed), NEW l, l = Len(queue),
           NEW k, k = Len(LeaveQueue(s).queue)
    PROVE  /\ n \in Nat /\ l \in Nat /\ limit \in Nat /\ k \in Nat /\ l <= n
           /\ Len(queue') = IF MustQueue(s) THEN k + 1 ELSE k
           /\ Replaces(s, n, l, k)
  <1>1. n \in Nat /\ l \in Nat /\ limit \in Nat
    BY Numbers
  <1>2. s \in Sessions /\ s \notin listed
    BY TakeEffect
  <1>3. /\ queue \in Seq(Sessions) /\ IsInjective(queue) /\ ToSet(queue) \subseteq listed
        /\ IsFiniteSet(listed) /\ OwnedOnce
    BY DEF Inv, TypeOK, ListTypes, Queued, Finite, AddSession_
  <1>4. l <= n /\ \A x \in listed \ ToSet(queue) : l < n
    BY <1>3, Outside
  <1>5. Len(queue') = IF MustQueue(s) THEN k + 1 ELSE k
    BY InsertEffect
  <1>6. listed' = (listed \ Old(s)) \cup {s}
    BY InsertEffect
  <1>7. k \in Nat
    <2>1. LeaveQueue(s).queue \in Seq(Sessions)
      BY LeaveQueueEffect
    <2> QED BY <2>1, SeqFacts
  <1>8. CASE Old(s) = {}
    <2>1. LeaveQueue(s) = [found |-> FALSE, queue |-> queue, admitted |-> {}]
      BY <1>8 DEF LeaveQueue
    <2>2. listed' = listed \cup {s} /\ (listed \ Old(s)) \cup {s} = listed \cup {s}
      BY <1>6, <1>8
    <2>3. Cardinality(listed \cup {s}) = n + 1
      BY <1>2, <1>3, FS_AddElement
    <2>4. InsertCount(s) = n
      <3>1. LeaveQueue(s).found = FALSE
        BY <2>1
      <3>2. InsertCount(s) = Cardinality(listed \cup {s}) - 1
        BY <2>2, <3>1 DEF InsertCount
      <3> QED BY <1>1, <2>3, <3>2
    <2> QED BY <1>1, <1>4, <1>5, <1>7, <2>1, <2>2, <2>3, <2>4 DEF Replaces
  <1>9. ASSUME NEW o \in listed, Old(s) = {o}
        PROVE  Replaces(s, n, l, k)
    <2>1. (CHOOSE x \in Old(s) : TRUE) = o
      BY <1>9
    <2>2. LeaveQueue(s) = RemoveQueuedPlayer(queue, n, o)
      BY <1>9, <2>1 DEF LeaveQueue
    <2>3. IsFiniteSet(listed \ {o}) /\ Cardinality(listed \ {o}) = n - 1
      BY <1>3, <1>9, FS_RemoveElement
    <2>4. PICK T : T = listed \ {o}
      OBVIOUS
    <2>5. Cardinality(T \cup {s}) = n
      <3>1. s \notin T
        BY <1>2, <2>4
      <3>2. Cardinality(T \cup {s}) = Cardinality(T) + 1
        BY <2>3, <2>4, <3>1, FS_AddElement
      <3> QED BY <1>1, <2>3, <2>4, <3>2
    <2>6. Cardinality(listed') = n /\ Cardinality((listed \ Old(s)) \cup {s}) = n
      BY <1>6, <1>9, <2>4, <2>5
    <2>7. InsertCount(s) = IF LeaveQueue(s).found THEN n ELSE n - 1
      BY <2>6 DEF InsertCount
    <2>8. o \in ToSet(queue) \/ l < n
      BY <1>4, <1>9
    <2>9. PICK R : R = RemoveQueuedPlayer(queue, n, o)
      OBVIOUS
    <2>10. /\ o \in ToSet(queue) =>
                 /\ l > 0
                 /\ \/ (limit = 0 \/ n - l < limit) /\ l > 1 /\ Len(R.queue) = l - 2
                    \/ /\ ~((limit = 0 \/ n - l < limit) /\ l > 1)
                       /\ Len(R.queue) = l - 1 /\ R.admitted = {}
           /\ o \notin ToSet(queue) =>
                 \/ (limit = 0 \/ n - l - 1 < limit) /\ l > 0 /\ Len(R.queue) = l - 1
                 \/ /\ ~((limit = 0 \/ n - l - 1 < limit) /\ l > 0)
                    /\ Len(R.queue) = l /\ R.admitted = {}
      <3>1. /\ queue \in Seq(Sessions) /\ IsInjective(queue) /\ n \in Nat /\ l = Len(queue)
            /\ limit \in Nat
        BY <1>1, <1>3
      <3> QED BY <3>1, <2>8, <2>9, RemovedCount
    <2>11. /\ k = Len(R.queue) /\ LeaveQueue(s).admitted = R.admitted
           /\ InsertCount(s) = IF o \in ToSet(queue) THEN n ELSE n - 1
      <3>1. R.found = Contains(queue, o)
        BY <1>3, <2>9, RemoveQueuedPlayerEffect
      <3>2. Contains(queue, o) <=> o \in ToSet(queue)
        BY <1>3, SeqFacts
      <3> QED BY <2>2, <2>7, <2>9, <3>1, <3>2
    <2>12. CASE o \in ToSet(queue)
      BY <2>6, <2>10, <2>11, <2>12 DEF Replaces
    <2>13. CASE o \notin ToSet(queue)
      BY <2>6, <2>8, <2>10, <2>11, <2>13 DEF Replaces
    <2> QED BY <2>12, <2>13
  <1> QED BY <1>1, <1>3, <1>4, <1>5, <1>7, <1>8, <1>9, OldIs

\* What the end of a session does to the numbers: it leaves twice, and each time
\* somebody may be let in.
Leaves(n, l, k) ==
    \/ /\ l > 1 /\ (limit = 0 \/ n - l < limit)
       /\ \/ (limit = 0 \/ n - l + 1 < limit) /\ k = l - 3
          \/ k = l - 2
    \/ l > 0 /\ k = l - 1 /\ admitted' \subseteq admitted
    \/ /\ l > 0 /\ (limit = 0 \/ n - l - 1 < limit)
       /\ \/ (limit = 0 \/ n - l < limit) /\ k = l - 2
          \/ k = l - 1
    \/ /\ ~((limit = 0 \/ n - l - 1 < limit) /\ l > 0)
       /\ k = l /\ admitted' \subseteq admitted

\* The end of a session in numbers.
LEMMA DropNumbers ==
    ASSUME Inv, NEW s \in Sessions, UpdateSession(s),
           NEW connected, NEW lost, NEW p, DropSession(s, connected, lost, p),
           NEW n, n = Cardinality(listed), NEW l, l = Len(queue), NEW k, k = Len(queue')
    PROVE  /\ n \in Nat /\ l \in Nat /\ limit \in Nat /\ k \in Nat /\ l <= n
           /\ Cardinality(listed') = n - 1
           /\ Leaves(n, l, k)
  <1>1. n \in Nat /\ l \in Nat /\ limit \in Nat
    BY Numbers
  <1>2. s \in listed /\ pc # "gone"
    BY DEF UpdateSession, Inv, TypeOK, ListTypes
  <1>3. /\ queue \in Seq(Sessions) /\ IsInjective(queue) /\ ToSet(queue) \subseteq listed
        /\ IsFiniteSet(listed)
    BY <1>2 DEF Inv, TypeOK, ListTypes, Queued, Finite
  <1>4. l <= n /\ (s \in ToSet(queue) \/ l < n)
    BY <1>2, <1>3, Outside
  <1>5. PICK first : first = RemoveQueuedPlayer(queue, n, s)
    OBVIOUS
  <1>6. PICK second : second = RemoveQueuedPlayer(first.queue, n, s)
    OBVIOUS
  <1>7. /\ queue' = second.queue /\ listed' = listed \ {s}
        /\ admitted' = (admitted \cup first.admitted \cup second.admitted) \ {s}
    BY <1>5, <1>6 DEF DropSession
  <1>8. Cardinality(listed') = n - 1
    BY <1>2, <1>3, <1>7, FS_RemoveElement
  <1>9. /\ s \in ToSet(queue) =>
              /\ l > 0
              /\ \/ (limit = 0 \/ n - l < limit) /\ l > 1 /\ Len(first.queue) = l - 2
                 \/ /\ ~((limit = 0 \/ n - l < limit) /\ l > 1)
                    /\ Len(first.queue) = l - 1 /\ first.admitted = {}
        /\ s \notin ToSet(queue) =>
              \/ (limit = 0 \/ n - l - 1 < limit) /\ l > 0 /\ Len(first.queue) = l - 1
              \/ /\ ~((limit = 0 \/ n - l - 1 < limit) /\ l > 0)
                 /\ Len(first.queue) = l /\ first.admitted = {}
    <2>1. PICK q \in Seq(Sessions) : q = queue
      BY <1>3
    <2>2. IsInjective(q) /\ l = Len(q) /\ (s \in ToSet(q) \/ l < n)
      BY <1>3, <1>4, <2>1
    <2>3. first = RemoveQueuedPlayer(q, n, s) /\ n \in Nat /\ limit \in Nat
      BY <1>1, <1>5, <2>1
    <2>4. PICK R : R = RemoveQueuedPlayer(q, n, s)
      OBVIOUS
    <2>5. /\ s \in ToSet(q) =>
                /\ l > 0
                /\ \/ (limit = 0 \/ n - l < limit) /\ l > 1 /\ Len(R.queue) = l - 2
                   \/ /\ ~((limit = 0 \/ n - l < limit) /\ l > 1)
                      /\ Len(R.queue) = l - 1 /\ R.admitted = {}
          /\ s \notin ToSet(q) =>
                \/ (limit = 0 \/ n - l - 1 < limit) /\ l > 0 /\ Len(R.queue) = l - 1
                \/ /\ ~((limit = 0 \/ n - l - 1 < limit) /\ l > 0)
                   /\ Len(R.queue) = l /\ R.admitted = {}
      BY <2>2, <2>3, <2>4, RemovedCount
    <2>6. first = R
      BY <2>3, <2>4
    <2> QED BY <2>1, <2>5, <2>6
  <1>10. /\ first.queue \in Seq(Sessions) /\ IsInjective(first.queue)
         /\ s \notin ToSet(first.queue) /\ ToSet(first.queue) \subseteq listed
    <2>1. /\ first.queue \in Seq(Sessions) /\ IsInjective(first.queue)
          /\ ToSet(first.queue) = (ToSet(queue) \ {s}) \ first.admitted
      BY <1>3, <1>5, RemoveQueuedPlayerEffect
    <2> QED BY <1>3, <2>1
  <1>11. PICK q, m : q = first.queue /\ m = Len(q)
    OBVIOUS
  <1>12. m \in Nat /\ m < n
    BY <1>2, <1>3, <1>10, <1>11, Outside
  <1>13. /\ q \in Seq(Sessions) /\ IsInjective(q) /\ s \notin ToSet(q)
         /\ second = RemoveQueuedPlayer(q, n, s)
    BY <1>6, <1>10, <1>11
  <1>14. \/ (limit = 0 \/ n - m - 1 < limit) /\ m > 0 /\ Len(second.queue) = m - 1
         \/ /\ ~((limit = 0 \/ n - m - 1 < limit) /\ m > 0)
            /\ Len(second.queue) = m /\ second.admitted = {}
    <2>1. PICK R : R = RemoveQueuedPlayer(q, n, s)
      OBVIOUS
    <2>2. q \in Seq(Sessions) /\ IsInjective(q) /\ m = Len(q) /\ m < n /\ s \notin ToSet(q)
      BY <1>11, <1>12, <1>13
    <2>3. \/ (limit = 0 \/ n - m - 1 < limit) /\ m > 0 /\ Len(R.queue) = m - 1
          \/ /\ ~((limit = 0 \/ n - m - 1 < limit) /\ m > 0)
             /\ Len(R.queue) = m /\ R.admitted = {}
      BY <1>1, <2>1, <2>2, RemovedCount
    <2>4. second = R
      BY <1>13, <2>1
    <2> QED BY <2>3, <2>4
  <1>15. k = Len(second.queue) /\ k \in Nat
    BY <1>7, <1>12, <1>14
  <1>16. first.admitted = {} /\ second.admitted = {} => admitted' \subseteq admitted
    BY <1>7
  <1>17. CASE s \in ToSet(queue)
    <2>1. CASE (limit = 0 \/ n - l < limit) /\ l > 1
      <3>1. m = l - 2
        BY <1>9, <1>11, <1>17, <2>1
      <3> QED BY <1>1, <1>4, <1>8, <1>14, <1>15, <2>1, <3>1 DEF Leaves
    <2>2. CASE ~((limit = 0 \/ n - l < limit) /\ l > 1)
      <3>1. m = l - 1 /\ l > 0 /\ first.admitted = {}
        BY <1>9, <1>11, <1>17, <2>2
      <3>2. k = m /\ second.admitted = {}
        BY <1>1, <1>14, <1>15, <2>2, <3>1
      <3> QED BY <1>1, <1>4, <1>8, <1>15, <1>16, <3>1, <3>2 DEF Leaves
    <2> QED BY <2>1, <2>2
  <1>18. CASE s \notin ToSet(queue)
    <2>1. CASE (limit = 0 \/ n - l - 1 < limit) /\ l > 0
      <3>1. m = l - 1
        BY <1>9, <1>11, <1>18, <2>1
      <3> QED BY <1>1, <1>4, <1>8, <1>14, <1>15, <2>1, <3>1 DEF Leaves
    <2>2. CASE ~((limit = 0 \/ n - l - 1 < limit) /\ l > 0)
      <3>1. m = l /\ first.admitted = {}
        BY <1>9, <1>11, <1>18, <2>2
      <3>2. k = m /\ second.admitted = {}
        BY <1>1, <1>14, <1>15, <2>2, <3>1
      <3> QED BY <1>1, <1>4, <1>8, <1>15, <1>16, <2>2, <3>1, <3>2 DEF Leaves
    <2> QED BY <2>1, <2>2
  <1> QED BY <1>17, <1>18

-----------------------------------------------------------------------------
(* The player limit. *)

\* A step that lets an ordinary session in respects the limit.
LEMMA LimitStep ==
    ASSUME Inv, [Next]_vars, limit > 0, NEW e, e \in admitted' \ admitted, ~Exempt(e)
    PROVE  Cardinality(Ordinary' \ {t \in admitted' \ admitted : Exempt(t)}) <= limit
  <1>1. PICK n, l : n = Cardinality(listed) /\ l = Len(queue)
    OBVIOUS
  <1>2. PICK X : X = Ordinary' \ {t \in admitted' \ admitted : Exempt(t)}
    OBVIOUS
  <1>3. PICK T : T = listed' \ ToSet(queue')
    OBVIOUS
  <1>4. X \subseteq T
    BY <1>2, <1>3 DEF Ordinary
  <1>5. Inv'
    BY NextInv
  <1>6. ASSUME pc' # "gone"
        PROVE  /\ IsFiniteSet(T) /\ Cardinality(T) = Cardinality(listed') - Len(queue')
               /\ Cardinality(listed') \in Nat /\ Len(queue') \in Nat
    <2>1. /\ queue' \in Seq(Sessions) /\ IsInjective(queue') /\ ToSet(queue') \subseteq listed'
          /\ IsFiniteSet(listed')
      BY <1>5, <1>6 DEF Inv, TypeOK, ListTypes, Queued, Finite
    <2> QED BY <1>3, <2>1, Outside
  <1>7. CASE AddSession_ /\ InsertSession(Head(adding))
    <2>1. PICK s, k, adm : s = Head(adding) /\ k = Len(LeaveQueue(s).queue)
                               /\ adm = LeaveQueue(s).admitted
      OBVIOUS
    <2>2. pc' # "gone" /\ UNCHANGED limit
      BY <1>7 DEF AddSession_, control
    <2>3. /\ n \in Nat /\ l \in Nat /\ limit \in Nat /\ k \in Nat /\ l <= n
          /\ Len(queue') = IF MustQueue(s) THEN k + 1 ELSE k
          /\ Replaces(s, n, l, k)
      BY <1>1, <1>7, <2>1, InsertNumbers
    <2>4. s \notin admitted /\ s \notin ToSet(queue) /\ s \notin adm
      <3>1. s \notin listed /\ s \notin ToSet(queue)
        BY <1>7, <2>1, TakeEffect
      <3>2. adm \subseteq ToSet(queue)
        BY <2>1, LeaveQueueEffect
      <3> QED BY <3>1, <3>2 DEF Inv, Admitted
    <2>5. /\ \A x : x \in admitted' <=> \/ (x \in admitted \/ x \in adm) /\ x \notin Old(s)
                                        \/ ~MustQueue(s) /\ x = s
          /\ \A x : x \in ToSet(queue') <=> \/ x \in ToSet(queue) /\ x \notin Old(s) /\ x \notin adm
                                            \/ MustQueue(s) /\ x = s
          /\ s \in listed'
      BY <1>7, <2>1, InsertEffect
    <2>6. IsFiniteSet(T) /\ Cardinality(T) = Cardinality(listed') - Len(queue')
      BY <1>6, <2>2
    <2>7. Cardinality(X) <= Cardinality(T) /\ Cardinality(X) \in Nat
      BY <1>4, <2>6, FS_Subset, FS_CardinalityType
    <2>8. CASE MustQueue(s)
      <3>1. adm # {}
        BY <2>5, <2>8
      <3> QED BY <1>2, <2>1, <2>3, <2>6, <2>7, <2>8, <3>1 DEF Replaces
    <2>9. CASE ~MustQueue(s) /\ ~Exempt(s)
      <3>1. Cardinality(listed') <= limit
        <4>1. InsertCount(s) < limit
          BY <2>3, <2>9 DEF MustQueue, Replaces
        <4> QED BY <2>3, <4>1 DEF Replaces
      <3>2. Cardinality(T) <= Cardinality(listed') /\ Cardinality(listed') \in Nat
        <4>1. Cardinality(listed') \in Nat /\ Len(queue') \in Nat
          BY <1>6, <2>2
        <4> QED BY <2>6, <4>1
      <3>3. Cardinality(T) \in Nat /\ limit \in Nat
        BY <2>3, <2>6, FS_CardinalityType
      <3> QED BY <1>2, <2>7, <3>1, <3>2, <3>3
    <2>10. CASE ~MustQueue(s) /\ Exempt(s)
      <3>1. e # s /\ e \in adm
        BY <2>5, <2>10
      <3>2. s \in T /\ s \notin X
        BY <1>2, <1>3, <2>4, <2>5, <2>10
      <3>3. IsFiniteSet(T \ {s}) /\ Cardinality(T \ {s}) = Cardinality(T) - 1
        BY <2>6, <3>2, FS_RemoveElement
      <3>4. X \subseteq T \ {s}
        BY <1>4, <3>2
      <3>5. Cardinality(X) <= Cardinality(T \ {s})
        BY <3>3, <3>4, FS_Subset
      <3> QED BY <1>2, <2>1, <2>3, <2>6, <2>7, <2>10, <3>1, <3>3, <3>5 DEF Replaces
    <2> QED BY <2>8, <2>9, <2>10
  <1>8. ASSUME NEW s \in Sessions, UpdateSession(s), NEW connected, NEW lost, NEW p,
               DropSession(s, connected, lost, p)
        PROVE  Cardinality(X) <= limit
    <2>1. PICK k : k = Len(queue')
      OBVIOUS
    <2>2. pc' # "gone"
      BY <1>8 DEF UpdateSession
    <2>3. /\ n \in Nat /\ l \in Nat /\ limit \in Nat /\ k \in Nat /\ l <= n
          /\ Cardinality(listed') = n - 1
          /\ Leaves(n, l, k)
      BY <1>1, <1>8, <2>1, DropNumbers
    <2>4. IsFiniteSet(T) /\ Cardinality(T) = Cardinality(listed') - Len(queue')
      BY <1>6, <2>2
    <2>5. Cardinality(X) <= Cardinality(T) /\ Cardinality(X) \in Nat
      BY <1>4, <2>4, FS_Subset, FS_CardinalityType
    <2>6. ~(admitted' \subseteq admitted)
      OBVIOUS
    <2> QED BY <2>1, <2>3, <2>4, <2>5, <2>6 DEF Leaves
  <1> QED BY <1>2, <1>7, <1>8, StepKinds

\* A step that leaves a place empty with somebody waiting found it so.
LEMMA NoIdleStep ==
    ASSUME Inv, [Next]_vars, ~stopping', queue' # <<>>, Active' < limit', limit' = limit
    PROVE  queue # <<>> /\ Active < limit
  <1>1. PICK n, l, k : n = Cardinality(listed) /\ l = Len(queue) /\ k = Len(queue')
    OBVIOUS
  <1>2. n \in Nat /\ l \in Nat /\ limit \in Nat
    BY <1>1, Numbers
  <1>3. Inv'
    BY NextInv
  <1>4. pc' # "gone"
    BY <1>3 DEF Inv, Order
  <1>5. k \in Nat /\ k > 0 /\ Cardinality(listed') - k \in Nat /\ Cardinality(listed') - k < limit
    <2>1. /\ queue' \in Seq(Sessions) /\ IsInjective(queue') /\ ToSet(queue') \subseteq listed'
          /\ IsFiniteSet(listed')
      BY <1>3, <1>4 DEF Inv, TypeOK, ListTypes, Queued, Finite
    <2>2. Cardinality(listed') \in Nat /\ k \in Nat /\ k <= Cardinality(listed')
      BY <1>1, <2>1, Outside
    <2>3. k # 0
      BY <1>1, <2>1, EmptySeq
    <2>4. Cardinality(listed') - k < limit
      BY <1>1 DEF Active
    <2> QED BY <2>2, <2>3, <2>4
  <1>6. SUFFICES l > 0 /\ n - l < limit
    <2>1. l > 0 => queue # <<>>
      BY <1>1
    <2> QED BY <1>1, <2>1 DEF Active
  <1>7. CASE queue' = queue /\ listed' = listed
    BY <1>1, <1>2, <1>5, <1>7
  <1>8. CASE AddSession_ /\ InsertSession(Head(adding))
    <2>1. PICK s, m : s = Head(adding) /\ m = Len(LeaveQueue(s).queue)
      OBVIOUS
    <2>2. /\ m \in Nat /\ l <= n /\ Replaces(s, n, l, m)
          /\ Len(queue') = IF MustQueue(s) THEN m + 1 ELSE m
      BY <1>1, <1>8, <2>1, InsertNumbers
    <2>3. MustQueue(s) => InsertCount(s) >= limit
      BY DEF MustQueue
    <2>4. CASE MustQueue(s)
      BY <1>1, <1>2, <1>5, <2>2, <2>3, <2>4 DEF Replaces
    <2>5. CASE ~MustQueue(s)
      BY <1>1, <1>2, <1>5, <2>2, <2>5 DEF Replaces
    <2> QED BY <2>4, <2>5
  <1>9. ASSUME NEW s \in Sessions, UpdateSession(s), NEW connected, NEW lost, NEW p,
               DropSession(s, connected, lost, p)
        PROVE  l > 0 /\ n - l < limit
    <2>1. /\ l <= n /\ Cardinality(listed') = n - 1
          /\ Leaves(n, l, k)
      BY <1>1, <1>9, DropNumbers
    <2> QED BY <1>2, <1>5, <2>1 DEF Leaves
  <1> QED BY <1>7, <1>8, <1>9, StepKinds

-----------------------------------------------------------------------------
(* The results. *)

\* Every reachable state of the session list, the login queue and the session
\* objects is well formed.
THEOREM TypeCorrect == Spec => []TypeOK
  <1>1. Inv => TypeOK
    BY DEF Inv
  <1> QED BY <1>1, Invariance, PTL

\* m_QueuedPlayer never holds a session twice, a deleted one or one already let
\* in, and whoever is not initialized waits in it.
THEOREM QueueIsConsistent == Spec => []QueueConsistent
  <1>1. Inv => QueueConsistent
    BY DEF Inv, Queued, Admitted, QueueConsistent, QueueSound, AdmittedOrQueued
  <1> QED BY <1>1, Invariance, PTL

\* A session object has exactly one owner until it is deleted, and an account
\* has at most one session in m_sessions.
THEOREM SessionsOwnedOnce == Spec => []OwnedOnce
  <1>1. Inv => OwnedOnce
    BY DEF Inv
  <1> QED BY <1>1, Invariance, PTL

\* The login queue is first come, first served: no step lets a session in that
\* leaves somebody waiting who stood before it.
THEOREM ServedInOrder == Spec => QueueFair
  <1> DEFINE Fair == \A i, j \in DOMAIN queue :
                        i < j /\ queue[j] \in admitted' => ~Contains(queue', queue[i])
  <1>1. Inv /\ [Next]_vars => Fair
    <2> SUFFICES ASSUME Inv, [Next]_vars, NEW i \in DOMAIN queue, NEW j \in DOMAIN queue,
                        i < j, queue[j] \in admitted'
                 PROVE  ~Contains(queue', queue[i])
      OBVIOUS
    <2>1. PICK x, y : x = queue[i] /\ y = queue[j]
      OBVIOUS
    <2>2. Before(queue, x, y)
      BY <2>1 DEF Before
    <2>3. x \notin ToSet(queue')
      BY <2>1, <2>2, FairStep
    <2>4. queue' \in Seq(Sessions)
      BY NextInv DEF Inv, TypeOK, ListTypes
    <2> QED BY <2>1, <2>3, <2>4, SeqFacts
  <1>2. Inv /\ [Next]_vars => [Fair]_vars
    BY <1>1
  <1> QED BY <1>2, Invariance, PTL DEF Spec, QueueFair

\* No step that lets an ordinary session in takes the ordinary sessions outside
\* the queue over the player limit, whatever the limit, the tolerance and the
\* number of accounts are.
THEOREM LimitIsKept == Spec => LimitRespected
  <1> DEFINE Kept == LET entering == admitted' \ admitted IN
                     limit > 0 /\ (\E s \in entering : ~Exempt(s))
                     => Cardinality(Ordinary' \ {s \in entering : Exempt(s)}) <= limit
  <1>1. Inv /\ [Next]_vars => Kept
    BY LimitStep
  <1>2. Inv /\ [Next]_vars => [Kept]_vars
    BY <1>1
  <1> QED BY <1>2, Invariance, PTL DEF Spec, LimitRespected

\* No place is left empty while somebody waits, unless the administrator has just
\* opened it: a step that ends below the limit with sessions queued began so.
THEOREM PlacesAreFilled == Spec => NoIdleSlot
  <1> DEFINE Filled == (~stopping' /\ queue' # <<>> /\ Active' < limit' /\ limit' = limit)
                       => (queue # <<>> /\ Active < limit)
  <1>1. Inv /\ [Next]_vars => Filled
    BY NoIdleStep
  <1>2. Inv /\ [Next]_vars => [Filled]_vars
    BY <1>1
  <1> QED BY <1>2, Invariance, PTL DEF Spec, NoIdleSlot
====
