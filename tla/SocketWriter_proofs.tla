-------------------------- MODULE SocketWriter_proofs --------------------------
(***************************************************************************)
(* For any number of producers, packets and steps: MPSCQueueIntrusive is a  *)
(* first-in first-out queue, step by step; a packet in it is neither freed  *)
(* nor forgotten; and the socket writes what was sent, in that order.       *)
(***************************************************************************)
EXTENDS SocketWriter, SequenceTheorems, TLAPS

\* q is the list c without the dummy, which is at d or, past the end, not in it.
Without(c, q, d) ==
    /\ d \in 1..(Len(c) + 1)
    /\ \A i \in 1..Len(c) : c[i] = Dummy <=> i = d
    /\ Len(q) = IF d <= Len(c) THEN Len(c) - 1 ELSE Len(c)
    /\ \A i \in 1..Len(q) : q[i] = IF i < d THEN c[i] ELSE c[i + 1]

Shows(c, q) == \E d \in 1..(Len(c) + 1) : Without(c, q, d)

\* The nodes of c are different.
Apart(c) == \A i, j \in 1..Len(c) : c[i] = c[j] => i = j

Has(c, x) == \E i \in 1..Len(c) : c[i] = x

\* Between the exchange and the store of Enqueue: b comes behind a.
Linking(t, a, b) == enq[t].at = "link" /\ enq[t].prevHead = a /\ enq[t].input = b

\* The nodes from _tail to _head: each is linked to the next one, or a producer is
\* about to do that.
Chain(c) ==
    /\ c \in Seq(Nodes) /\ Len(c) > 0 /\ Apart(c)
    /\ c[1] = tail /\ c[Len(c)] = head /\ link[head] = Nil
    /\ \A i \in 1..(Len(c) - 1) :
        \/ link[c[i]] = c[i + 1]
        \/ link[c[i]] = Nil /\ \E t \in Threads : Linking(t, c[i], c[i + 1])
    /\ Shows(c, queue)

\* Where the calls of Enqueue are.
Enqueues(c) ==
    \A t \in Threads :
        /\ enq[t].at = "none" => enq[t] = NoEnqueue
        /\ enq[t].at # "none" => enq[t].input \in Nodes
        /\ enq[t].at \in {"store", "exchange"} => ~Has(c, enq[t].input)
        /\ enq[t].at = "exchange" => link[enq[t].input] = Nil
        /\ enq[t].at = "link" =>
              /\ link[enq[t].prevHead] = Nil
              /\ \E i \in 1..(Len(c) - 1) : c[i] = enq[t].prevHead /\ c[i + 1] = enq[t].input
        /\ enq[t].input = Dummy => t = Consumer /\ deq.at = "dummy"

\* No two threads enqueue the same element.
Distinct ==
    \A t, u \in Threads :
        enq[t].at # "none" /\ enq[u].at # "none" /\ enq[t].input = enq[u].input => t = u

\* Where the call of Dequeue is.
Dequeues(c) ==
    /\ deq.at = "none" => deq = NoDequeue
    /\ deq.at # "none" => deq.tail = tail /\ npc = "drain" /\ out = {}
    /\ deq.at \in {"loaded", "skipped"} =>
          enq[Consumer].at = "none" /\ (deq.next = Nil \/ deq.next = link[tail])
    /\ deq.at \in {"skipped", "dummy"} => tail # Dummy
    /\ deq.at = "dummy" => IF enq[Consumer].at = "none" THEN Has(c, Dummy)
                           ELSE enq[Consumer].input = Dummy

\* A Dequeue without an excuse: it began with an element in the queue, and no
\* Enqueue has been under way since.
Excuses ==
    deq.at # "none" /\ ~excuse =>
        /\ queue # << >>
        /\ \A t \in Threads : ~Adding(t)
        /\ deq.at \in {"loaded", "skipped"} => deq.next = link[tail]

\* The packets in memory are those in the queue, on their way into it, or in the
\* hands of the network thread.
Enqueued(x) == \E t \in Threads : Adding(t) /\ enq[t].input = x

Accounted ==
    /\ \A x : x \in live <=> Has(queue, x) \/ Enqueued(x) \/ (npc = "pack" /\ x \in out)
    /\ npc = "pack" => \E x \in Elements : out = {x} /\ ~Has(queue, x) /\ ~Enqueued(x)

Inv ==
    /\ QTypeOK
    /\ \E c \in Seq(Nodes) : Chain(c) /\ Enqueues(c) /\ Dequeues(c)
    /\ Distinct
    /\ Excuses
    /\ Accounted

-----------------------------------------------------------------------------
(* Lists of nodes. *)

\* A sequence's length, places and elements.
LEMMA SeqFacts ==
    ASSUME NEW S, NEW s \in Seq(S)
    PROVE  /\ Len(s) \in Nat /\ DOMAIN s = 1..Len(s)
           /\ \A i \in 1..Len(s) : s[i] \in S
           /\ Len(s) > 0 <=> s # << >>
  BY LenProperties, EmptySeq

\* What Tail takes away.
LEMMA TailFacts ==
    ASSUME NEW S, NEW s \in Seq(S), Len(s) > 0
    PROVE  /\ Tail(s) \in Seq(S) /\ Len(Tail(s)) = Len(s) - 1 /\ Head(s) = s[1]
           /\ \A i \in 1..(Len(s) - 1) : Tail(s)[i] = s[i + 1]
  <1>1. s # << >>
    BY EmptySeq, LenProperties
  <1> QED BY <1>1, HeadTailProperties

\* What Append adds.
LEMMA AppendFacts ==
    ASSUME NEW S, NEW s \in Seq(S), NEW x \in S
    PROVE  /\ Append(s, x) \in Seq(S) /\ Len(Append(s, x)) = Len(s) + 1
           /\ \A i \in 1..Len(s) : Append(s, x)[i] = s[i]
           /\ Append(s, x)[Len(s) + 1] = x
  BY AppendProperties, LenProperties

\* The elements of the list are those of the queue.
LEMMA ShowsHas ==
    ASSUME NEW c \in Seq(Nodes), NEW q \in Seq(Elements), Shows(c, q)
    PROVE  \A x \in Elements : Has(c, x) <=> Has(q, x)
  <1>1. PICK d \in 1..(Len(c) + 1) : Without(c, q, d)
    BY DEF Shows
  <1>2. Len(c) \in Nat /\ Len(q) \in Nat
    BY SeqFacts
  <1> SUFFICES ASSUME NEW x \in Elements PROVE Has(c, x) <=> Has(q, x)
    OBVIOUS
  <1>3. x # Dummy
    BY NodesDiffer
  <1>4. ASSUME Has(c, x) PROVE Has(q, x)
    <2>1. PICK i \in 1..Len(c) : c[i] = x
      BY <1>4 DEF Has
    <2>2. i # d
      BY <1>1, <1>3, <2>1 DEF Without
    <2>3. CASE i < d
      <3>1. i \in 1..Len(q) /\ q[i] = x
        BY <1>1, <1>2, <2>1, <2>3 DEF Without
      <3> QED BY <3>1 DEF Has
    <2>4. CASE i > d
      <3>1. (i - 1) \in 1..Len(q)
        BY <1>1, <1>2, <2>1, <2>4 DEF Without
      <3>2. q[i - 1] = c[(i - 1) + 1]
        BY <1>1, <1>2, <2>1, <2>4, <3>1 DEF Without
      <3>3. (i - 1) + 1 = i
        BY <2>1, <1>2
      <3> QED BY <2>1, <3>1, <3>2, <3>3 DEF Has
    <2> QED BY <1>2, <2>1, <2>2, <2>3, <2>4
  <1>5. ASSUME Has(q, x) PROVE Has(c, x)
    <2>1. PICK i \in 1..Len(q) : q[i] = x
      BY <1>5 DEF Has
    <2>2. CASE i < d
      <3>1. i \in 1..Len(c) /\ c[i] = x
        BY <1>1, <1>2, <2>1, <2>2 DEF Without
      <3> QED BY <3>1 DEF Has
    <2>3. CASE ~(i < d)
      <3>1. (i + 1) \in 1..Len(c) /\ c[i + 1] = x
        BY <1>1, <1>2, <2>1, <2>3 DEF Without
      <3> QED BY <3>1 DEF Has
    <2> QED BY <2>2, <2>3
  <1> QED BY <1>4, <1>5

\* An element at the tail is the oldest one, and both lists lose it.
LEMMA ShowsPop ==
    ASSUME NEW c \in Seq(Nodes), NEW q \in Seq(Elements), Shows(c, q),
           Len(c) > 0, c[1] # Dummy
    PROVE  q # << >> /\ Head(q) = c[1] /\ Shows(Tail(c), Tail(q))
  <1>1. PICK d \in 1..(Len(c) + 1) : Without(c, q, d)
    BY DEF Shows
  <1>2. Len(c) \in Nat /\ Len(q) \in Nat
    BY SeqFacts
  <1>3. d > 1 /\ Len(q) > 0 /\ q[1] = c[1]
    BY <1>1, <1>2 DEF Without
  <1>4. q # << >>
    BY <1>3, SeqFacts
  <1>5. /\ Len(Tail(c)) = Len(c) - 1
        /\ \A i \in 1..(Len(c) - 1) : Tail(c)[i] = c[i + 1]
    BY TailFacts
  <1>6. /\ Len(Tail(q)) = Len(q) - 1 /\ Head(q) = q[1]
        /\ \A i \in 1..(Len(q) - 1) : Tail(q)[i] = q[i + 1]
    BY <1>3, TailFacts
  <1>7. PICK b, r, e : b = Tail(c) /\ r = Tail(q) /\ e = d - 1
    OBVIOUS
  <1>8. e \in 1..(Len(b) + 1) /\ e \in Int /\ d \in Int
    BY <1>1, <1>2, <1>3, <1>5, <1>7
  <1>9. ASSUME NEW i \in 1..Len(b) PROVE b[i] = Dummy <=> i = e
    <2>1. i + 1 \in 1..Len(c) /\ b[i] = c[i + 1]
      BY <1>2, <1>5, <1>7, <1>9
    <2>2. c[i + 1] = Dummy <=> i + 1 = d
      BY <1>1, <2>1 DEF Without
    <2> QED BY <1>2, <1>7, <1>8, <1>9, <2>1, <2>2
  <1>10. Len(r) = IF e <= Len(b) THEN Len(b) - 1 ELSE Len(b)
    BY <1>1, <1>2, <1>3, <1>5, <1>6, <1>7 DEF Without
  <1>11. ASSUME NEW i \in 1..Len(r) PROVE r[i] = IF i < e THEN b[i] ELSE b[i + 1]
    <2>1. i + 1 \in 1..Len(q) /\ r[i] = q[i + 1] /\ i \in Nat
      BY <1>2, <1>6, <1>7, <1>11
    <2>2. q[i + 1] = IF i + 1 < d THEN c[i + 1] ELSE c[(i + 1) + 1]
      BY <1>1, <2>1 DEF Without
    <2>3. CASE i < e
      <3>1. i + 1 < d /\ i \in 1..(Len(c) - 1)
        BY <1>1, <1>2, <1>7, <1>8, <2>1, <2>3
      <3> QED BY <1>5, <1>7, <2>1, <2>2, <2>3, <3>1
    <2>4. CASE ~(i < e)
      <3>1. ~(i + 1 < d)
        BY <1>7, <1>8, <2>1, <2>4
      <3>2. i + 1 \in 1..(Len(c) - 1)
        BY <1>2, <1>5, <1>6, <1>7, <1>8, <1>10, <2>1, <2>4
      <3>3. b[i + 1] = c[(i + 1) + 1]
        BY <1>5, <1>7, <3>2
      <3> QED BY <2>1, <2>2, <2>4, <3>1, <3>3
    <2> QED BY <2>3, <2>4
  <1>12. Without(b, r, e)
    BY <1>8, <1>9, <1>10, <1>11 DEF Without
  <1> QED BY <1>3, <1>4, <1>6, <1>7, <1>8, <1>12 DEF Shows

\* The dummy at the tail leaves the queue as it is.
LEMMA ShowsSkip ==
    ASSUME NEW c \in Seq(Nodes), NEW q \in Seq(Elements), Shows(c, q),
           Len(c) > 0, c[1] = Dummy
    PROVE  Shows(Tail(c), q) /\ (q # << >> <=> Len(c) > 1)
  <1>1. PICK d \in 1..(Len(c) + 1) : Without(c, q, d)
    BY DEF Shows
  <1>2. Len(c) \in Nat /\ Len(q) \in Nat
    BY SeqFacts
  <1>3. d = 1 /\ Len(q) = Len(c) - 1
    BY <1>1, <1>2 DEF Without
  <1>4. /\ Len(Tail(c)) = Len(c) - 1
        /\ \A i \in 1..(Len(c) - 1) : Tail(c)[i] = c[i + 1]
    BY TailFacts
  <1>5. PICK b, e : b = Tail(c) /\ e = Len(b) + 1
    OBVIOUS
  <1>6. e \in 1..(Len(b) + 1) /\ e = Len(c)
    BY <1>2, <1>4, <1>5
  <1>7. ASSUME NEW i \in 1..Len(b) PROVE b[i] # Dummy /\ i # e
    <2>1. i + 1 \in 1..Len(c) /\ b[i] = c[i + 1] /\ i + 1 # 1
      BY <1>2, <1>4, <1>5, <1>7
    <2> QED BY <1>1, <1>2, <1>3, <1>5, <1>6, <1>7, <2>1 DEF Without
  <1>8. ASSUME NEW i \in 1..Len(q) PROVE q[i] = b[i] /\ i < e
    BY <1>1, <1>2, <1>3, <1>4, <1>5, <1>6, <1>8 DEF Without
  <1>9. Without(b, q, e)
    BY <1>2, <1>3, <1>4, <1>5, <1>6, <1>7, <1>8 DEF Without
  <1>10. q # << >> <=> Len(c) > 1
    BY <1>2, <1>3, SeqFacts
  <1> QED BY <1>5, <1>6, <1>9, <1>10 DEF Shows

\* A node goes to the end of the list, an element to the end of the queue too.
LEMMA ShowsAppend ==
    ASSUME NEW c \in Seq(Nodes), NEW q \in Seq(Elements), Shows(c, q),
           NEW x \in Nodes, ~Has(c, x)
    PROVE  Shows(Append(c, x), IF x = Dummy THEN q ELSE Append(q, x))
  <1>1. PICK d \in 1..(Len(c) + 1) : Without(c, q, d)
    BY DEF Shows
  <1>2. Len(c) \in Nat /\ Len(q) \in Nat
    BY SeqFacts
  <1>3. /\ Len(Append(c, x)) = Len(c) + 1
        /\ \A i \in 1..Len(c) : Append(c, x)[i] = c[i]
        /\ Append(c, x)[Len(c) + 1] = x
    BY AppendFacts
  <1>4. PICK b : b = Append(c, x)
    OBVIOUS
  <1>5. CASE x = Dummy
    <2>1. d = Len(c) + 1
      BY <1>1, <1>2, <1>5 DEF Without, Has
    <2>2. Without(b, q, d)
      BY <1>1, <1>2, <1>3, <1>4, <1>5, <2>1 DEF Without
    <2>3. d \in 1..(Len(b) + 1)
      BY <1>1, <1>2, <1>3, <1>4
    <2> QED BY <1>4, <1>5, <2>2, <2>3 DEF Shows
  <1>6. CASE x # Dummy
    <2>1. x \in Elements
      BY <1>6 DEF Nodes
    <2>2. /\ Len(Append(q, x)) = Len(q) + 1
          /\ \A i \in 1..Len(q) : Append(q, x)[i] = q[i]
          /\ Append(q, x)[Len(q) + 1] = x
      BY <2>1, AppendFacts
    <2>3. PICK r, e : r = Append(q, x) /\ e = IF d <= Len(c) THEN d ELSE Len(c) + 2
      OBVIOUS
    <2>4. e \in 1..(Len(b) + 1)
      BY <1>1, <1>2, <1>3, <1>4, <2>3
    <2>5. ASSUME NEW i \in 1..Len(b) PROVE b[i] = Dummy <=> i = e
      <3>1. CASE i \in 1..Len(c)
        BY <1>1, <1>2, <1>3, <1>4, <2>3, <3>1 DEF Without
      <3>2. CASE i = Len(c) + 1
        BY <1>1, <1>2, <1>3, <1>4, <1>6, <2>3, <3>2
      <3> QED BY <1>2, <1>3, <1>4, <2>5, <3>1, <3>2
    <2>6. Len(r) = IF e <= Len(b) THEN Len(b) - 1 ELSE Len(b)
      BY <1>1, <1>2, <1>3, <1>4, <2>2, <2>3 DEF Without
    <2>7. ASSUME NEW i \in 1..Len(r) PROVE r[i] = IF i < e THEN b[i] ELSE b[i + 1]
      <3>1. CASE i \in 1..Len(q)
        <4>1. r[i] = q[i] /\ q[i] = IF i < d THEN c[i] ELSE c[i + 1]
          BY <1>1, <2>2, <2>3, <3>1 DEF Without
        <4>2. CASE i < d
          <5>1. i < e /\ i \in 1..Len(c)
            BY <1>1, <1>2, <2>3, <3>1, <4>2 DEF Without
          <5> QED BY <1>3, <1>4, <4>1, <4>2, <5>1
        <4>3. CASE ~(i < d)
          <5>1. ~(i < e) /\ i + 1 \in 1..Len(c)
            BY <1>1, <1>2, <2>3, <3>1, <4>3 DEF Without
          <5> QED BY <1>3, <1>4, <4>1, <4>3, <5>1
        <4> QED BY <4>2, <4>3
      <3>2. CASE i = Len(q) + 1
        <4>1. r[i] = x
          BY <2>2, <2>3, <3>2
        <4>2. CASE d <= Len(c)
          <5>1. ~(i < e) /\ i + 1 = Len(c) + 1
            BY <1>1, <1>2, <2>3, <3>2, <4>2 DEF Without
          <5> QED BY <1>3, <1>4, <4>1, <5>1
        <4>3. CASE ~(d <= Len(c))
          <5>1. i < e /\ i = Len(c) + 1
            BY <1>1, <1>2, <2>3, <3>2, <4>3 DEF Without
          <5> QED BY <1>3, <1>4, <4>1, <5>1
        <4> QED BY <4>2, <4>3
      <3> QED BY <1>2, <2>2, <2>3, <2>7, <3>1, <3>2
    <2>8. Without(b, r, e)
      BY <2>4, <2>5, <2>6, <2>7 DEF Without
    <2> QED BY <1>4, <1>6, <2>3, <2>4, <2>8 DEF Shows
  <1> QED BY <1>5, <1>6

-----------------------------------------------------------------------------
(* The steps. *)

\* The next link of a node of the list, seen by the consumer.
LEMMA Successor ==
    ASSUME NEW c \in Seq(Nodes), Chain(c), QTypeOK
    PROVE  /\ Len(c) \in Nat /\ Len(c) > 0 /\ tail \in Nodes /\ Nil \notin Nodes
           /\ link[tail] # Nil => Len(c) > 1 /\ c[2] = link[tail]
           /\ tail = head <=> Len(c) = 1
           /\ (\A t \in Threads : enq[t].at # "link") /\ link[tail] = Nil => Len(c) = 1
  <1>1. /\ Len(c) \in Nat /\ Len(c) > 0 /\ c[1] = tail /\ c[Len(c)] = head /\ link[head] = Nil
        /\ Apart(c)
        /\ Len(c) > 1 => \/ link[c[1]] = c[1 + 1]
                         \/ link[c[1]] = Nil /\ \E t \in Threads : Linking(t, c[1], c[1 + 1])
    BY SeqFacts DEF Chain
  <1>2. tail \in Nodes /\ Nil \notin Nodes
    BY NodesDiffer DEF QTypeOK, Nodes
  <1>3. \A i \in 1..Len(c) : c[i] # Nil
    BY <1>2, SeqFacts
  <1>4. tail = head <=> Len(c) = 1
    <2>1. 1 \in 1..Len(c) /\ Len(c) \in 1..Len(c)
      BY <1>1
    <2>2. c[1] = c[Len(c)] => 1 = Len(c)
      BY <1>1, <2>1 DEF Apart
    <2> QED BY <1>1, <2>2
  <1>5. Len(c) > 1 => c[2] # Nil
    BY <1>1, <1>3
  <1> QED BY <1>1, <1>2, <1>4, <1>5 DEF Linking

\* Steps that leave the queue alone.
LEMMA QuietStep ==
    ASSUME Inv, UNCHANGED <<qvars, live>>,
           npc' = npc \/ (npc \notin {"drain", "pack"} /\ npc' # "pack")
    PROVE  Inv'
  <1>1. UNCHANGED <<head, tail, link, enq, deq, queue, excuse, out>>
    BY DEF qvars
  <1>2. PICK c \in Seq(Nodes) : Chain(c) /\ Enqueues(c) /\ Dequeues(c)
    BY DEF Inv
  <1>3. Chain(c)' /\ Enqueues(c)'
    BY <1>1, <1>2 DEF Chain, Enqueues, Linking, Has, Apart, Shows, Without
  <1>4. Dequeues(c)'
    BY <1>1, <1>2 DEF Dequeues, Has
  <1>5. Distinct' /\ Excuses' /\ QTypeOK'
    BY <1>1 DEF Inv, Distinct, Excuses, QTypeOK, Adding
  <1>6. Accounted'
    BY <1>1 DEF Inv, Accounted, Enqueued, Has, Adding
  <1> QED BY <1>3, <1>4, <1>5, <1>6 DEF Inv

\* The packet is written to the buffer and freed.
LEMMA PackPacketStep ==
    ASSUME Inv, PackPacket
    PROVE  Inv'
  <1>1. UNCHANGED <<head, tail, link, enq, deq, queue, excuse, out>>
    BY DEF PackPacket, qvars
  <1>2. PICK c \in Seq(Nodes) : Chain(c) /\ Enqueues(c) /\ Dequeues(c)
    BY DEF Inv
  <1>3. Chain(c)' /\ Enqueues(c)'
    BY <1>1, <1>2 DEF Chain, Enqueues, Linking, Has, Apart, Shows, Without
  <1>4. Dequeues(c)'
    BY <1>1, <1>2 DEF Dequeues, Has, PackPacket
  <1>5. Distinct' /\ Excuses' /\ QTypeOK'
    BY <1>1 DEF Inv, Distinct, Excuses, QTypeOK, Adding
  <1>6. Accounted'
    <2>1. npc = "pack" /\ npc' = "drain"
      BY DEF PackPacket
    <2>2. PICK x \in Elements : out = {x} /\ ~Has(queue, x) /\ ~Enqueued(x)
      BY <2>1 DEF Inv, Accounted
    <2>3. live' = live \ {x}
      BY <2>2 DEF PackPacket
    <2>4. \A y : y \in live <=> Has(queue, y) \/ Enqueued(y) \/ y = x
      BY <2>1, <2>2 DEF Inv, Accounted
    <2>5. \A y : (Has(queue, y) <=> Has(queue', y)) /\ (Enqueued(y) <=> Enqueued(y)')
      BY <1>1 DEF Enqueued, Adding, Has
    <2> QED BY <2>1, <2>2, <2>3, <2>4, <2>5 DEF Accounted
  <1> QED BY <1>3, <1>4, <1>5, <1>6 DEF Inv

\* A thread begins to enqueue a packet nobody else has.
LEMMA SendPacketStep ==
    ASSUME Inv, NEW t \in Threads, NEW x \in Elements, NEW then, SendPacket(t, x, then)
    PROVE  Inv'
  <1>1. /\ Free(t) /\ x \notin live /\ live' = live \cup {x} /\ enq[t] = NoEnqueue
        /\ enq' = [enq EXCEPT ![t] = [at |-> "store", input |-> x, prevHead |-> Nil]]
        /\ excuse' = (deq # NoDequeue)
        /\ UNCHANGED <<head, tail, link, deq, queue, out, npc>>
    BY DEF SendPacket, CallEnqueue
  <1>2. PICK c \in Seq(Nodes) : Chain(c) /\ Enqueues(c) /\ Dequeues(c)
    BY DEF Inv
  <1>3. QTypeOK'
    BY <1>1, NodesDiffer DEF Inv, QTypeOK, Nodes
  <1>4. /\ enq'[t].at = "store" /\ enq'[t].input = x /\ enq[t].at = "none"
        /\ \A u \in Threads : u # t => enq'[u] = enq[u]
        /\ x # Dummy /\ x \in Nodes
    BY <1>1, NodesDiffer DEF Inv, QTypeOK, NoEnqueue, Nodes
  <1>5. ~Has(c, x) /\ ~Enqueued(x) /\ ~Has(queue, x)
    <2>1. ~Has(queue, x) /\ ~Enqueued(x)
      BY <1>1 DEF Inv, Accounted
    <2>2. Shows(c, queue) /\ queue \in Seq(Elements)
      BY <1>2 DEF Inv, QTypeOK, Chain
    <2> QED BY <2>1, <2>2, ShowsHas
  <1>6. Chain(c)'
    <2>1. ASSUME NEW i \in 1..(Len(c) - 1)
          PROVE  \/ link'[c[i]] = c[i + 1]
                 \/ link'[c[i]] = Nil /\ \E u \in Threads : Linking(u, c[i], c[i + 1])'
      <3>1. CASE link[c[i]] = c[i + 1]
        BY <1>1, <3>1
      <3>2. ASSUME link[c[i]] = Nil, NEW u \in Threads, Linking(u, c[i], c[i + 1])
            PROVE  Linking(u, c[i], c[i + 1])'
        BY <1>4, <3>2 DEF Linking
      <3> QED BY <1>1, <1>2, <2>1, <3>1, <3>2 DEF Chain
    <2>2. Shows(c, queue')
      BY <1>1, <1>2 DEF Chain
    <2> QED BY <1>1, <1>2, <2>1, <2>2 DEF Chain
  <1>7. Enqueues(c)'
    BY <1>1, <1>2, <1>4, <1>5 DEF Enqueues
  <1>8. Dequeues(c)'
    <2>1. t = Consumer => deq.at = "none"
      BY <1>1, <1>2 DEF Free, Dequeues
    <2>2. Consumer \in Threads
      BY DEF Threads
    <2> QED BY <1>1, <1>2, <1>4, <2>1, <2>2 DEF Dequeues
  <1>9. Distinct'
    <2>1. ASSUME NEW u \in Threads, u # t, enq[u].at # "none" PROVE enq[u].input # x
      BY <1>4, <1>5, <2>1 DEF Enqueued, Adding
    <2> QED BY <1>4, <2>1 DEF Inv, Distinct
  <1>10. Excuses'
    <2>1. deq.at # "none" => deq # NoDequeue
      BY DEF NoDequeue
    <2>2. deq'.at # "none" => excuse'
      BY <1>1, <2>1
    <2> QED BY <2>2 DEF Excuses
  <1>11. Accounted'
    <2>1. \A y : Enqueued(y)' <=> Enqueued(y) \/ y = x
      BY <1>4 DEF Enqueued, Adding
    <2>2. \A y : Has(queue', y) <=> Has(queue, y)
      BY <1>1
    <2>3. \A y : y \in live' <=> Has(queue', y) \/ Enqueued(y)' \/ (npc' = "pack" /\ y \in out')
      BY <1>1, <2>1, <2>2 DEF Inv, Accounted
    <2>4. npc' = "pack" => \E z \in Elements : out' = {z} /\ ~Has(queue', z) /\ ~Enqueued(z)'
      BY <1>1, <2>1, <2>2 DEF Inv, Accounted
    <2> QED BY <2>3, <2>4 DEF Accounted
  <1> QED BY <1>3, <1>6, <1>7, <1>8, <1>9, <1>10, <1>11 DEF Inv

\* The input's link is cleared before anybody else can see the input.
LEMMA StoreNullStep ==
    ASSUME Inv, NEW t \in Threads, StoreNull(t), UNCHANGED <<npc, live>>
    PROVE  Inv'
  <1>1. /\ enq[t].at = "store" /\ link' = [link EXCEPT ![enq[t].input] = Nil]
        /\ enq' = [enq EXCEPT ![t].at = "exchange"]
        /\ UNCHANGED <<head, tail, deq, queue, excuse, out>>
    BY DEF StoreNull
  <1>2. PICK c \in Seq(Nodes) : Chain(c) /\ Enqueues(c) /\ Dequeues(c)
    BY DEF Inv
  <1>3. PICK x : x = enq[t].input
    OBVIOUS
  <1>4. /\ enq'[t].at = "exchange" /\ enq'[t].input = x
        /\ \A u \in Threads : u # t => enq'[u] = enq[u]
        /\ x \in Nodes /\ ~Has(c, x)
        /\ link'[x] = Nil /\ \A n \in Nodes : n # x => link'[n] = link[n]
    BY <1>1, <1>2, <1>3 DEF Inv, QTypeOK, Enqueues
  <1>5. QTypeOK'
    BY <1>1 DEF Inv, QTypeOK
  <1>6. \A i \in 1..Len(c) : c[i] \in Nodes /\ c[i] # x /\ link'[c[i]] = link[c[i]]
    BY <1>4, SeqFacts DEF Has
  <1>7. Len(c) \in Nat /\ tail = c[1] /\ head = c[Len(c)] /\ Len(c) > 0
    BY <1>2, SeqFacts DEF Chain
  <1>8. link'[tail] = link[tail] /\ link'[head] = link[head]
    BY <1>6, <1>7
  <1>9. Chain(c)'
    <2>1. ASSUME NEW i \in 1..(Len(c) - 1)
          PROVE  \/ link'[c[i]] = c[i + 1]
                 \/ link'[c[i]] = Nil /\ \E u \in Threads : Linking(u, c[i], c[i + 1])'
      <3>1. link'[c[i]] = link[c[i]]
        BY <1>6, <1>7
      <3>2. ASSUME NEW u \in Threads, Linking(u, c[i], c[i + 1])
            PROVE  Linking(u, c[i], c[i + 1])'
        BY <1>1, <1>4, <3>2 DEF Linking
      <3> QED BY <1>2, <2>1, <3>1, <3>2 DEF Chain
    <2>2. Shows(c, queue')
      BY <1>1, <1>2 DEF Chain
    <2> QED BY <1>1, <1>2, <1>8, <2>1, <2>2 DEF Chain
  <1>10. Enqueues(c)'
    <2> SUFFICES ASSUME NEW u \in Threads
                 PROVE  /\ enq'[u].at = "none" => enq'[u] = NoEnqueue
                        /\ enq'[u].at # "none" => enq'[u].input \in Nodes
                        /\ enq'[u].at \in {"store", "exchange"} => ~Has(c, enq'[u].input)
                        /\ enq'[u].at = "exchange" => link'[enq'[u].input] = Nil
                        /\ enq'[u].at = "link" =>
                              /\ link'[enq'[u].prevHead] = Nil
                              /\ \E i \in 1..(Len(c) - 1) :
                                    c[i] = enq'[u].prevHead /\ c[i + 1] = enq'[u].input
                        /\ enq'[u].input = Dummy => u = Consumer /\ deq'.at = "dummy"
      BY DEF Enqueues
    <2>1. CASE u = t
      BY <1>1, <1>2, <1>3, <1>4, <2>1 DEF Enqueues
    <2>2. CASE u # t
      <3>1. enq'[u] = enq[u]
        BY <1>4, <2>2
      <3>2. enq[u].at = "exchange" => link'[enq[u].input] = Nil
        BY <1>2, <1>4 DEF Enqueues
      <3>3. enq[u].at = "link" => link'[enq[u].prevHead] = Nil
        BY <1>2, <1>6, <1>7 DEF Enqueues
      <3> QED BY <1>1, <1>2, <3>1, <3>2, <3>3 DEF Enqueues
    <2> QED BY <2>1, <2>2
  <1>11. Dequeues(c)'
    <2>1. Consumer \in Threads
      BY DEF Threads
    <2>2. enq'[Consumer].at = "none" <=> enq[Consumer].at = "none"
      BY <1>1, <1>4, <2>1
    <2>3. enq'[Consumer].input = enq[Consumer].input
      BY <1>3, <1>4, <2>1
    <2> QED BY <1>1, <1>2, <1>8, <2>2, <2>3 DEF Dequeues
  <1>12. Distinct'
    BY <1>1, <1>3, <1>4 DEF Inv, Distinct
  <1>13. \A u \in Threads : Adding(u)' <=> Adding(u)
    BY <1>1, <1>3, <1>4 DEF Adding
  <1>14. Excuses'
    BY <1>1, <1>8, <1>13 DEF Inv, Excuses
  <1>15. Accounted'
    <2>1. \A y : Enqueued(y)' <=> Enqueued(y)
      BY <1>3, <1>4, <1>13 DEF Enqueued
    <2> QED BY <1>1, <2>1 DEF Inv, Accounted
  <1> QED BY <1>5, <1>9, <1>10, <1>11, <1>12, <1>14, <1>15 DEF Inv

\* The input becomes the last node of the list.
LEMMA ExchangeStep ==
    ASSUME Inv, NEW t \in Threads, Exchange(t), UNCHANGED <<npc, live>>
    PROVE  Inv'
  <1>1. PICK x, h : x = enq[t].input /\ h = head
    OBVIOUS
  <1>2. /\ enq[t].at = "exchange" /\ head' = x
        /\ enq' = [enq EXCEPT ![t].at = "link", ![t].prevHead = h]
        /\ queue' = IF x = Dummy THEN queue ELSE Append(queue, x)
        /\ UNCHANGED <<tail, link, deq, excuse, out>>
    BY <1>1 DEF Exchange
  <1>3. PICK c \in Seq(Nodes) : Chain(c) /\ Enqueues(c) /\ Dequeues(c)
    BY DEF Inv
  <1>4. /\ enq'[t].at = "link" /\ enq'[t].input = x /\ enq'[t].prevHead = h
        /\ \A u \in Threads : u # t => enq'[u] = enq[u]
        /\ x \in Nodes /\ ~Has(c, x) /\ link[x] = Nil
    BY <1>1, <1>2, <1>3 DEF Inv, QTypeOK, Enqueues
  <1>5. /\ Len(c) \in Nat /\ Len(c) > 0 /\ c[1] = tail /\ c[Len(c)] = h /\ link[h] = Nil
        /\ Shows(c, queue) /\ queue \in Seq(Elements) /\ Apart(c)
    BY <1>1, <1>3, SeqFacts DEF Chain, Inv, QTypeOK
  <1>6. /\ Append(c, x) \in Seq(Nodes) /\ Len(Append(c, x)) = Len(c) + 1
        /\ \A i \in 1..Len(c) : Append(c, x)[i] = c[i]
        /\ Append(c, x)[Len(c) + 1] = x
    BY <1>4, AppendFacts
  <1>7. PICK b \in Seq(Nodes) : b = Append(c, x)
    BY <1>6
  <1>8. /\ Len(b) = Len(c) + 1 /\ \A i \in 1..Len(c) : b[i] = c[i]
        /\ b[Len(c) + 1] = x
    BY <1>6, <1>7
  <1>9. QTypeOK'
    <2>1. queue' \in Seq(Elements)
      <3>1. x # Dummy => x \in Elements
        BY <1>4 DEF Nodes
      <3> QED BY <1>2, <1>5, <3>1, AppendFacts
    <2>2. h \in Nodes
      BY <1>1 DEF Inv, QTypeOK
    <2> QED BY <1>2, <1>4, <2>1, <2>2 DEF Inv, QTypeOK
  <1>10. Shows(b, queue')
    BY <1>2, <1>4, <1>5, <1>7, ShowsAppend
  <1>11. Apart(b)
    <2>1. \A i \in 1..Len(c) : b[i] # x
      BY <1>4, <1>8 DEF Has
    <2> QED BY <1>5, <1>8, <2>1 DEF Apart
  <1>12. Chain(b)'
    <2>1. ASSUME NEW i \in 1..(Len(b) - 1)
          PROVE  \/ link'[b[i]] = b[i + 1]
                 \/ link'[b[i]] = Nil /\ \E u \in Threads : Linking(u, b[i], b[i + 1])'
      <3>1. CASE i \in 1..(Len(c) - 1)
        <4>1. b[i] = c[i] /\ b[i + 1] = c[i + 1]
          BY <1>5, <1>8, <3>1
        <4>2. ASSUME NEW u \in Threads, Linking(u, c[i], c[i + 1])
              PROVE  Linking(u, c[i], c[i + 1])'
          BY <1>2, <1>4, <4>2 DEF Linking
        <4> QED BY <1>2, <1>3, <3>1, <4>1, <4>2 DEF Chain
      <3>2. CASE i = Len(c)
        <4>1. b[i] = h /\ b[i + 1] = x
          BY <1>5, <1>8, <3>2
        <4>2. Linking(t, b[i], b[i + 1])'
          BY <1>4, <4>1 DEF Linking
        <4> QED BY <1>2, <1>5, <4>1, <4>2
      <3> QED BY <1>5, <1>8, <2>1, <3>1, <3>2
    <2>2. Len(b) > 0 /\ b[1] = tail' /\ b[Len(b)] = head' /\ link'[head'] = Nil
      BY <1>2, <1>4, <1>5, <1>8
    <2> QED BY <1>7, <1>10, <1>11, <2>1, <2>2 DEF Chain
  <1>13. \A y : Has(b, y) <=> Has(c, y) \/ y = x
    <2>1. ASSUME NEW y, Has(b, y), y # x PROVE Has(c, y)
      <3>1. PICK i \in 1..Len(b) : b[i] = y
        BY <2>1 DEF Has
      <3>2. i \in 1..Len(c) /\ c[i] = y
        BY <1>5, <1>8, <2>1, <3>1
      <3> QED BY <3>2 DEF Has
    <2>2. ASSUME NEW y, Has(c, y) PROVE Has(b, y)
      <3>1. PICK i \in 1..Len(c) : c[i] = y
        BY <2>2 DEF Has
      <3>2. i \in 1..Len(b) /\ b[i] = y
        BY <1>5, <1>8, <3>1
      <3> QED BY <3>2 DEF Has
    <2>3. Len(c) + 1 \in 1..Len(b)
      BY <1>5, <1>8
    <2>4. Has(b, x)
      BY <1>8, <2>3 DEF Has
    <2> QED BY <2>1, <2>2, <2>4
  <1>14. Enqueues(b)'
    <2> SUFFICES ASSUME NEW u \in Threads
                 PROVE  /\ enq'[u].at = "none" => enq'[u] = NoEnqueue
                        /\ enq'[u].at # "none" => enq'[u].input \in Nodes
                        /\ enq'[u].at \in {"store", "exchange"} => ~Has(b, enq'[u].input)
                        /\ enq'[u].at = "exchange" => link'[enq'[u].input] = Nil
                        /\ enq'[u].at = "link" =>
                              /\ link'[enq'[u].prevHead] = Nil
                              /\ \E i \in 1..(Len(b) - 1) :
                                    b[i] = enq'[u].prevHead /\ b[i + 1] = enq'[u].input
                        /\ enq'[u].input = Dummy => u = Consumer /\ deq'.at = "dummy"
      BY DEF Enqueues
    <2>1. CASE u = t
      <3>1. Len(c) \in 1..(Len(b) - 1) /\ b[Len(c)] = h /\ b[Len(c) + 1] = x
        BY <1>5, <1>8
      <3>2. enq'[u].at = "link" /\ enq'[u].input = x /\ enq'[u].prevHead = h /\ x \in Nodes
        BY <1>4, <2>1
      <3>3. link'[h] = Nil
        BY <1>2, <1>5
      <3>4. \E i \in 1..(Len(b) - 1) : b[i] = h /\ b[i + 1] = x
        BY <3>1
      <3>5. x = Dummy => u = Consumer /\ deq'.at = "dummy"
        BY <1>1, <1>2, <1>3, <2>1 DEF Enqueues
      <3> QED BY <3>2, <3>3, <3>4, <3>5
    <2>2. CASE u # t
      <3>1. enq'[u] = enq[u]
        BY <1>4, <2>2
      <3>2. enq[u].at \in {"store", "exchange"} => ~Has(b, enq[u].input)
        BY <1>1, <1>2, <1>3, <1>13, <2>2 DEF Enqueues, Inv, Distinct
      <3>3. ASSUME enq[u].at = "link"
            PROVE  \E i \in 1..(Len(b) - 1) : b[i] = enq[u].prevHead /\ b[i + 1] = enq[u].input
        <4>1. PICK i \in 1..(Len(c) - 1) : c[i] = enq[u].prevHead /\ c[i + 1] = enq[u].input
          BY <1>3, <3>3 DEF Enqueues
        <4>2. i \in 1..(Len(b) - 1) /\ b[i] = c[i] /\ b[i + 1] = c[i + 1]
          BY <1>5, <1>8, <4>1
        <4> QED BY <4>1, <4>2
      <3> QED BY <1>2, <1>3, <3>1, <3>2, <3>3 DEF Enqueues
    <2> QED BY <2>1, <2>2
  <1>15. Dequeues(b)'
    <2>1. Consumer \in Threads
      BY DEF Threads
    <2>2. enq'[Consumer].at = "none" <=> enq[Consumer].at = "none"
      BY <1>2, <1>4, <2>1
    <2>3. enq'[Consumer].input = enq[Consumer].input
      BY <1>1, <1>4, <2>1
    <2> QED BY <1>2, <1>3, <1>13, <2>2, <2>3 DEF Dequeues
  <1>16. Distinct'
    <2>1. \A u \in Threads : /\ enq'[u].at # "none" <=> enq[u].at # "none"
                             /\ enq'[u].input = enq[u].input
      BY <1>1, <1>2, <1>4
    <2> QED BY <2>1 DEF Inv, Distinct
  <1>17. \A u \in Threads : Adding(u)' <=> Adding(u)
    BY <1>1, <1>2, <1>4 DEF Adding
  <1>18. Excuses'
    <2>1. (\A u \in Threads : ~Adding(u)) => x = Dummy
      BY <1>1, <1>2 DEF Adding
    <2> QED BY <1>2, <1>17, <2>1 DEF Inv, Excuses
  <1>19. Accounted'
    <2>1. \A y : Enqueued(y)' <=> Enqueued(y)
      BY <1>1, <1>4, <1>17 DEF Enqueued
    <2>2. \A y : Has(queue', y) <=> Has(queue, y) \/ (x # Dummy /\ y = x)
      <3>1. CASE x = Dummy
        BY <1>2, <3>1
      <3>2. CASE x # Dummy
        <4>1. x \in Elements
          BY <1>4, <3>2 DEF Nodes
        <4>2. Len(queue) \in Nat
          BY <1>5, SeqFacts
        <4>3. PICK r : r = Append(queue, x)
          OBVIOUS
        <4>4. /\ Len(r) = Len(queue) + 1 /\ \A i \in 1..Len(queue) : r[i] = queue[i]
              /\ r[Len(queue) + 1] = x
          BY <1>5, <4>1, <4>3, AppendFacts
        <4>5. \A y : Has(r, y) <=> Has(queue, y) \/ y = x
          BY <4>2, <4>4 DEF Has
        <4> QED BY <1>2, <3>2, <4>3, <4>5
      <3> QED BY <3>1, <3>2
    <2>3. x # Dummy => Enqueued(x)
      BY <1>1, <1>2 DEF Enqueued, Adding
    <2>4. \A y : y \in live' <=> Has(queue', y) \/ Enqueued(y)' \/ (npc' = "pack" /\ y \in out')
      BY <1>2, <2>1, <2>2, <2>3 DEF Inv, Accounted
    <2>5. npc' = "pack" => \E z \in Elements : out' = {z} /\ ~Has(queue', z) /\ ~Enqueued(z)'
      BY <1>2, <2>1, <2>2, <2>3 DEF Inv, Accounted
    <2> QED BY <2>4, <2>5 DEF Accounted
  <1> QED BY <1>7, <1>9, <1>12, <1>14, <1>15, <1>16, <1>18, <1>19 DEF Inv

\* The node before the input gets its link.
LEMMA LinkStep ==
    ASSUME Inv, NEW t \in Threads, Link(t), UNCHANGED <<npc, live>>
    PROVE  Inv'
  <1>1. PICK x, h : x = enq[t].input /\ h = enq[t].prevHead
    OBVIOUS
  <1>2. /\ enq[t].at = "link" /\ link' = [link EXCEPT ![h] = x]
        /\ enq' = [enq EXCEPT ![t] = NoEnqueue]
        /\ UNCHANGED <<head, tail, deq, queue, excuse, out>>
    BY <1>1 DEF Link
  <1>3. PICK c \in Seq(Nodes) : Chain(c) /\ Enqueues(c) /\ Dequeues(c)
    BY DEF Inv
  <1>4. /\ Len(c) \in Nat /\ Len(c) > 0 /\ c[1] = tail /\ c[Len(c)] = head /\ link[head] = Nil
        /\ Shows(c, queue) /\ Apart(c) /\ \A i \in 1..Len(c) : c[i] \in Nodes
    BY <1>3, SeqFacts DEF Chain
  <1>5. PICK k \in 1..(Len(c) - 1) : c[k] = h /\ c[k + 1] = x /\ link[h] = Nil
    BY <1>1, <1>2, <1>3 DEF Enqueues
  <1>6. /\ k \in 1..Len(c) /\ k + 1 \in 1..Len(c) /\ k # Len(c)
        /\ h \in Nodes /\ x \in Nodes /\ x # Nil /\ h # head
    <2>1. k \in 1..Len(c) /\ k + 1 \in 1..Len(c) /\ Len(c) \in 1..Len(c) /\ k # Len(c)
      BY <1>4, <1>5
    <2>2. h \in Nodes /\ x \in Nodes /\ Nil \notin Nodes
      BY <1>4, <1>5, <2>1, NodesDiffer DEF Nodes
    <2>3. h # head
      BY <1>4, <1>5, <2>1 DEF Apart
    <2> QED BY <2>1, <2>2, <2>3
  <1>7. /\ enq'[t].at = "none" /\ enq'[t] = NoEnqueue /\ enq'[t].input # Dummy
        /\ \A u \in Threads : u # t => enq'[u] = enq[u]
        /\ link'[h] = x /\ \A n \in Nodes : n # h => link'[n] = link[n]
    BY <1>2, <1>6, NodesDiffer DEF Inv, QTypeOK, NoEnqueue
  <1>8. QTypeOK'
    BY <1>2, <1>6 DEF Inv, QTypeOK, NoEnqueue
  <1>9. Chain(c)'
    <2>1. ASSUME NEW i \in 1..(Len(c) - 1)
          PROVE  \/ link'[c[i]] = c[i + 1]
                 \/ link'[c[i]] = Nil /\ \E u \in Threads : Linking(u, c[i], c[i + 1])'
      <3>1. CASE i = k
        BY <1>5, <1>7, <3>1
      <3>2. CASE i # k
        <4>1. c[i] # h /\ c[i] \in Nodes
          BY <1>4, <1>5, <1>6, <2>1, <3>2 DEF Apart
        <4>2. ASSUME NEW u \in Threads, Linking(u, c[i], c[i + 1])
              PROVE  Linking(u, c[i], c[i + 1])'
          <5>1. u # t
            BY <1>1, <4>1, <4>2 DEF Linking
          <5> QED BY <1>7, <4>2, <5>1 DEF Linking
        <4> QED BY <1>3, <1>7, <2>1, <4>1, <4>2 DEF Chain
      <3> QED BY <3>1, <3>2
    <2>2. Shows(c, queue') /\ link'[head'] = Nil
      <3>1. head \in Nodes
        BY DEF Inv, QTypeOK
      <3> QED BY <1>2, <1>4, <1>6, <1>7, <3>1
    <2> QED BY <1>2, <1>3, <1>4, <2>1, <2>2 DEF Chain
  <1>10. Enqueues(c)'
    <2> SUFFICES ASSUME NEW u \in Threads
                 PROVE  /\ enq'[u].at = "none" => enq'[u] = NoEnqueue
                        /\ enq'[u].at # "none" => enq'[u].input \in Nodes
                        /\ enq'[u].at \in {"store", "exchange"} => ~Has(c, enq'[u].input)
                        /\ enq'[u].at = "exchange" => link'[enq'[u].input] = Nil
                        /\ enq'[u].at = "link" =>
                              /\ link'[enq'[u].prevHead] = Nil
                              /\ \E i \in 1..(Len(c) - 1) :
                                    c[i] = enq'[u].prevHead /\ c[i + 1] = enq'[u].input
                        /\ enq'[u].input = Dummy => u = Consumer /\ deq'.at = "dummy"
      BY DEF Enqueues
    <2>1. CASE u = t
      BY <1>7, <2>1
    <2>2. CASE u # t
      <3>1. enq'[u] = enq[u]
        BY <1>7, <2>2
      <3>2. ASSUME enq[u].at = "exchange" PROVE link'[enq[u].input] = Nil
        <4>1. enq[u].input \in Nodes /\ ~Has(c, enq[u].input) /\ link[enq[u].input] = Nil
          BY <1>3, <3>2 DEF Enqueues
        <4>2. enq[u].input # h
          BY <1>5, <1>6, <4>1 DEF Has
        <4> QED BY <1>7, <4>1, <4>2
      <3>3. ASSUME enq[u].at = "link" PROVE link'[enq[u].prevHead] = Nil
        <4>1. PICK i \in 1..(Len(c) - 1) : c[i] = enq[u].prevHead /\ c[i + 1] = enq[u].input
          BY <1>3, <3>3 DEF Enqueues
        <4>2. i # k
          <5>1. enq[u].input # x
            BY <1>1, <1>2, <2>2, <3>3 DEF Inv, Distinct
          <5> QED BY <1>5, <4>1, <5>1
        <4>3. c[i] # h /\ c[i] \in Nodes
          BY <1>4, <1>5, <1>6, <4>1, <4>2 DEF Apart
        <4>4. link[enq[u].prevHead] = Nil
          BY <1>3, <3>3 DEF Enqueues
        <4> QED BY <1>7, <4>1, <4>3, <4>4
      <3> QED BY <1>2, <1>3, <3>1, <3>2, <3>3 DEF Enqueues
    <2> QED BY <2>1, <2>2
  <1>11. Dequeues(c)'
    <2>1. Consumer \in Threads
      BY DEF Threads
    <2>2. Consumer # t => enq'[Consumer] = enq[Consumer]
      BY <1>7, <2>1
    <2>3. deq.next # Nil /\ deq.at \in {"loaded", "skipped"} => deq.next = link'[tail]
      <3>1. tail \in Nodes
        BY DEF Inv, QTypeOK
      <3> QED BY <1>3, <1>5, <1>7, <3>1 DEF Dequeues
    <2>4. Consumer = t => /\ deq.at \notin {"loaded", "skipped"} /\ enq'[Consumer].at = "none"
                          /\ deq.at = "dummy" => Has(c, Dummy)
      <3>1. Consumer = t => deq.at \notin {"loaded", "skipped"}
        BY <1>2, <1>3 DEF Dequeues
      <3>2. Consumer = t /\ deq.at = "dummy" => x = Dummy
        BY <1>1, <1>2, <1>3 DEF Dequeues
      <3>3. Has(c, x)
        BY <1>5, <1>6 DEF Has
      <3> QED BY <1>7, <3>1, <3>2, <3>3
    <2> QED BY <1>2, <1>3, <2>2, <2>3, <2>4 DEF Dequeues
  <1>12. Distinct'
    BY <1>7 DEF Inv, Distinct
  <1>13. \A u \in Threads : Adding(u)' <=> Adding(u) /\ u # t
    BY <1>7 DEF Adding
  <1>14. Excuses'
    <2>1. ASSUME deq.at \in {"loaded", "skipped"}, \A u \in Threads : ~Adding(u) PROVE FALSE
      <3>1. x = Dummy
        BY <1>1, <1>2, <2>1 DEF Adding
      <3>2. deq.at = "dummy"
        BY <1>1, <1>3, <3>1 DEF Enqueues
      <3> QED BY <2>1, <3>2
    <2> QED BY <1>2, <1>13, <2>1 DEF Inv, Excuses
  <1>15. Accounted'
    <2>1. \A y : Enqueued(y) <=> Enqueued(y)' \/ (x # Dummy /\ y = x)
      BY <1>1, <1>2, <1>7, <1>13 DEF Enqueued, Adding
    <2>2. x # Dummy => Has(queue, x)
      <3>1. Has(c, x)
        BY <1>5, <1>6 DEF Has
      <3>2. x # Dummy => x \in Elements
        BY <1>6 DEF Nodes
      <3>3. queue \in Seq(Elements)
        BY DEF Inv, QTypeOK
      <3> QED BY <1>4, <3>1, <3>2, <3>3, ShowsHas
    <2>3. \A y : Has(queue', y) <=> Has(queue, y)
      BY <1>2
    <2>4. \A y : y \in live' <=> Has(queue', y) \/ Enqueued(y)' \/ (npc' = "pack" /\ y \in out')
      BY <1>2, <2>1, <2>2, <2>3 DEF Inv, Accounted
    <2>5. npc' = "pack" => \E z \in Elements : out' = {z} /\ ~Has(queue', z) /\ ~Enqueued(z)'
      BY <1>2, <2>1, <2>2, <2>3 DEF Inv, Accounted
    <2> QED BY <2>4, <2>5 DEF Accounted
  <1> QED BY <1>8, <1>9, <1>10, <1>11, <1>12, <1>14, <1>15 DEF Inv

\* Dequeue is called: the consumer loads _tail and its link.
LEMMA CallDequeueStep ==
    ASSUME Inv, CallDequeue, npc = "drain", UNCHANGED <<npc, live>>
    PROVE  Inv'
  <1>1. /\ deq = NoDequeue /\ enq[Consumer] = NoEnqueue
        /\ deq' = [at |-> "loaded", tail |-> tail, next |-> link[tail]]
        /\ excuse' = (queue = << >> \/ \E t \in Threads : Adding(t))
        /\ out' = {}
        /\ UNCHANGED <<head, tail, link, enq, queue>>
    BY DEF CallDequeue
  <1>2. PICK c \in Seq(Nodes) : Chain(c) /\ Enqueues(c) /\ Dequeues(c)
    BY DEF Inv
  <1>3. deq'.at = "loaded" /\ deq'.tail = tail /\ deq'.next = link[tail]
    BY <1>1
  <1>4. QTypeOK'
    <2>1. deq' \in [at : {"none", "loaded", "skipped", "dummy"},
                    tail : Nodes \cup {Nil}, next : Nodes \cup {Nil}]
      BY <1>1 DEF Inv, QTypeOK
    <2>2. excuse' \in BOOLEAN
      BY <1>1
    <2> QED BY <1>1, <2>1, <2>2 DEF Inv, QTypeOK
  <1>5. Chain(c)'
    BY <1>1, <1>2 DEF Chain, Linking, Apart, Shows, Without
  <1>6. Enqueues(c)'
    <2>1. \A t \in Threads : enq[t].input # Dummy
      BY <1>1, <1>2 DEF Enqueues, NoDequeue
    <2> QED BY <1>1, <1>2, <2>1 DEF Enqueues, Has
  <1>7. Dequeues(c)'
    BY <1>1, <1>3 DEF Dequeues, NoEnqueue
  <1>8. Distinct' /\ \A t \in Threads : Adding(t)' <=> Adding(t)
    BY <1>1 DEF Inv, Distinct, Adding
  <1>9. Excuses'
    <2>1. ~excuse' => queue # << >> /\ \A t \in Threads : ~Adding(t)
      BY <1>1
    <2> QED BY <1>1, <1>3, <1>8, <2>1 DEF Excuses
  <1>10. Accounted'
    BY <1>1 DEF Inv, Accounted, Enqueued, Adding, Has
  <1> QED BY <1>4, <1>5, <1>6, <1>7, <1>8, <1>9, <1>10 DEF Inv

\* Dequeue returns false.
LEMMA ReturnNothingStep ==
    ASSUME Inv, deq.at # "none", enq[Consumer].at = "none", ReturnNothing,
           npc' # "pack", UNCHANGED live
    PROVE  Inv'
  <1>1. deq' = NoDequeue /\ excuse' = FALSE /\ UNCHANGED <<head, tail, link, enq, queue, out>>
    BY DEF ReturnNothing
  <1>2. PICK c \in Seq(Nodes) : Chain(c) /\ Enqueues(c) /\ Dequeues(c)
    BY DEF Inv
  <1>3. deq'.at = "none"
    BY <1>1 DEF NoDequeue
  <1>4. QTypeOK'
    BY <1>1 DEF Inv, QTypeOK, NoDequeue
  <1>5. Chain(c)'
    BY <1>1, <1>2 DEF Chain, Linking, Apart, Shows, Without
  <1>6. Enqueues(c)'
    <2>1. Consumer \in Threads
      BY DEF Threads
    <2>2. enq[Consumer].input # Dummy
      BY <1>2, <2>1, NodesDiffer DEF Enqueues, NoEnqueue
    <2>3. \A t \in Threads : enq[t].input # Dummy
      BY <1>2, <2>2 DEF Enqueues
    <2> QED BY <1>1, <1>2, <2>3 DEF Enqueues, Has
  <1>7. Dequeues(c)' /\ Excuses'
    BY <1>1, <1>3 DEF Dequeues, Excuses
  <1>8. Distinct'
    BY <1>1 DEF Inv, Distinct
  <1>9. Accounted'
    <2>1. npc # "pack"
      BY <1>2 DEF Dequeues
    <2> QED BY <1>1, <2>1 DEF Inv, Accounted, Enqueued, Adding, Has
  <1> QED BY <1>4, <1>5, <1>6, <1>7, <1>8, <1>9 DEF Inv

\* The list without its first node, when that one is linked.
LEMMA DropFirst ==
    ASSUME Inv, NEW c \in Seq(Nodes), Chain(c), Enqueues(c), link[tail] # Nil
    PROVE  LET b == Tail(c) IN
           /\ b \in Seq(Nodes) /\ Len(b) > 0 /\ Apart(b) /\ b[1] = link[tail] /\ b[Len(b)] = head
           /\ \A i \in 1..(Len(b) - 1) :
                \/ link[b[i]] = b[i + 1]
                \/ link[b[i]] = Nil /\ \E t \in Threads : Linking(t, b[i], b[i + 1])
           /\ \A x : Has(b, x) <=> Has(c, x) /\ x # tail
           /\ \A t \in Threads : enq[t].at = "link" =>
                \E i \in 1..(Len(b) - 1) : b[i] = enq[t].prevHead /\ b[i + 1] = enq[t].input
           /\ \A t \in Threads : enq[t].at # "none" => enq[t].input # tail
  <1>1. PICK b : b = Tail(c)
    OBVIOUS
  <1>2. /\ Len(c) \in Nat /\ Len(c) > 1 /\ c[2] = link[tail]
    BY Successor DEF Inv
  <1>3. /\ c[1] = tail /\ c[Len(c)] = head /\ Apart(c)
        /\ \A i \in 1..(Len(c) - 1) :
              \/ link[c[i]] = c[i + 1]
              \/ link[c[i]] = Nil /\ \E t \in Threads : Linking(t, c[i], c[i + 1])
    BY DEF Chain
  <1>4. /\ b \in Seq(Nodes) /\ Len(b) = Len(c) - 1
        /\ \A i \in 1..(Len(c) - 1) : b[i] = c[i + 1]
    BY <1>1, <1>2, TailFacts
  <1>5. Len(b) > 0 /\ b[1] = link[tail] /\ b[Len(b)] = head
    <2>1. b[1] = c[1 + 1] /\ b[Len(c) - 1] = c[(Len(c) - 1) + 1]
      BY <1>2, <1>4
    <2>2. (Len(c) - 1) + 1 = Len(c) /\ Len(c) - 1 > 0
      BY <1>2
    <2> QED BY <1>2, <1>3, <1>4, <2>1, <2>2
  <1>6. Apart(b)
    <2> SUFFICES ASSUME NEW i \in 1..Len(b), NEW j \in 1..Len(b), b[i] = b[j] PROVE i = j
      BY DEF Apart
    <2>1. i + 1 \in 1..Len(c) /\ j + 1 \in 1..Len(c) /\ c[i + 1] = c[j + 1]
      BY <1>2, <1>4
    <2>2. i + 1 = j + 1
      BY <1>3, <2>1 DEF Apart
    <2> QED BY <2>2
  <1>7. ASSUME NEW i \in 1..(Len(b) - 1)
        PROVE  \/ link[b[i]] = b[i + 1]
               \/ link[b[i]] = Nil /\ \E t \in Threads : Linking(t, b[i], b[i + 1])
    <2>1. /\ i + 1 \in 1..(Len(c) - 1)
          /\ b[i] = c[i + 1] /\ b[i + 1] = c[(i + 1) + 1]
      BY <1>2, <1>4, <1>7
    <2> QED BY <1>3, <2>1
  <1>8. ASSUME NEW x PROVE Has(b, x) <=> Has(c, x) /\ x # tail
    <2>1. ASSUME Has(b, x) PROVE Has(c, x) /\ x # tail
      <3>1. PICK i \in 1..Len(b) : b[i] = x
        BY <2>1 DEF Has
      <3>2. i + 1 \in 1..Len(c) /\ c[i + 1] = x /\ 1 \in 1..Len(c) /\ i + 1 # 1
        BY <1>2, <1>4, <3>1
      <3>3. x # tail
        BY <1>3, <3>2 DEF Apart
      <3> QED BY <3>2, <3>3 DEF Has
    <2>2. ASSUME Has(c, x), x # tail PROVE Has(b, x)
      <3>1. PICK i \in 1..Len(c) : c[i] = x
        BY <2>2 DEF Has
      <3>2. i # 1
        BY <1>3, <2>2, <3>1
      <3>3. i - 1 \in 1..Len(b) /\ b[i - 1] = c[(i - 1) + 1] /\ (i - 1) + 1 = i
        BY <1>2, <1>4, <3>1, <3>2
      <3> QED BY <3>1, <3>3 DEF Has
    <2> QED BY <2>1, <2>2
  <1>9. ASSUME NEW t \in Threads, enq[t].at = "link"
        PROVE  /\ \E i \in 1..(Len(b) - 1) :
                     b[i] = enq[t].prevHead /\ b[i + 1] = enq[t].input
               /\ enq[t].input # tail
    <2>1. PICK i \in 1..(Len(c) - 1) : /\ c[i] = enq[t].prevHead /\ c[i + 1] = enq[t].input
                                       /\ link[c[i]] = Nil
      BY <1>9 DEF Enqueues
    <2>2. i # 1
      BY <1>3, <2>1
    <2>3. /\ i - 1 \in 1..(Len(b) - 1) /\ (i - 1) + 1 = i
          /\ b[i - 1] = c[(i - 1) + 1] /\ b[i] = c[i + 1]
      BY <1>2, <1>4, <2>1, <2>2
    <2>4. i + 1 \in 1..Len(c) /\ 1 \in 1..Len(c) /\ i + 1 # 1
      BY <1>2, <2>1
    <2>5. c[i + 1] # tail
      BY <1>3, <2>4 DEF Apart
    <2> QED BY <2>1, <2>3, <2>5
  <1>10. ASSUME NEW t \in Threads, enq[t].at # "none" PROVE enq[t].input # tail
    <2>1. Has(c, tail)
      <3>1. 1 \in 1..Len(c)
        BY <1>2
      <3> QED BY <1>3, <3>1 DEF Has
    <2>2. enq[t].at \in {"store", "exchange", "link"}
      BY <1>10 DEF Inv, QTypeOK
    <2> QED BY <1>9, <2>1, <2>2 DEF Enqueues
  <1> QED BY <1>1, <1>4, <1>5, <1>6, <1>7, <1>8, <1>9, <1>10

\* Dequeue returns the element at the tail.
LEMMA ReturnElementStep ==
    ASSUME Inv, deq.at # "none", enq[Consumer].at = "none", NEW next, next = link[tail],
           next # Nil, tail # Dummy, ReturnElement(next), npc' = "pack", UNCHANGED live
    PROVE  Inv' /\ queue # << >> /\ out' = {Head(queue)}
  <1>1. PICK x : x = tail
    OBVIOUS
  <1>2. PICK c \in Seq(Nodes) : Chain(c) /\ Enqueues(c) /\ Dequeues(c)
    BY DEF Inv
  <1>3. /\ tail' = next /\ out' = {x} /\ queue' = Tail(queue) /\ deq' = NoDequeue
        /\ excuse' = FALSE /\ UNCHANGED <<head, link, enq>>
    BY <1>1, <1>2 DEF ReturnElement, Dequeues
  <1>4. PICK b : b = Tail(c)
    OBVIOUS
  <1>5. /\ b \in Seq(Nodes) /\ Len(b) > 0 /\ Apart(b) /\ b[1] = next /\ b[Len(b)] = head
        /\ \A i \in 1..(Len(b) - 1) :
             \/ link[b[i]] = b[i + 1]
             \/ link[b[i]] = Nil /\ \E t \in Threads : Linking(t, b[i], b[i + 1])
        /\ \A y : Has(b, y) <=> Has(c, y) /\ y # x
        /\ \A t \in Threads : enq[t].at = "link" =>
             \E i \in 1..(Len(b) - 1) : b[i] = enq[t].prevHead /\ b[i + 1] = enq[t].input
        /\ \A t \in Threads : enq[t].at # "none" => enq[t].input # x
    BY <1>1, <1>2, <1>4, DropFirst
  <1>6. /\ queue \in Seq(Elements) /\ Shows(c, queue) /\ c[1] = x /\ link[head] = Nil /\ Len(c) > 0
    BY <1>1, <1>2 DEF Inv, QTypeOK, Chain
  <1>7. queue # << >> /\ Head(queue) = x /\ Shows(b, queue')
    BY <1>1, <1>2, <1>3, <1>4, <1>6, ShowsPop
  <1>8. queue' \in Seq(Elements) /\ x \in Elements
    <2>1. x \in Nodes /\ x # Dummy
      BY <1>1 DEF Inv, QTypeOK
    <2>2. Len(queue) > 0
      BY <1>6, <1>7, SeqFacts
    <2> QED BY <1>3, <1>6, <2>1, <2>2, TailFacts DEF Nodes
  <1>9. deq'.at = "none"
    BY <1>3 DEF NoDequeue
  <1>10. QTypeOK'
    <2>1. next \in Nodes
      BY DEF Inv, QTypeOK
    <2> QED BY <1>3, <1>8, <2>1 DEF Inv, QTypeOK, NoDequeue
  <1>11. Chain(b)'
    BY <1>3, <1>5, <1>6, <1>7 DEF Chain, Linking
  <1>12. Enqueues(b)'
    <2>1. Consumer \in Threads
      BY DEF Threads
    <2>2. enq[Consumer].input # Dummy
      BY <1>2, <2>1, NodesDiffer DEF Enqueues, NoEnqueue
    <2>3. \A t \in Threads : enq[t].input # Dummy
      BY <1>2, <2>2 DEF Enqueues
    <2> QED BY <1>2, <1>3, <1>5, <2>3 DEF Enqueues
  <1>13. Dequeues(b)' /\ Excuses'
    BY <1>3, <1>9 DEF Dequeues, Excuses
  <1>14. Distinct'
    BY <1>3 DEF Inv, Distinct
  <1>15. Accounted'
    <2>1. npc # "pack"
      BY <1>2 DEF Dequeues
    <2>2. \A y \in Elements : /\ Has(b, y) <=> Has(queue', y)
                              /\ Has(c, y) <=> Has(queue, y)
      <3>1. \A y \in Elements : Has(b, y) <=> Has(queue', y)
        BY <1>5, <1>7, <1>8, ShowsHas
      <3>2. \A y \in Elements : Has(c, y) <=> Has(queue, y)
        BY <1>2, <1>6, ShowsHas
      <3> QED BY <3>1, <3>2
    <2>3. \A y : (Has(queue, y) => y \in Elements) /\ (Has(queue', y) => y \in Elements)
      BY <1>6, <1>8, SeqFacts DEF Has
    <2>4. Has(queue, x)
      <3>1. Len(queue) > 0 /\ Len(queue) \in Nat /\ queue[1] = x
        BY <1>6, <1>7, SeqFacts, TailFacts
      <3>2. 1 \in 1..Len(queue)
        BY <3>1
      <3> QED BY <3>1, <3>2 DEF Has
    <2>5. \A y : Has(queue', y) <=> Has(queue, y) /\ y # x
      BY <1>5, <2>2, <2>3
    <2>6. \A y : Enqueued(y)' <=> Enqueued(y)
      BY <1>3 DEF Enqueued, Adding
    <2>7. ~Enqueued(x)
      BY <1>5 DEF Enqueued, Adding
    <2>8. \A y : y \in live' <=> Has(queue', y) \/ Enqueued(y)' \/ (npc' = "pack" /\ y \in out')
      BY <1>3, <2>1, <2>4, <2>5, <2>6 DEF Inv, Accounted
    <2>9. \E z \in Elements : out' = {z} /\ ~Has(queue', z) /\ ~Enqueued(z)'
      BY <1>3, <1>8, <2>5, <2>6, <2>7
    <2> QED BY <2>8, <2>9 DEF Accounted
  <1> QED BY <1>3, <1>5, <1>7, <1>10, <1>11, <1>12, <1>13, <1>14, <1>15 DEF Inv

\* The dummy at the tail is skipped.
LEMMA DequeueDummyStep ==
    ASSUME Inv, DequeueDummy, npc' = "drain", UNCHANGED live
    PROVE  Inv'
  <1>1. PICK c \in Seq(Nodes) : Chain(c) /\ Enqueues(c) /\ Dequeues(c)
    BY DEF Inv
  <1>2. PICK n : n = deq.next
    OBVIOUS
  <1>3. /\ deq.at = "loaded" /\ tail = Dummy /\ n = link[tail] /\ n # Nil
        /\ enq[Consumer].at = "none" /\ npc = "drain" /\ out = {}
    BY <1>1, <1>2 DEF DequeueDummy, Dequeues
  <1>4. /\ tail' = n /\ deq' = [at |-> "skipped", tail |-> n, next |-> link[n]]
        /\ UNCHANGED <<head, link, enq, queue, excuse, out>>
    BY <1>2 DEF DequeueDummy
  <1>5. deq'.at = "skipped" /\ deq'.tail = n /\ deq'.next = link[n]
    BY <1>4
  <1>6. PICK b : b = Tail(c)
    OBVIOUS
  <1>7. /\ b \in Seq(Nodes) /\ Len(b) > 0 /\ Apart(b) /\ b[1] = n /\ b[Len(b)] = head
        /\ \A i \in 1..(Len(b) - 1) :
             \/ link[b[i]] = b[i + 1]
             \/ link[b[i]] = Nil /\ \E t \in Threads : Linking(t, b[i], b[i + 1])
        /\ \A y : Has(b, y) <=> Has(c, y) /\ y # Dummy
        /\ \A t \in Threads : enq[t].at = "link" =>
             \E i \in 1..(Len(b) - 1) : b[i] = enq[t].prevHead /\ b[i + 1] = enq[t].input
    BY <1>1, <1>3, <1>6, DropFirst
  <1>8. /\ queue \in Seq(Elements) /\ Shows(c, queue) /\ c[1] = Dummy /\ link[head] = Nil
        /\ Len(c) > 0
    BY <1>1, <1>3 DEF Inv, QTypeOK, Chain
  <1>9. Shows(b, queue')
    BY <1>1, <1>4, <1>6, <1>8, ShowsSkip
  <1>10. n \in Nodes /\ n # Dummy
    <2>1. n \in Nodes
      BY <1>3 DEF Inv, QTypeOK
    <2>2. Has(b, n)
      <3>1. Len(b) \in Nat
        BY <1>7, SeqFacts
      <3>2. 1 \in 1..Len(b)
        BY <1>7, <3>1
      <3> QED BY <1>7, <3>2 DEF Has
    <2> QED BY <1>7, <2>1, <2>2
  <1>11. QTypeOK'
    <2>1. link[n] \in Nodes \cup {Nil}
      BY <1>10 DEF Inv, QTypeOK
    <2>2. deq' \in [at : {"none", "loaded", "skipped", "dummy"},
                    tail : Nodes \cup {Nil}, next : Nodes \cup {Nil}]
      BY <1>4, <1>10, <2>1
    <2> QED BY <1>4, <1>10, <2>2 DEF Inv, QTypeOK
  <1>12. Chain(b)'
    BY <1>4, <1>7, <1>8, <1>9 DEF Chain, Linking
  <1>13. Enqueues(b)'
    <2>1. \A t \in Threads : enq[t].input # Dummy
      BY <1>1, <1>3 DEF Enqueues
    <2> QED BY <1>1, <1>4, <1>7, <2>1 DEF Enqueues
  <1>14. Dequeues(b)'
    BY <1>3, <1>4, <1>5, <1>10 DEF Dequeues
  <1>15. Distinct' /\ Excuses'
    BY <1>3, <1>4, <1>5 DEF Inv, Distinct, Excuses, Adding
  <1>16. Accounted'
    BY <1>3, <1>4 DEF Inv, Accounted, Enqueued, Adding, Has
  <1> QED BY <1>7, <1>11, <1>12, <1>13, <1>14, <1>15, <1>16 DEF Inv

\* The element at the tail is the last one: the consumer enqueues the dummy.
LEMMA DequeueLastStep ==
    ASSUME Inv, DequeueLast, npc' = "drain", UNCHANGED live
    PROVE  Inv'
  <1>1. PICK c \in Seq(Nodes) : Chain(c) /\ Enqueues(c) /\ Dequeues(c)
    BY DEF Inv
  <1>2. /\ deq.at \in {"loaded", "skipped"} /\ tail # Dummy /\ tail = head
        /\ enq[Consumer].at = "none" /\ npc = "drain" /\ out = {} /\ deq.tail = tail
    BY <1>1 DEF DequeueLast, AtElement, Dequeues
  <1>3. /\ enq' = [enq EXCEPT ![Consumer] = [at |-> "store", input |-> Dummy, prevHead |-> Nil]]
        /\ deq' = [deq EXCEPT !.at = "dummy"]
        /\ UNCHANGED <<head, tail, link, queue, excuse, out>>
    BY DEF DequeueLast
  <1>4. Consumer \in Threads /\ Dummy \in Nodes
    BY DEF Threads, Nodes
  <1>5. /\ enq'[Consumer].at = "store" /\ enq'[Consumer].input = Dummy
        /\ \A u \in Threads : u # Consumer => enq'[u] = enq[u]
        /\ deq'.at = "dummy" /\ deq'.tail = tail
    BY <1>2, <1>3, <1>4 DEF Inv, QTypeOK
  <1>6. QTypeOK'
    BY <1>3, <1>4 DEF Inv, QTypeOK
  <1>7. ~Has(c, Dummy)
    <2>1. Len(c) = 1
      BY <1>1, <1>2, Successor DEF Inv
    <2> QED BY <1>1, <1>2, <2>1 DEF Has, Chain
  <1>8. Chain(c)'
    <2>1. ASSUME NEW i \in 1..(Len(c) - 1)
          PROVE  \/ link'[c[i]] = c[i + 1]
                 \/ link'[c[i]] = Nil /\ \E u \in Threads : Linking(u, c[i], c[i + 1])'
      <3>1. ASSUME NEW u \in Threads, Linking(u, c[i], c[i + 1])
            PROVE  Linking(u, c[i], c[i + 1])'
        BY <1>2, <1>5, <3>1 DEF Linking
      <3> QED BY <1>1, <1>3, <2>1, <3>1 DEF Chain
    <2>2. Shows(c, queue')
      BY <1>1, <1>3 DEF Chain
    <2> QED BY <1>1, <1>3, <2>1, <2>2 DEF Chain
  <1>9. \A t \in Threads : enq[t].input # Dummy
    BY <1>1, <1>2 DEF Enqueues
  <1>10. Enqueues(c)'
    BY <1>1, <1>3, <1>4, <1>5, <1>7, <1>9 DEF Enqueues
  <1>11. Dequeues(c)'
    BY <1>2, <1>3, <1>5 DEF Dequeues
  <1>12. Distinct'
    BY <1>5, <1>9 DEF Inv, Distinct
  <1>13. \A u \in Threads : Adding(u)' <=> Adding(u)
    BY <1>2, <1>5 DEF Adding
  <1>14. Excuses'
    BY <1>2, <1>3, <1>5, <1>13 DEF Inv, Excuses
  <1>15. Accounted'
    <2>1. \A y : Enqueued(y)' <=> Enqueued(y)
      BY <1>2, <1>5, <1>13 DEF Enqueued, Adding
    <2> QED BY <1>2, <1>3, <2>1 DEF Inv, Accounted
  <1> QED BY <1>6, <1>8, <1>10, <1>11, <1>12, <1>14, <1>15 DEF Inv

\* What the consumer knows at an element of the list.
LEMMA AtElementFacts ==
    ASSUME Inv, AtElement
    PROVE  /\ deq.at \in {"loaded", "skipped"} /\ deq.tail = tail /\ tail # Dummy
           /\ enq[Consumer].at = "none" /\ (deq.next # Nil => deq.next = link[tail])
  <1>1. PICK c \in Seq(Nodes) : Dequeues(c)
    BY DEF Inv
  <1> QED BY <1>1 DEF AtElement, Dequeues

\* The last load of Dequeue, after the dummy was enqueued.
LEMMA AgainFacts ==
    ASSUME Inv, DequeueAgain
    PROVE  deq.at = "dummy" /\ deq.tail = tail /\ tail # Dummy /\ enq[Consumer].at = "none"
  <1>1. PICK c \in Seq(Nodes) : Dequeues(c)
    BY DEF Inv
  <1> QED BY <1>1 DEF DequeueAgain, Dequeues, NoEnqueue

\* Dequeue gives up only with an excuse.
LEMMA HasExcuse ==
    ASSUME Inv, \/ DequeueEmpty \/ DequeueBusy
                \/ DequeueAgain /\ link[deq.tail] = Nil
    PROVE  excuse
  <1> SUFFICES ASSUME ~excuse PROVE FALSE
    OBVIOUS
  <1>1. PICK c \in Seq(Nodes) : Chain(c) /\ Enqueues(c) /\ Dequeues(c)
    BY DEF Inv
  <1>2. deq.at # "none" /\ deq.tail = tail /\ enq[Consumer].at = "none"
    BY <1>1, AtElementFacts, AgainFacts DEF DequeueEmpty, DequeueBusy, Dequeues
  <1>3. /\ queue # << >> /\ \A t \in Threads : ~Adding(t)
        /\ deq.at \in {"loaded", "skipped"} => deq.next = link[tail]
    BY <1>2 DEF Inv, Excuses
  <1>4. \A t \in Threads : enq[t].at # "link"
    <2>1. ASSUME NEW t \in Threads, enq[t].at = "link" PROVE FALSE
      <3>1. enq[t].input = Dummy
        BY <1>3, <2>1 DEF Adding
      <3>2. t = Consumer
        BY <1>1, <3>1 DEF Enqueues
      <3> QED BY <1>2, <2>1, <3>2
    <2> QED BY <2>1
  <1>5. link[tail] = Nil
    BY <1>2, <1>3, AtElementFacts DEF DequeueEmpty, DequeueBusy
  <1>6. Len(c) = 1
    BY <1>1, <1>4, <1>5, Successor DEF Inv
  <1>7. c[1] = tail /\ tail = head /\ Len(c) > 0
    BY <1>1, <1>6 DEF Chain
  <1>8. ~DequeueBusy
    BY <1>2, <1>7 DEF DequeueBusy
  <1>9. ~DequeueEmpty
    <2>1. ASSUME tail = Dummy PROVE FALSE
      <3>1. queue \in Seq(Elements) /\ Shows(c, queue)
        BY <1>1 DEF Inv, QTypeOK, Chain
      <3>2. PICK q : q = queue
        OBVIOUS
      <3>3. q \in Seq(Elements) /\ Shows(c, q) /\ c \in Seq(Nodes)
        BY <1>1, <3>1, <3>2
      <3>4. q # << >> <=> Len(c) > 1
        BY <1>7, <2>1, <3>3, ShowsSkip
      <3>5. Len(c) > 1
        BY <1>3, <3>2, <3>4
      <3> QED BY <1>6, <3>5
    <2> QED BY <1>2, <2>1 DEF DequeueEmpty
  <1>10. ~DequeueAgain
    <2>1. DequeueAgain => Has(c, Dummy) /\ tail # Dummy
      BY <1>1, <1>2, AgainFacts DEF Dequeues
    <2> QED BY <1>6, <1>7, <2>1 DEF Has
  <1> QED BY <1>8, <1>9, <1>10

\* A step of Dequeue.
LEMMA DrainStep ==
    ASSUME Inv, Drain
    PROVE  Inv'
  <1>1. npc = "drain" /\ UNCHANGED live
    BY DEF Drain
  <1>2. CASE CallDequeue /\ npc' = npc
    BY <1>1, <1>2, CallDequeueStep
  <1>3. ASSUME DequeueStep,
               npc' = CASE deq' # NoDequeue -> "drain"
                        [] deq' = NoDequeue /\ out' # {} -> "pack"
                        [] OTHER -> "flush"
        PROVE  Inv'
    <2>1. /\ deq' # NoDequeue => npc' = "drain"
          /\ deq' = NoDequeue /\ out' # {} => npc' = "pack"
          /\ deq' = NoDequeue /\ out' = {} => npc' = "flush"
      BY <1>3
    <2>2. deq.at # "none" => out = {}
      BY DEF Inv, Dequeues
    <2>3. ASSUME DequeueEmpty PROVE Inv'
      <3>1. deq.at = "loaded" /\ ReturnNothing /\ enq[Consumer].at = "none"
        BY <2>3 DEF DequeueEmpty, Inv, Dequeues
      <3>2. npc' # "pack"
        BY <2>1, <2>2, <3>1 DEF ReturnNothing
      <3> QED BY <1>1, <3>1, <3>2, ReturnNothingStep
    <2>4. ASSUME DequeueDummy PROVE Inv'
      <3>1. deq' # NoDequeue
        BY <2>4 DEF DequeueDummy, NoDequeue
      <3> QED BY <1>1, <2>1, <2>4, <3>1, DequeueDummyStep
    <2>5. ASSUME DequeueLinked PROVE Inv'
      <3>1. PICK n : n = deq.next
        OBVIOUS
      <3>2. /\ deq.at # "none" /\ enq[Consumer].at = "none" /\ n = link[tail] /\ n # Nil
            /\ tail # Dummy /\ ReturnElement(n)
        BY <2>5, <3>1, AtElementFacts DEF DequeueLinked
      <3>3. npc' = "pack"
        BY <2>1, <3>2 DEF ReturnElement
      <3> QED BY <1>1, <3>2, <3>3, ReturnElementStep
    <2>6. ASSUME DequeueBusy PROVE Inv'
      <3>1. deq.at # "none" /\ ReturnNothing /\ enq[Consumer].at = "none"
        BY <2>6, AtElementFacts DEF DequeueBusy
      <3>2. npc' # "pack"
        BY <2>1, <2>2, <3>1 DEF ReturnNothing
      <3> QED BY <1>1, <3>1, <3>2, ReturnNothingStep
    <2>7. ASSUME DequeueLast PROVE Inv'
      <3>1. deq'.at = "dummy"
        BY <2>7 DEF DequeueLast, Inv, QTypeOK
      <3>2. deq' # NoDequeue
        BY <3>1 DEF NoDequeue
      <3> QED BY <1>1, <2>1, <2>7, <3>2, DequeueLastStep
    <2>8. ASSUME DequeueAgain PROVE Inv'
      <3>1. deq.at = "dummy" /\ deq.tail = tail /\ tail # Dummy /\ enq[Consumer].at = "none"
        BY <2>8, AgainFacts
      <3>2. CASE link[deq.tail] # Nil
        <4>1. PICK n : n = link[tail]
          OBVIOUS
        <4>2. ReturnElement(n) /\ n # Nil
          BY <2>8, <3>1, <3>2, <4>1 DEF DequeueAgain
        <4>3. npc' = "pack"
          BY <2>1, <4>2 DEF ReturnElement
        <4> QED BY <1>1, <3>1, <4>1, <4>2, <4>3, ReturnElementStep
      <3>3. CASE link[deq.tail] = Nil
        <4>1. ReturnNothing
          BY <2>8, <3>3 DEF DequeueAgain
        <4>2. npc' # "pack"
          BY <2>1, <2>2, <3>1, <4>1 DEF ReturnNothing
        <4> QED BY <1>1, <3>1, <4>1, <4>2, ReturnNothingStep
      <3> QED BY <3>2, <3>3
    <2> QED BY <1>3, <2>3, <2>4, <2>5, <2>6, <2>7, <2>8 DEF DequeueStep
  <1> QED BY <1>2, <1>3 DEF Drain

\* A step of Enqueue.
LEMMA EnqueueingStep ==
    ASSUME Inv, NEW t \in Threads, Enqueueing(t)
    PROVE  Inv'
  BY StoreNullStep, ExchangeStep, LinkStep DEF Enqueueing, EnqueueStep

\* The queue starts with the dummy alone.
LEMMA InitInv == Init => Inv
  <1> SUFFICES ASSUME Init PROVE Inv
    OBVIOUS
  <1>1. /\ head = Dummy /\ tail = Dummy /\ link = [n \in Nodes |-> Nil]
        /\ enq = [t \in Threads |-> NoEnqueue] /\ deq = NoDequeue /\ queue = << >>
        /\ excuse = FALSE /\ out = {} /\ live = {} /\ npc = "idle"
    BY DEF Init, QInit
  <1>2. Dummy \in Nodes /\ Dummy # Nil /\ Consumer \in Threads
    BY NodesDiffer DEF Nodes, Threads
  <1>3. QTypeOK
    <2>1. head \in Nodes /\ tail \in Nodes /\ link \in [Nodes -> Nodes \cup {Nil}]
      BY <1>1, <1>2
    <2>2. NoEnqueue \in [at : {"none", "store", "exchange", "link"},
                         input : Nodes \cup {Nil}, prevHead : Nodes \cup {Nil}]
      BY DEF NoEnqueue
    <2>3. deq \in [at : {"none", "loaded", "skipped", "dummy"},
                   tail : Nodes \cup {Nil}, next : Nodes \cup {Nil}]
      BY <1>1 DEF NoDequeue
    <2>4. queue \in Seq(Elements) /\ excuse \in BOOLEAN /\ out \in SUBSET Elements
      <3>1. queue \in Seq(Elements)
        BY <1>1, SMT
      <3>2. excuse \in BOOLEAN
        BY <1>1, Zenon
      <3>3. out \in SUBSET Elements
        BY <1>1
      <3> QED BY <3>1, <3>2, <3>3
    <2>5. enq \in [Threads -> [at : {"none", "store", "exchange", "link"},
                              input : Nodes \cup {Nil}, prevHead : Nodes \cup {Nil}]]
      BY <1>1, <2>2
    <2> QED BY <2>1, <2>3, <2>4, <2>5 DEF QTypeOK
  <1>4. PICK c : c = <<Dummy>>
    OBVIOUS
  <1>5. c \in Seq(Nodes) /\ Len(c) = 1 /\ c[1] = Dummy /\ Len(queue) = 0
    BY <1>1, <1>2, <1>4
  <1>6. Shows(c, queue)
    <2>1. Without(c, queue, 1) /\ 1 \in 1..(Len(c) + 1)
      BY <1>5 DEF Without
    <2> QED BY <2>1 DEF Shows
  <1>7. Chain(c)
    BY <1>1, <1>2, <1>5, <1>6 DEF Chain, Apart
  <1>8. \A t \in Threads : enq[t].at = "none" /\ enq[t] = NoEnqueue /\ enq[t].input = Nil
    BY <1>1 DEF NoEnqueue
  <1>9. Enqueues(c) /\ Distinct
    BY <1>2, <1>8 DEF Enqueues, Distinct
  <1>10. Dequeues(c) /\ Excuses
    BY <1>1 DEF Dequeues, Excuses, NoDequeue
  <1>11. Accounted
    BY <1>1, <1>5, <1>8 DEF Accounted, Enqueued, Adding, Has
  <1> QED BY <1>3, <1>5, <1>7, <1>9, <1>10, <1>11 DEF Inv

\* The steps of the socket that do not touch the queue.
LEMMA OtherSteps ==
    ASSUME \/ \E t \in Threads : DelayedCloseSocket(t) \/ TestWriteQueue(t) \/ CloseSocket(t)
           \/ BeginUpdate \/ FlushBuffer \/ WriteQueue \/ WriteHandlerWrapper \/ Break
           \/ UNCHANGED vars
    PROVE  /\ UNCHANGED <<qvars, live>>
           /\ npc' = npc \/ (npc \notin {"drain", "pack"} /\ npc' # "pack")
  <1>1. CASE \E t \in Threads : DelayedCloseSocket(t) \/ TestWriteQueue(t) \/ CloseSocket(t)
    BY <1>1 DEF DelayedCloseSocket, TestWriteQueue, CloseSocket
  <1>2. CASE BeginUpdate
    BY <1>2 DEF BeginUpdate
  <1>3. CASE FlushBuffer
    BY <1>3 DEF FlushBuffer
  <1>4. CASE WriteQueue
    BY <1>4 DEF WriteQueue
  <1>5. CASE WriteHandlerWrapper \/ Break
    BY <1>5 DEF WriteHandlerWrapper, Break
  <1>6. CASE UNCHANGED vars
    BY <1>6 DEF vars, svars
  <1> QED BY <1>1, <1>2, <1>3, <1>4, <1>5, <1>6

\* Every step of every thread keeps Inv.
LEMMA NextInv == Inv /\ [Next]_vars => Inv'
  <1> SUFFICES ASSUME Inv, [Next]_vars PROVE Inv'
    OBVIOUS
  <1>1. ASSUME NEW t \in Threads, NEW x \in Elements, NEW then, SendPacket(t, x, then) PROVE Inv'
    BY <1>1, SendPacketStep
  <1>2. ASSUME NEW t \in Threads, Enqueueing(t) PROVE Inv'
    BY <1>2, EnqueueingStep
  <1>3. ASSUME Drain PROVE Inv'
    BY <1>3, DrainStep
  <1>4. ASSUME PackPacket PROVE Inv'
    BY <1>4, PackPacketStep
  <1>5. ASSUME \/ \E t \in Threads : DelayedCloseSocket(t) \/ TestWriteQueue(t) \/ CloseSocket(t)
               \/ BeginUpdate \/ FlushBuffer \/ WriteQueue \/ WriteHandlerWrapper \/ Break
               \/ UNCHANGED vars
        PROVE  Inv'
    BY <1>5, OtherSteps, QuietStep
  <1> QED BY <1>1, <1>2, <1>3, <1>4, <1>5 DEF Next, Sending, Update

\* Inv is an invariant.
LEMMA Invariance == Spec => []Inv
  BY InitInv, NextInv, PTL DEF Spec

-----------------------------------------------------------------------------
(* The queue implements Fifo. *)

\* Where Fifo sees the Enqueue of a thread.
Stage(t) ==
    CASE ~Adding(t) -> "no"
      [] Adding(t) /\ enq[t].at = "link" -> "added"
      [] OTHER -> "called"

\* The stage, before and after a step.
LEMMA StageFacts ==
    ASSUME NEW t
    PROVE  /\ Stage(t) = IF ~Adding(t) THEN "no"
                         ELSE IF enq[t].at = "link" THEN "added" ELSE "called"
           /\ Stage(t)' = IF ~Adding(t)' THEN "no"
                          ELSE IF (enq[t].at)' = "link" THEN "added" ELSE "called"
  BY DEF Stage

\* An Enqueue that changes its stage leaves the other ones where they are.
LEMMA StageChange ==
    ASSUME NEW t \in Threads, NEW s, Stage(t)' = s,
           \A u \in Threads \ {t} : enq'[u] = enq[u]
    PROVE  [u \in Threads |-> Stage(u)]' = [[u \in Threads |-> Stage(u)] EXCEPT ![t] = s]
  <1>1. ASSUME NEW u \in Threads \ {t} PROVE Stage(u)' = Stage(u)
    BY <1>1 DEF Stage, Adding
  <1> QED BY <1>1

\* An Enqueue that does not change its stage is not seen.
LEMMA StageKept ==
    ASSUME \A u \in Threads : Stage(u)' = Stage(u)
    PROVE  UNCHANGED [u \in Threads |-> Stage(u)]
  OBVIOUS

\* SendPacket calls Enqueue.
LEMMA SendPacketMaps ==
    ASSUME Inv, NEW t \in Threads, NEW x \in Elements, NEW then, SendPacket(t, x, then)
    PROVE  Contract!CallEnqueue(t)
  <1>1. /\ enq[t] = NoEnqueue
        /\ enq' = [enq EXCEPT ![t] = [at |-> "store", input |-> x, prevHead |-> Nil]]
        /\ excuse' = (deq # NoDequeue)
        /\ UNCHANGED <<deq, queue, out>>
    BY DEF SendPacket, CallEnqueue
  <1>2. Stage(t) = "no"
    BY <1>1, StageFacts DEF Adding, NoEnqueue
  <1>3. enq'[t].at = "store" /\ enq'[t].input = x /\ \A u \in Threads \ {t} : enq'[u] = enq[u]
    BY <1>1 DEF Inv, QTypeOK
  <1>4. Adding(t)' /\ (enq[t].at)' # "link"
    BY <1>3, NodesDiffer DEF Adding
  <1>5. Stage(t)' = "called"
    BY <1>4, StageFacts
  <1>6. [u \in Threads |-> Stage(u)]' = [[u \in Threads |-> Stage(u)] EXCEPT ![t] = "called"]
    BY <1>3, <1>5, StageChange
  <1>7. (deq # NoDequeue)' = (deq # NoDequeue)
    BY <1>1
  <1> QED BY <1>1, <1>2, <1>6, <1>7 DEF Contract!CallEnqueue, Stage

\* The exchange is the moment the element enters the queue; the one of the dummy is
\* not seen, nor are the two stores.
LEMMA EnqueueStepMaps ==
    ASSUME Inv, NEW t \in Threads, EnqueueStep(t)
    PROVE  \/ \E x \in Elements : Contract!Enqueue(t, x)
           \/ Contract!ReturnEnqueue(t)
           \/ UNCHANGED Contract!vars
  <1>1. PICK c \in Seq(Nodes) : Chain(c) /\ Enqueues(c) /\ Dequeues(c)
    BY DEF Inv
  <1>2. enq \in [Threads -> [at : {"none", "store", "exchange", "link"},
                             input : Nodes \cup {Nil}, prevHead : Nodes \cup {Nil}]]
    BY DEF Inv, QTypeOK
  <1>3. CASE StoreNull(t)
    <2>1. /\ enq[t].at = "store" /\ enq' = [enq EXCEPT ![t].at = "exchange"]
          /\ UNCHANGED <<deq, queue, excuse, out>>
      BY <1>3 DEF StoreNull
    <2>2. /\ enq'[t].at = "exchange" /\ enq'[t].input = enq[t].input
          /\ \A u \in Threads \ {t} : enq'[u] = enq[u]
      BY <1>2, <2>1
    <2>3. ASSUME NEW u \in Threads PROVE Stage(u)' = Stage(u)
      BY <2>1, <2>2, <2>3, StageFacts DEF Adding
    <2>4. UNCHANGED [u \in Threads |-> Stage(u)]
      BY <2>3, StageKept
    <2>5. UNCHANGED (deq # NoDequeue)
      BY <2>1
    <2> QED BY <2>1, <2>4, <2>5 DEF Contract!vars, Stage
  <1>4. CASE Exchange(t)
    <2>1. /\ enq[t].at = "exchange"
          /\ enq' = [enq EXCEPT ![t].at = "link", ![t].prevHead = head]
          /\ queue' = IF enq[t].input = Dummy THEN queue ELSE Append(queue, enq[t].input)
          /\ UNCHANGED <<deq, excuse, out>>
      BY <1>4 DEF Exchange
    <2>2. /\ enq'[t].at = "link" /\ enq'[t].input = enq[t].input
          /\ \A u \in Threads \ {t} : enq'[u] = enq[u]
      BY <1>2, <2>1
    <2>3. UNCHANGED (deq # NoDequeue)
      BY <2>1
    <2>4. CASE enq[t].input = Dummy
      <3>1. ASSUME NEW u \in Threads PROVE Stage(u)' = Stage(u)
        BY <2>2, <2>4, <3>1, StageFacts DEF Adding
      <3>2. UNCHANGED [u \in Threads |-> Stage(u)]
        BY <3>1, StageKept
      <3> QED BY <2>1, <2>3, <2>4, <3>2 DEF Contract!vars, Stage
    <2>5. CASE enq[t].input # Dummy
      <3>1. PICK x : x = enq[t].input
        OBVIOUS
      <3>2. x \in Elements
        BY <1>1, <2>1, <2>5, <3>1 DEF Enqueues, Nodes
      <3>3. Stage(t) = "called" /\ Stage(t)' = "added"
        BY <2>1, <2>2, <2>5, StageFacts DEF Adding
      <3>4. [u \in Threads |-> Stage(u)]' = [[u \in Threads |-> Stage(u)] EXCEPT ![t] = "added"]
        BY <2>2, <3>3, StageChange
      <3>5. queue' = Append(queue, x)
        BY <2>1, <2>5, <3>1
      <3>6. Contract!Enqueue(t, x)
        BY <2>1, <2>3, <3>3, <3>4, <3>5 DEF Contract!Enqueue, Stage
      <3> QED BY <3>2, <3>6
    <2> QED BY <2>4, <2>5
  <1>5. CASE Link(t)
    <2>1. /\ enq[t].at = "link" /\ enq' = [enq EXCEPT ![t] = NoEnqueue]
          /\ UNCHANGED <<deq, queue, excuse, out>>
      BY <1>5 DEF Link
    <2>2. enq'[t].at = "none" /\ \A u \in Threads \ {t} : enq'[u] = enq[u]
      BY <1>2, <2>1 DEF NoEnqueue
    <2>3. UNCHANGED (deq # NoDequeue)
      BY <2>1
    <2>4. CASE enq[t].input = Dummy
      <3>1. ASSUME NEW u \in Threads PROVE Stage(u)' = Stage(u)
        BY <2>2, <2>4, <3>1, StageFacts DEF Adding
      <3>2. UNCHANGED [u \in Threads |-> Stage(u)]
        BY <3>1, StageKept
      <3> QED BY <2>1, <2>3, <3>2 DEF Contract!vars, Stage
    <2>5. CASE enq[t].input # Dummy
      <3>1. Stage(t) = "added" /\ Stage(t)' = "no"
        BY <2>1, <2>2, <2>5, StageFacts DEF Adding
      <3>2. [u \in Threads |-> Stage(u)]' = [[u \in Threads |-> Stage(u)] EXCEPT ![t] = "no"]
        BY <2>2, <3>1, StageChange
      <3> QED BY <2>1, <2>3, <3>1, <3>2 DEF Contract!ReturnEnqueue, Stage
    <2> QED BY <2>4, <2>5
  <1> QED BY <1>3, <1>4, <1>5 DEF EnqueueStep

\* The calls of Enqueue stay as they are.
LEMMA StagesKept ==
    ASSUME UNCHANGED enq
    PROVE  UNCHANGED [u \in Threads |-> Stage(u)]
  <1>1. ASSUME NEW u \in Threads PROVE Stage(u)' = Stage(u)
    BY DEF Stage, Adding
  <1> QED BY <1>1, StageKept

\* The call of Dequeue.
LEMMA CallDequeueMaps ==
    ASSUME CallDequeue
    PROVE  Contract!CallDequeue
  <1>1. /\ deq = NoDequeue /\ deq'.at = "loaded" /\ out' = {} /\ UNCHANGED <<enq, queue>>
        /\ excuse' = (queue = << >> \/ \E t \in Threads : Adding(t))
    BY DEF CallDequeue
  <1>2. UNCHANGED [u \in Threads |-> Stage(u)]
    BY <1>1, StagesKept
  <1>3. \A t \in Threads : Adding(t) <=> [u \in Threads |-> Stage(u)][t] # "no"
    BY StageFacts
  <1>4. (deq # NoDequeue) = FALSE /\ (deq # NoDequeue)' = TRUE
    BY <1>1 DEF NoDequeue
  <1>5. (queue = << >> \/ \E t \in Threads : Adding(t))
          = (queue = << >> \/ \E t \in Threads : [u \in Threads |-> Stage(u)][t] # "no")
    BY <1>3
  <1> QED BY <1>1, <1>2, <1>4, <1>5 DEF Contract!CallDequeue, Stage

\* Dequeue returns the oldest element.
LEMMA ReturnElementMaps ==
    ASSUME deq.at # "none", NEW n, ReturnElement(n), queue # << >>, out' = {Head(queue)}
    PROVE  Contract!DequeueElement
  <1>1. /\ queue' = Tail(queue) /\ deq' = NoDequeue /\ excuse' = FALSE /\ UNCHANGED enq
    BY DEF ReturnElement
  <1>2. UNCHANGED [u \in Threads |-> Stage(u)]
    BY <1>1, StagesKept
  <1>3. (deq # NoDequeue) /\ (deq # NoDequeue)' = FALSE
    BY <1>1 DEF NoDequeue
  <1> QED BY <1>1, <1>2, <1>3 DEF Contract!DequeueElement, Stage

\* Dequeue returns nothing.
LEMMA ReturnNothingMaps ==
    ASSUME deq.at # "none", ReturnNothing, excuse
    PROVE  Contract!DequeueNothing
  <1>1. /\ deq' = NoDequeue /\ excuse' = FALSE /\ UNCHANGED <<enq, queue, out>>
    BY DEF ReturnNothing
  <1>2. UNCHANGED [u \in Threads |-> Stage(u)]
    BY <1>1, StagesKept
  <1>3. (deq # NoDequeue) /\ (deq # NoDequeue)' = FALSE
    BY <1>1 DEF NoDequeue
  <1> QED BY <1>1, <1>2, <1>3 DEF Contract!DequeueNothing, Stage

\* The dummy is taken out, or is put behind the last element: Fifo sees neither.
LEMMA DummyMaps ==
    ASSUME Inv, DequeueDummy \/ DequeueLast
    PROVE  UNCHANGED Contract!vars
  <1>1. PICK c \in Seq(Nodes) : Dequeues(c)
    BY DEF Inv
  <1>2. CASE DequeueDummy
    <2>1. deq.at = "loaded" /\ deq'.at = "skipped" /\ UNCHANGED <<enq, queue, excuse, out>>
      BY <1>2 DEF DequeueDummy
    <2>2. UNCHANGED [u \in Threads |-> Stage(u)]
      BY <2>1, StagesKept
    <2>3. UNCHANGED (deq # NoDequeue)
      BY <2>1 DEF NoDequeue
    <2> QED BY <2>1, <2>2, <2>3 DEF Contract!vars, Stage
  <1>3. CASE DequeueLast
    <2>1. /\ AtElement /\ deq' = [deq EXCEPT !.at = "dummy"]
          /\ enq' = [enq EXCEPT ![Consumer] = [at |-> "store", input |-> Dummy, prevHead |-> Nil]]
          /\ UNCHANGED <<queue, excuse, out>>
      BY <1>3 DEF DequeueLast
    <2>2. deq.at # "none" /\ enq[Consumer].at = "none"
      BY <2>1, AtElementFacts
    <2>3. deq'.at = "dummy"
      BY <2>1 DEF Inv, QTypeOK
    <2>4. UNCHANGED (deq # NoDequeue)
      BY <2>2, <2>3 DEF NoDequeue
    <2>5. enq'[Consumer].input = Dummy /\ \A u \in Threads \ {Consumer} : enq'[u] = enq[u]
      BY <2>1 DEF Inv, QTypeOK, Threads
    <2>6. ASSUME NEW u \in Threads PROVE Stage(u)' = Stage(u)
      BY <2>2, <2>5, StageFacts DEF Adding
    <2>7. UNCHANGED [u \in Threads |-> Stage(u)]
      BY <2>6, StageKept
    <2> QED BY <2>1, <2>4, <2>7 DEF Contract!vars, Stage
  <1> QED BY <1>2, <1>3

\* A step of Dequeue is one of Fifo's, or is not seen.
LEMMA DrainMaps ==
    ASSUME Inv, Drain
    PROVE  \/ Contract!CallDequeue \/ Contract!DequeueElement \/ Contract!DequeueNothing
           \/ UNCHANGED Contract!vars
  <1>1. UNCHANGED live
    BY DEF Drain
  <1>2. CASE CallDequeue
    BY <1>2, CallDequeueMaps
  <1>3. ASSUME DequeueStep,
               npc' = CASE deq' # NoDequeue -> "drain"
                        [] deq' = NoDequeue /\ out' # {} -> "pack"
                        [] OTHER -> "flush"
        PROVE  \/ Contract!DequeueElement \/ Contract!DequeueNothing
               \/ UNCHANGED Contract!vars
    <2>1. deq' = NoDequeue /\ out' # {} => npc' = "pack"
      BY <1>3
    <2>2. ASSUME NEW n, n = link[tail], n # Nil, tail # Dummy, deq.at # "none",
                 enq[Consumer].at = "none", ReturnElement(n)
          PROVE  Contract!DequeueElement
      <3>1. npc' = "pack"
        BY <2>1, <2>2 DEF ReturnElement
      <3>2. queue # << >> /\ out' = {Head(queue)}
        BY <1>1, <2>2, <3>1, ReturnElementStep
      <3> QED BY <2>2, <3>2, ReturnElementMaps
    <2>3. CASE DequeueEmpty \/ DequeueBusy
      <3>1. deq.at # "none" /\ ReturnNothing
        BY <2>3 DEF DequeueEmpty, DequeueBusy, AtElement
      <3>2. excuse
        BY <2>3, HasExcuse
      <3> QED BY <3>1, <3>2, ReturnNothingMaps
    <2>4. CASE DequeueDummy \/ DequeueLast
      BY <2>4, DummyMaps
    <2>5. CASE DequeueLinked
      <3>1. PICK n : n = deq.next
        OBVIOUS
      <3>2. /\ deq.at # "none" /\ enq[Consumer].at = "none" /\ n = link[tail] /\ n # Nil
            /\ tail # Dummy /\ ReturnElement(n)
        BY <2>5, <3>1, AtElementFacts DEF DequeueLinked
      <3> QED BY <2>2, <3>2
    <2>6. CASE DequeueAgain
      <3>1. deq.at = "dummy" /\ deq.tail = tail /\ tail # Dummy /\ enq[Consumer].at = "none"
        BY <2>6, AgainFacts
      <3>2. CASE link[deq.tail] # Nil
        <4>1. PICK n : n = link[tail]
          OBVIOUS
        <4>2. ReturnElement(n) /\ n # Nil
          BY <2>6, <3>1, <3>2, <4>1 DEF DequeueAgain
        <4> QED BY <2>2, <3>1, <4>1, <4>2
      <3>3. CASE link[deq.tail] = Nil
        <4>1. ReturnNothing
          BY <2>6, <3>3 DEF DequeueAgain
        <4>2. excuse
          BY <2>6, <3>3, HasExcuse
        <4> QED BY <3>1, <4>1, <4>2, ReturnNothingMaps
      <3> QED BY <3>2, <3>3
    <2> QED BY <1>3, <2>3, <2>4, <2>5, <2>6 DEF DequeueStep
  <1> QED BY <1>2, <1>3 DEF Drain

\* The queue starts empty, with nobody in a call of it.
LEMMA InitMaps == Init => Contract!Init
  <1> SUFFICES ASSUME Init PROVE Contract!Init
    OBVIOUS
  <1>1. /\ enq = [t \in Threads |-> NoEnqueue] /\ deq = NoDequeue /\ queue = << >>
        /\ excuse = FALSE /\ out = {}
    BY DEF Init, QInit
  <1>2. ASSUME NEW t \in Threads PROVE Stage(t) = "no"
    BY <1>1, <1>2, StageFacts DEF Adding, NoEnqueue
  <1>3. [t \in Threads |-> Stage(t)] = [t \in Threads |-> "no"]
    BY <1>2
  <1>4. (deq # NoDequeue) = FALSE
    BY <1>1
  <1> QED BY <1>1, <1>3, <1>4 DEF Contract!Init, Stage

\* Every step of every thread is a step of Fifo, or is not seen.
LEMMA NextMaps == Inv /\ [Next]_vars => [Contract!Next]_Contract!vars
  <1> SUFFICES ASSUME Inv, [Next]_vars PROVE Contract!Next \/ UNCHANGED Contract!vars
    OBVIOUS
  <1>1. ASSUME NEW t \in Threads, NEW x \in Elements, NEW then, SendPacket(t, x, then)
        PROVE  Contract!Next
    BY <1>1, SendPacketMaps DEF Contract!Next
  <1>2. ASSUME NEW t \in Threads, Enqueueing(t)
        PROVE  Contract!Next \/ UNCHANGED Contract!vars
    <2>1. EnqueueStep(t)
      BY <1>2 DEF Enqueueing
    <2> QED BY <2>1, EnqueueStepMaps DEF Contract!Next
  <1>3. ASSUME Drain PROVE Contract!Next \/ UNCHANGED Contract!vars
    BY <1>3, DrainMaps DEF Contract!Next
  <1>4. ASSUME UNCHANGED qvars PROVE UNCHANGED Contract!vars
    <2>1. UNCHANGED <<enq, deq, queue, excuse, out>>
      BY <1>4 DEF qvars
    <2>2. UNCHANGED [u \in Threads |-> Stage(u)]
      BY <2>1, StagesKept
    <2>3. UNCHANGED (deq # NoDequeue)
      BY <2>1
    <2> QED BY <2>1, <2>2, <2>3 DEF Contract!vars, Stage
  <1>5. ASSUME PackPacket PROVE UNCHANGED qvars
    BY <1>5 DEF PackPacket
  <1>6. ASSUME \/ \E t \in Threads : DelayedCloseSocket(t) \/ TestWriteQueue(t) \/ CloseSocket(t)
               \/ BeginUpdate \/ FlushBuffer \/ WriteQueue \/ WriteHandlerWrapper \/ Break
               \/ UNCHANGED vars
        PROVE  UNCHANGED qvars
    BY <1>6, OtherSteps
  <1> QED BY <1>1, <1>2, <1>3, <1>4, <1>5, <1>6 DEF Next, Sending, Update

-----------------------------------------------------------------------------
(* The types of the socket's own variables. *)

\* A concatenation and a part of a sequence.
LEMMA PartFacts ==
    ASSUME NEW S, NEW s \in Seq(S), NEW t \in Seq(S), NEW n \in Nat, n <= Len(s)
    PROVE  /\ s \o t \in Seq(S)
           /\ SubSeq(s, 1, n) \in Seq(S) /\ SubSeq(s, n + 1, Len(s)) \in Seq(S)
  <1>1. s \o t \in Seq(S)
    BY ConcatProperties
  <1>2. SubSeq(s, 1, n) \in Seq(S)
    BY LenProperties, SubSeqProperties
  <1>3. SubSeq(s, n + 1, Len(s)) \in Seq(S)
    BY LenProperties, SubSeqProperties
  <1> QED BY <1>1, <1>2, <1>3

\* The bytes of a packet.
LEMMA BytesType ==
    ASSUME NEW x \in Elements
    PROVE  Bytes(x) \in Seq(Elements)
  <1>1. PacketSize(x) \in Nat
    BY BoundsAssumption DEF PacketSize
  <1> QED BY <1>1, IsASeq DEF Bytes

BufferTypes == buffers \in Seq(Seq(Elements)) /\ buffer \in Seq(Elements)

Flags == closed \in BOOLEAN /\ closing \in BOOLEAN /\ async \in BOOLEAN /\ broken \in BOOLEAN
         /\ stale \in BOOLEAN

Controls ==
    /\ npc \in {"idle", "drain", "pack", "flush", "write", "gone"}
    /\ todo \in [Threads -> {"none", "return", "close", "test"}]
    /\ sends \in 0..MaxSends

History == live \subseteq Elements /\ sent \in Seq(Elements) /\ wire \in Seq(Elements)

\* TypeOK, in parts.
LEMMA TypeParts == TypeOK <=> QTypeOK /\ BufferTypes /\ Flags /\ Controls /\ History
  <1>1. Flags <=> {closed, closing, async, broken, stale} \subseteq BOOLEAN
    BY Zenon DEF Flags
  <1> QED BY <1>1 DEF TypeOK, BufferTypes, Controls, History

\* A packet is written to the buffer, or to one of its own.
LEMMA PackTypes ==
    ASSUME BufferTypes, NEW x \in Elements, Pack(x)
    PROVE  BufferTypes'
  <1>1. Bytes(x) \in Seq(Elements) /\ << >> \in Seq(Elements)
    BY BytesType
  <1>2. buffer \in Seq(Elements) /\ buffers \in Seq(Seq(Elements))
    BY DEF BufferTypes
  <1>3. Append(buffers, buffer) \in Seq(Seq(Elements))
    BY <1>2, AppendFacts
  <1>4. Append(Append(buffers, buffer), Bytes(x)) \in Seq(Seq(Elements))
    BY <1>1, <1>3, AppendFacts
  <1>5. buffer \o Bytes(x) \in Seq(Elements)
    BY <1>1, <1>2, ConcatProperties
  <1>6. /\ buffer' = buffer \o Bytes(x) \/ buffer' = Bytes(x) \/ buffer' = << >>
        /\ \/ buffers' = buffers \/ buffers' = Append(buffers, buffer)
           \/ buffers' = Append(Append(buffers, buffer), Bytes(x))
    BY DEF Pack
  <1> QED BY <1>1, <1>2, <1>3, <1>4, <1>5, <1>6 DEF BufferTypes

\* The effects of Socket::HandleQueue.
HandleStep(least) == HandleEmpty \/ HandleDropped \/ HandlePart(least) \/ HandleAll

\* HandleQueue writes a part of the first buffer, all of it, or drops it.
LEMMA HandleTypes ==
    ASSUME NEW least \in Nat, HandleStep(least), closed \in BOOLEAN,
           buffers \in Seq(Seq(Elements)), wire \in Seq(Elements)
    PROVE  buffers' \in Seq(Seq(Elements)) /\ wire' \in Seq(Elements) /\ closed' \in BOOLEAN
  <1>1. CASE HandleEmpty
    BY <1>1 DEF HandleEmpty
  <1>2. ASSUME buffers # << >>
        PROVE  Head(buffers) \in Seq(Elements) /\ Tail(buffers) \in Seq(Seq(Elements))
    BY <1>2, HeadTailProperties
  <1>3. ASSUME Pop, buffers # << >> PROVE buffers' \in Seq(Seq(Elements)) /\ closed' \in BOOLEAN
    <2>1. buffers' = Tail(buffers) /\ closed' = (closed \/ (closing /\ Len(buffers) = 1))
      BY <1>3 DEF Pop
    <2>2. closed' \in BOOLEAN
      BY <2>1, Zenon
    <2> QED BY <1>2, <1>3, <2>1, <2>2
  <1>4. CASE HandleDropped
    BY <1>3, <1>4 DEF HandleDropped
  <1>5. CASE HandlePart(least)
    <2>1. PICK n \in least..(Len(Head(buffers)) - 1) :
            /\ wire' = wire \o SubSeq(Head(buffers), 1, n)
            /\ buffers' = Rest(n)
      BY <1>5 DEF HandlePart
    <2>2. PICK h : h = Head(buffers)
      OBVIOUS
    <2>3. PICK r : r = Tail(buffers)
      OBVIOUS
    <2>4. buffers # << >> /\ closed' = closed
      BY <1>5 DEF HandlePart
    <2>5. h \in Seq(Elements) /\ r \in Seq(Seq(Elements)) /\ Len(h) \in Nat
      BY <1>2, <2>2, <2>3, <2>4, LenProperties
    <2>6. n \in Nat /\ n <= Len(h)
      BY <2>2, <2>5
    <2>7. SubSeq(h, 1, n) \in Seq(Elements) /\ SubSeq(h, n + 1, Len(h)) \in Seq(Elements)
      BY <2>5, <2>6, PartFacts
    <2>8. wire' \in Seq(Elements)
      BY <2>1, <2>2, <2>7, ConcatProperties
    <2>9. <<SubSeq(h, n + 1, Len(h))>> \in Seq(Seq(Elements))
      BY <2>7
    <2>10. <<SubSeq(h, n + 1, Len(h))>> \o r \in Seq(Seq(Elements))
      BY <2>5, <2>9, ConcatProperties
    <2>11. buffers' \in Seq(Seq(Elements))
      BY <2>1, <2>2, <2>3, <2>10 DEF Rest
    <2> QED BY <2>4, <2>8, <2>11
  <1>6. CASE HandleAll
    <2>1. buffers # << >> /\ wire' = wire \o Head(buffers) /\ Pop
      BY <1>6 DEF HandleAll
    <2>2. wire' \in Seq(Elements)
      BY <1>2, <2>1, ConcatProperties
    <2> QED BY <1>3, <2>1, <2>2
  <1> QED BY <1>1, <1>4, <1>5, <1>6 DEF HandleStep

Types == BufferTypes /\ Flags /\ Controls /\ History

\* SendPacket and the calls that close the socket.
LEMMA CallerTypes ==
    ASSUME Inv, Types, NEW t \in Threads,
           \/ \E x \in Elements, then \in {"return", "close"} : SendPacket(t, x, then)
           \/ Sending(t) \/ CloseSocket(t)
    PROVE  Types'
  <1>1. BufferTypes /\ Flags /\ Controls /\ History
    BY DEF Types
  <1>2. ASSUME NEW x \in Elements, NEW then \in {"return", "close"}, SendPacket(t, x, then)
        PROVE  Types'
    <2>1. BufferTypes'
      BY <1>1, <1>2 DEF SendPacket, BufferTypes
    <2>2. Flags'
      BY <1>1, <1>2, Zenon DEF SendPacket, Flags
    <2>3. Controls'
      BY <1>1, <1>2, BoundsAssumption DEF SendPacket, Controls
    <2>4. History'
      BY <1>1, <1>2 DEF SendPacket, History
    <2> QED BY <2>1, <2>2, <2>3, <2>4 DEF Types
  <1>3. CASE Enqueueing(t)
    <2>1. BufferTypes'
      BY <1>1, <1>3 DEF Enqueueing, BufferTypes
    <2>2. Flags'
      BY <1>1, <1>3, Zenon DEF Enqueueing, Flags
    <2>3. Controls'
      BY <1>1, <1>3, BoundsAssumption DEF Enqueueing, Controls
    <2>4. queue' # queue => enq[t].input \in Elements
      <3>1. PICK c \in Seq(Nodes) : Enqueues(c)
        BY DEF Inv
      <3>2. queue' # queue => enq[t].at = "exchange" /\ enq[t].input # Dummy
        BY <1>3 DEF Enqueueing, EnqueueStep, StoreNull, Exchange, Link
      <3> QED BY <3>1, <3>2 DEF Enqueues, Nodes
    <2>5. sent' \in Seq(Elements)
      <3>1. sent \in Seq(Elements) /\ sent' = IF queue' # queue THEN sent \o Bytes(enq[t].input)
                                               ELSE sent
        BY <1>1, <1>3 DEF Enqueueing, History
      <3> QED BY <2>4, <3>1, BytesType, ConcatProperties
    <2>6. History'
      BY <1>1, <1>3, <2>5 DEF Enqueueing, History
    <2> QED BY <2>1, <2>2, <2>3, <2>6 DEF Types
  <1>4. CASE DelayedCloseSocket(t)
    <2>1. BufferTypes' /\ History'
      BY <1>1, <1>4 DEF DelayedCloseSocket, BufferTypes, History
    <2>2. Flags'
      BY <1>1, <1>4, Zenon DEF DelayedCloseSocket, Flags
    <2>3. Controls'
      BY <1>1, <1>4 DEF DelayedCloseSocket, Controls
    <2> QED BY <2>1, <2>2, <2>3 DEF Types
  <1>5. CASE TestWriteQueue(t)
    <2>1. BufferTypes' /\ History'
      BY <1>1, <1>5 DEF TestWriteQueue, BufferTypes, History
    <2>2. Flags'
      <3>1. UNCHANGED <<closing, async, broken>>
        BY <1>5 DEF TestWriteQueue
      <3>2. PICK empty : /\ closed' = (closed \/ empty)
                         /\ stale' = (stale \/ (buffers = << >> /\ ~empty))
        BY <1>5, Zenon DEF TestWriteQueue
      <3>3. closed' \in BOOLEAN /\ stale' \in BOOLEAN
        BY <3>2, Zenon
      <3> QED BY <1>1, <3>1, <3>3, Zenon DEF Flags
    <2>3. Controls'
      BY <1>1, <1>5 DEF TestWriteQueue, Controls
    <2> QED BY <2>1, <2>2, <2>3 DEF Types
  <1>6. CASE CloseSocket(t)
    <2>1. BufferTypes' /\ History' /\ Controls'
      BY <1>1, <1>6 DEF CloseSocket, BufferTypes, History, Controls
    <2>2. Flags'
      BY <1>1, <1>6, Zenon DEF CloseSocket, Flags
    <2> QED BY <2>1, <2>2 DEF Types
  <1> QED BY <1>2, <1>3, <1>4, <1>5, <1>6 DEF Sending

\* The network thread.
LEMMA NetworkTypes ==
    ASSUME Inv, Types, Update \/ WriteHandlerWrapper \/ Break \/ UNCHANGED vars
    PROVE  Types'
  <1>1. BufferTypes /\ Flags /\ Controls /\ History
    BY DEF Types
  <1>2. CASE BeginUpdate
    <2>1. BufferTypes' /\ History' /\ Controls'
      BY <1>1, <1>2 DEF BeginUpdate, BufferTypes, History, Controls
    <2>2. Flags'
      BY <1>1, <1>2, Zenon DEF BeginUpdate, Flags
    <2> QED BY <2>1, <2>2 DEF Types
  <1>3. CASE Drain
    <2>1. BufferTypes' /\ History'
      BY <1>1, <1>3 DEF Drain, BufferTypes, History
    <2>2. Flags'
      BY <1>1, <1>3, Zenon DEF Drain, Flags
    <2>3. npc' \in {"drain", "pack", "flush"}
      BY <1>3 DEF Drain
    <2>4. Controls'
      BY <1>1, <1>3, <2>3 DEF Drain, Controls
    <2> QED BY <2>1, <2>2, <2>4 DEF Types
  <1>4. CASE PackPacket
    <2>1. PICK x \in out : Pack(x) /\ live' = live \ {x}
      BY <1>4 DEF PackPacket
    <2>2. x \in Elements
      BY DEF Inv, QTypeOK
    <2>3. BufferTypes'
      BY <1>1, <2>1, <2>2, PackTypes
    <2>4. History' /\ Controls'
      BY <1>1, <1>4, <2>1 DEF PackPacket, History, Controls
    <2>5. Flags'
      BY <1>1, <1>4, Zenon DEF PackPacket, Flags
    <2> QED BY <2>3, <2>4, <2>5 DEF Types
  <1>5. CASE FlushBuffer
    <2>1. buffers' = Flushed /\ buffer' = << >>
      BY <1>5 DEF FlushBuffer
    <2>2. Append(buffers, buffer) \in Seq(Seq(Elements))
      BY <1>1, AppendFacts DEF BufferTypes
    <2>3. BufferTypes'
      BY <1>1, <2>1, <2>2 DEF Flushed, BufferTypes
    <2>4. npc' \in {"idle", "write", "gone"}
      BY <1>5 DEF FlushBuffer
    <2>5. History' /\ Controls'
      BY <1>1, <1>5, <2>4 DEF FlushBuffer, History, Controls
    <2>6. Flags'
      BY <1>1, <1>5, Zenon DEF FlushBuffer, Flags
    <2> QED BY <2>3, <2>5, <2>6 DEF Types
  <1>6. ASSUME NEW least \in Nat, HandleStep(least), async' \in BOOLEAN,
               npc' \in {npc, "idle", "write"},
               UNCHANGED <<closing, buffer, todo, live, sends, sent, broken, stale>>
        PROVE  Types'
    <2>1. closed \in BOOLEAN /\ buffers \in Seq(Seq(Elements)) /\ wire \in Seq(Elements)
      BY <1>1 DEF Flags, BufferTypes, History
    <2>2. buffers' \in Seq(Seq(Elements)) /\ wire' \in Seq(Elements) /\ closed' \in BOOLEAN
      BY <1>6, <2>1, HandleTypes
    <2>3. BufferTypes' /\ History'
      BY <1>1, <1>6, <2>2 DEF BufferTypes, History
    <2>4. Flags'
      BY <1>1, <1>6, <2>2, Zenon DEF Flags
    <2>5. Controls'
      BY <1>1, <1>6 DEF Controls
    <2> QED BY <2>3, <2>4, <2>5 DEF Types
  <1>7. CASE WriteQueue
    <2>1. HandleStep(0)
      BY <1>7 DEF WriteQueue, HandleStep
    <2>2. async' \in BOOLEAN
      <3>1. async' = async \/ async' = TRUE
        BY <1>7 DEF WriteQueue
      <3>2. async \in BOOLEAN
        BY <1>1 DEF Flags
      <3> QED BY <3>1, <3>2, Zenon
    <2>3. /\ npc' \in {npc, "idle", "write"}
          /\ UNCHANGED <<closing, buffer, todo, live, sends, sent, broken, stale>>
      BY <1>7 DEF WriteQueue
    <2> QED BY <1>6, <2>1, <2>2, <2>3
  <1>8. CASE WriteHandlerWrapper
    <2>1. HandleStep(1)
      BY <1>8 DEF WriteHandlerWrapper, HandleStep
    <2>2. async' \in BOOLEAN
      <3>1. async' = FALSE \/ async' = TRUE
        BY <1>8 DEF WriteHandlerWrapper
      <3> QED BY <3>1, Zenon
    <2>3. /\ npc' \in {npc, "idle", "write"}
          /\ UNCHANGED <<closing, buffer, todo, live, sends, sent, broken, stale>>
      BY <1>8 DEF WriteHandlerWrapper
    <2> QED BY <1>6, <2>1, <2>2, <2>3
  <1>9. CASE Break
    <2>1. BufferTypes' /\ History' /\ Controls'
      BY <1>1, <1>9 DEF Break, BufferTypes, History, Controls
    <2>2. Flags'
      BY <1>1, <1>9, Zenon DEF Break, Flags
    <2> QED BY <2>1, <2>2 DEF Types
  <1>10. CASE UNCHANGED vars
    <2>1. UNCHANGED svars
      BY <1>10 DEF vars
    <2>2. BufferTypes' /\ History' /\ Controls'
      BY <1>1, <2>1 DEF svars, BufferTypes, History, Controls
    <2>3. Flags'
      BY <1>1, <2>1, Zenon DEF svars, Flags
    <2> QED BY <2>2, <2>3 DEF Types
  <1> QED BY <1>2, <1>3, <1>4, <1>5, <1>7, <1>8, <1>9, <1>10 DEF Update

\* The socket starts open, with nothing sent.
LEMMA InitTypes == Init => Types
  <1> SUFFICES ASSUME Init PROVE Types
    OBVIOUS
  <1>1. BufferTypes /\ History
    <2>1. buffers = << >> /\ buffer = << >> /\ sent = << >> /\ wire = << >> /\ live = {}
      BY DEF Init
    <2> QED BY <2>1 DEF BufferTypes, History
  <1>2. Flags
    BY Zenon DEF Init, Flags
  <1>3. Controls
    BY BoundsAssumption DEF Init, Controls
  <1> QED BY <1>1, <1>2, <1>3 DEF Types

\* The types are an invariant.
LEMMA TypesHold == Spec => []Types
  <1>1. Init => Types
    BY InitTypes
  <1>2. Inv /\ Types /\ [Next]_vars => Types'
    BY CallerTypes, NetworkTypes DEF Next
  <1> QED BY <1>1, <1>2, Invariance, PTL DEF Spec

-----------------------------------------------------------------------------
(* The stream of bytes: where the pieces of it are. *)

\* The bytes c are in s behind the first i.
At(s, i, c) == i + Len(c) <= Len(s) /\ \A k \in 1..Len(c) : s[i + k] = c[k]

\* f says where each piece of q begins in s, from i on to j.
Offsets(f, s, q, i, j) ==
    /\ f \in [1..(Len(q) + 1) -> Nat] /\ f[1] = i /\ f[Len(q) + 1] = j
    /\ \A k \in 1..Len(q) : f[k + 1] = f[k] + Len(q[k]) /\ At(s, f[k], q[k])

\* The pieces q, one behind the other, are s between i and j.
Covers(s, q, i, j) == \E f : Offsets(f, s, q, i, j)

\* So are the bytes of the packets q.
Carries(s, q, i, j) ==
    \E b \in Seq(Seq(Elements)) :
        /\ Len(b) = Len(q) /\ \A k \in 1..Len(q) : b[k] = Bytes(q[k])
        /\ Covers(s, b, i, j)

\* A piece stays where it is when the stream grows.
LEMMA AtGrows ==
    ASSUME NEW s \in Seq(Elements), NEW z \in Seq(Elements), NEW c \in Seq(Elements),
           NEW i \in Nat, At(s, i, c)
    PROVE  At(s \o z, i, c)
  <1>1. /\ Len(s) \in Nat /\ Len(z) \in Nat /\ Len(c) \in Nat /\ Len(s \o z) = Len(s) + Len(z)
        /\ \A k \in 1..Len(s) : (s \o z)[k] = s[k]
    BY LenProperties, ConcatProperties
  <1>2. i + Len(c) <= Len(s) /\ \A k \in 1..Len(c) : s[i + k] = c[k]
    BY DEF At
  <1>3. ASSUME NEW k \in 1..Len(c) PROVE (s \o z)[i + k] = c[k]
    <2>1. i + k \in 1..Len(s)
      BY <1>1, <1>2
    <2> QED BY <1>1, <1>2, <2>1
  <1> QED BY <1>1, <1>2, <1>3 DEF At

\* What is appended is at the end.
LEMMA AtEnd ==
    ASSUME NEW s \in Seq(Elements), NEW z \in Seq(Elements)
    PROVE  At(s \o z, Len(s), z)
  <1>1. /\ Len(s) \in Nat /\ Len(z) \in Nat /\ Len(s \o z) = Len(s) + Len(z)
        /\ \A k \in 1..(Len(s) + Len(z)) :
              (s \o z)[k] = IF k <= Len(s) THEN s[k] ELSE z[k - Len(s)]
    BY LenProperties, ConcatProperties
  <1>2. ASSUME NEW k \in 1..Len(z) PROVE (s \o z)[Len(s) + k] = z[k]
    BY <1>1
  <1> QED BY <1>1, <1>2 DEF At

\* Two pieces next to each other are one.
LEMMA AtJoin ==
    ASSUME NEW s \in Seq(Elements), NEW b \in Seq(Elements), NEW c \in Seq(Elements),
           NEW i \in Nat, At(s, i, b), At(s, i + Len(b), c)
    PROVE  At(s, i, b \o c)
  <1>1. /\ Len(s) \in Nat /\ Len(b) \in Nat /\ Len(c) \in Nat /\ Len(b \o c) = Len(b) + Len(c)
        /\ \A k \in 1..(Len(b) + Len(c)) :
              (b \o c)[k] = IF k <= Len(b) THEN b[k] ELSE c[k - Len(b)]
    BY LenProperties, ConcatProperties
  <1>2. /\ i + Len(b) + Len(c) <= Len(s)
        /\ \A k \in 1..Len(b) : s[i + k] = b[k]
        /\ \A k \in 1..Len(c) : s[i + Len(b) + k] = c[k]
    BY DEF At
  <1>3. ASSUME NEW k \in 1..(Len(b) + Len(c)) PROVE s[i + k] = (b \o c)[k]
    <2>1. CASE k <= Len(b)
      BY <1>1, <1>2, <2>1
    <2>2. CASE k > Len(b)
      <3>1. PICK m : m = k - Len(b)
        OBVIOUS
      <3>2. m \in 1..Len(c) /\ i + Len(b) + m = i + k
        BY <1>1, <2>2, <3>1
      <3>3. (b \o c)[k] = c[m]
        BY <1>1, <2>2, <3>1
      <3> QED BY <1>2, <3>2, <3>3
    <2> QED BY <1>1, <2>1, <2>2
  <1> QED BY <1>1, <1>2, <1>3 DEF At

\* A piece is cut in two.
LEMMA AtCut ==
    ASSUME NEW s \in Seq(Elements), NEW c \in Seq(Elements), NEW i \in Nat, At(s, i, c),
           NEW n \in Nat, n <= Len(c)
    PROVE  /\ At(s, i, SubSeq(c, 1, n)) /\ Len(SubSeq(c, 1, n)) = n
           /\ At(s, i + n, SubSeq(c, n + 1, Len(c)))
           /\ Len(SubSeq(c, n + 1, Len(c))) = Len(c) - n
  <1>1. Len(s) \in Nat /\ Len(c) \in Nat /\ \A k \in 1..Len(c) : c[k] \in Elements
    BY LenProperties, SeqFacts
  <1>2. i + Len(c) <= Len(s) /\ \A k \in 1..Len(c) : s[i + k] = c[k]
    BY DEF At
  <1>3. /\ Len(SubSeq(c, 1, n)) = n
        /\ \A k \in 1..n : SubSeq(c, 1, n)[k] = c[k]
    <2>1. \A k \in 1..n : c[k] \in Elements
      BY <1>1
    <2>2. /\ Len(SubSeq(c, 1, n)) = IF 1 <= n THEN n - 1 + 1 ELSE 0
          /\ \A k \in 1..(n - 1 + 1) : SubSeq(c, 1, n)[k] = c[1 + k - 1]
      BY <2>1, SubSeqProperties
    <2> QED BY <2>2
  <1>4. /\ Len(SubSeq(c, n + 1, Len(c))) = Len(c) - n
        /\ \A k \in 1..(Len(c) - n) : SubSeq(c, n + 1, Len(c))[k] = c[n + k]
    <2>1. PICK l \in Nat : l = Len(c)
      BY <1>1
    <2>2. PICK m \in Nat : m = n + 1
      OBVIOUS
    <2>3. \A k \in m..l : c[k] \in Elements
      BY <1>1, <2>1, <2>2
    <2>4. /\ Len(SubSeq(c, m, l)) = IF m <= l THEN l - m + 1 ELSE 0
          /\ \A k \in 1..(l - m + 1) : SubSeq(c, m, l)[k] = c[m + k - 1]
      BY <2>3, SubSeqProperties
    <2>5. Len(SubSeq(c, m, l)) = l - n /\ l - m + 1 = l - n
      BY <2>1, <2>2, <2>4
    <2>6. ASSUME NEW k \in 1..(l - n) PROVE SubSeq(c, m, l)[k] = c[n + k]
      BY <2>2, <2>4, <2>5
    <2> QED BY <2>1, <2>2, <2>5, <2>6
  <1>5. At(s, i, SubSeq(c, 1, n))
    BY <1>1, <1>2, <1>3 DEF At
  <1>6. At(s, i + n, SubSeq(c, n + 1, Len(c)))
    <2>1. ASSUME NEW k \in 1..(Len(c) - n) PROVE s[i + n + k] = SubSeq(c, n + 1, Len(c))[k]
      <3>1. n + k \in 1..Len(c) /\ i + (n + k) = i + n + k
        BY <1>1
      <3>2. s[i + (n + k)] = c[n + k]
        BY <1>2, <3>1
      <3> QED BY <1>4, <3>1, <3>2
    <2>2. PICK d : d = SubSeq(c, n + 1, Len(c))
      OBVIOUS
    <2>3. Len(d) = Len(c) - n /\ \A k \in 1..Len(d) : s[i + n + k] = d[k]
      BY <1>4, <2>1, <2>2
    <2>4. i + n + Len(d) <= Len(s)
      BY <1>1, <1>2, <2>3
    <2>5. At(s, i + n, d)
      BY <2>3, <2>4 DEF At
    <2> QED BY <2>2, <2>5
  <1> QED BY <1>3, <1>4, <1>5, <1>6

\* A piece more at the end.
LEMMA CoversAppend ==
    ASSUME NEW s \in Seq(Elements), NEW q \in Seq(Seq(Elements)), NEW c \in Seq(Elements),
           NEW i \in Nat, NEW j \in Nat, Covers(s, q, i, j), At(s, j, c)
    PROVE  Covers(s, Append(q, c), i, j + Len(c))
  <1>1. PICK f : Offsets(f, s, q, i, j)
    BY DEF Covers
  <1>2. PICK l \in Nat : l = Len(q)
    BY LenProperties
  <1>3. Len(c) \in Nat
    BY LenProperties
  <1>4. /\ f \in [1..(l + 1) -> Nat] /\ f[1] = i /\ f[l + 1] = j
        /\ \A k \in 1..l : f[k + 1] = f[k] + Len(q[k]) /\ At(s, f[k], q[k])
    BY <1>1, <1>2 DEF Offsets
  <1>5. PICK p : p = Append(q, c)
    OBVIOUS
  <1>6. Len(p) = l + 1 /\ (\A k \in 1..l : p[k] = q[k]) /\ p[l + 1] = c
    BY <1>2, <1>5, AppendFacts
  <1>7. PICK g : g = [k \in 1..(l + 2) |-> IF k <= l + 1 THEN f[k] ELSE j + Len(c)]
    OBVIOUS
  <1>8. /\ g \in [1..(l + 2) -> Nat] /\ (\A k \in 1..(l + 1) : g[k] = f[k])
        /\ g[l + 2] = j + Len(c)
    BY <1>3, <1>4, <1>7
  <1>9. g[1] = i /\ g[l + 1] = j
    BY <1>4, <1>8
  <1>10. ASSUME NEW k \in 1..(l + 1) PROVE g[k + 1] = g[k] + Len(p[k]) /\ At(s, g[k], p[k])
    <2>1. CASE k = l + 1
      <3>1. k + 1 = l + 2 /\ g[k] = j /\ p[k] = c
        BY <1>6, <1>9, <2>1
      <3> QED BY <1>8, <3>1
    <2>2. CASE k # l + 1
      <3>1. k \in 1..l /\ k + 1 \in 1..(l + 1)
        BY <2>2
      <3>2. g[k] = f[k] /\ g[k + 1] = f[k + 1] /\ p[k] = q[k]
        BY <1>6, <1>8, <3>1
      <3> QED BY <1>4, <3>1, <3>2
    <2> QED BY <2>1, <2>2
  <1>11. Offsets(g, s, p, i, j + Len(c))
    <2>1. Len(p) + 1 = l + 2
      BY <1>6
    <2> QED BY <1>6, <1>8, <1>9, <1>10, <2>1 DEF Offsets
  <1> QED BY <1>5, <1>11 DEF Covers

\* The first piece is taken away.
LEMMA CoversTail ==
    ASSUME NEW s \in Seq(Elements), NEW q \in Seq(Seq(Elements)), Len(q) > 0,
           NEW i \in Nat, NEW j \in Nat, Covers(s, q, i, j)
    PROVE  At(s, i, Head(q)) /\ Covers(s, Tail(q), i + Len(Head(q)), j)
  <1>1. PICK f : Offsets(f, s, q, i, j)
    BY DEF Covers
  <1>2. PICK l \in Nat : l = Len(q)
    BY LenProperties
  <1>3. l > 0 /\ l - 1 \in Nat /\ (l - 1) + 1 = l
    BY <1>2
  <1>4. /\ f \in [1..(l + 1) -> Nat] /\ f[1] = i /\ f[l + 1] = j
        /\ \A k \in 1..l : f[k + 1] = f[k] + Len(q[k]) /\ At(s, f[k], q[k])
    BY <1>1, <1>2 DEF Offsets
  <1>5. PICK r : r = Tail(q)
    OBVIOUS
  <1>6. Len(r) = l - 1 /\ (\A k \in 1..(l - 1) : r[k] = q[k + 1]) /\ Head(q) = q[1]
    BY <1>2, <1>5, TailFacts
  <1>7. f[2] = i + Len(q[1]) /\ At(s, i, q[1])
    <2>1. 1 \in 1..l /\ 1 + 1 = 2
      BY <1>3
    <2> QED BY <1>4, <2>1
  <1>8. PICK g : g = [k \in 1..l |-> f[k + 1]]
    OBVIOUS
  <1>9. g \in [1..l -> Nat] /\ (\A k \in 1..l : g[k] = f[k + 1])
    BY <1>4, <1>8
  <1>10. g[1] = f[2] /\ g[l] = j
    BY <1>3, <1>4, <1>9
  <1>11. ASSUME NEW k \in 1..(l - 1) PROVE g[k + 1] = g[k] + Len(r[k]) /\ At(s, g[k], r[k])
    <2>1. k \in 1..l /\ k + 1 \in 1..l
      BY <1>3
    <2>2. g[k] = f[k + 1] /\ g[k + 1] = f[k + 1 + 1] /\ r[k] = q[k + 1]
      BY <1>6, <1>9, <2>1
    <2> QED BY <1>4, <2>1, <2>2
  <1>12. Offsets(g, s, r, f[2], j)
    BY <1>3, <1>6, <1>9, <1>10, <1>11 DEF Offsets
  <1> QED BY <1>5, <1>6, <1>7, <1>12 DEF Covers

\* A piece more in front.
LEMMA CoversFirst ==
    ASSUME NEW s \in Seq(Elements), NEW q \in Seq(Seq(Elements)), NEW c \in Seq(Elements),
           NEW i \in Nat, NEW j \in Nat, Covers(s, q, i + Len(c), j), At(s, i, c)
    PROVE  Covers(s, <<c>> \o q, i, j)
  <1>1. PICK f : Offsets(f, s, q, i + Len(c), j)
    BY DEF Covers
  <1>2. PICK l \in Nat : l = Len(q)
    BY LenProperties
  <1>3. Len(c) \in Nat
    BY LenProperties
  <1>4. /\ f \in [1..(l + 1) -> Nat] /\ f[1] = i + Len(c) /\ f[l + 1] = j
        /\ \A k \in 1..l : f[k + 1] = f[k] + Len(q[k]) /\ At(s, f[k], q[k])
    BY <1>1, <1>2 DEF Offsets
  <1>5. PICK p : p = <<c>> \o q
    OBVIOUS
  <1>6. Len(p) = l + 1 /\ p[1] = c /\ \A k \in 1..l : p[k + 1] = q[k]
    <2>1. <<c>> \in Seq(Seq(Elements)) /\ Len(<<c>>) = 1 /\ <<c>>[1] = c
      OBVIOUS
    <2>2. PICK o : o = <<c>>
      OBVIOUS
    <2>3. /\ Len(p) = 1 + l
          /\ \A k \in 1..(1 + l) : p[k] = IF k <= 1 THEN o[k] ELSE q[k - 1]
      BY <1>2, <1>5, <2>1, <2>2, ConcatProperties
    <2>4. p[1] = c
      BY <2>1, <2>2, <2>3
    <2>5. ASSUME NEW k \in 1..l PROVE p[k + 1] = q[k]
      BY <2>3
    <2> QED BY <2>3, <2>4, <2>5
  <1>7. PICK g : g = [k \in 1..(l + 2) |-> IF k = 1 THEN i ELSE f[k - 1]]
    OBVIOUS
  <1>8. g \in [1..(l + 2) -> Nat] /\ g[1] = i /\ (\A k \in 1..(l + 1) : g[k + 1] = f[k])
    BY <1>4, <1>7
  <1>9. g[l + 2] = j
    BY <1>4, <1>8
  <1>10. ASSUME NEW k \in 1..(l + 1) PROVE g[k + 1] = g[k] + Len(p[k]) /\ At(s, g[k], p[k])
    <2>1. CASE k = 1
      BY <1>4, <1>6, <1>8, <2>1
    <2>2. CASE k # 1
      <3>1. PICK m : m = k - 1
        OBVIOUS
      <3>2. m \in 1..l /\ m + 1 = k /\ m \in 1..(l + 1)
        BY <2>2, <3>1
      <3>3. g[k] = f[m] /\ g[k + 1] = f[m + 1] /\ p[k] = q[m]
        BY <1>6, <1>8, <3>2
      <3> QED BY <1>4, <3>2, <3>3
    <2> QED BY <2>1, <2>2
  <1>11. Offsets(g, s, p, i, j)
    <2>1. Len(p) + 1 = l + 2
      BY <1>6
    <2> QED BY <1>6, <1>8, <1>9, <1>10, <2>1 DEF Offsets
  <1> QED BY <1>5, <1>11 DEF Covers

\* The pieces stay where they are when the stream grows.
LEMMA CoversGrows ==
    ASSUME NEW s \in Seq(Elements), NEW z \in Seq(Elements), NEW q \in Seq(Seq(Elements)),
           NEW i \in Nat, NEW j \in Nat, Covers(s, q, i, j)
    PROVE  Covers(s \o z, q, i, j)
  <1>1. PICK f : Offsets(f, s, q, i, j)
    BY DEF Covers
  <1>2. Len(q) \in Nat /\ \A k \in 1..Len(q) : q[k] \in Seq(Elements)
    BY LenProperties, SeqFacts
  <1>3. ASSUME NEW k \in 1..Len(q) PROVE At(s \o z, f[k], q[k])
    <2>1. f \in [1..(Len(q) + 1) -> Nat] /\ At(s, f[k], q[k])
      BY <1>1 DEF Offsets
    <2>2. k \in 1..(Len(q) + 1)
      BY <1>2
    <2>3. f[k] \in Nat
      BY <2>1, <2>2
    <2>4. q[k] \in Seq(Elements)
      BY <1>2
    <2> QED BY <2>1, <2>3, <2>4, AtGrows
  <1>4. Offsets(f, s \o z, q, i, j)
    BY <1>1, <1>3 DEF Offsets
  <1> QED BY <1>4 DEF Covers

\* The size of a packet is the number of its bytes.
LEMMA BytesLength ==
    ASSUME NEW x \in Elements
    PROVE  /\ Bytes(x) \in Seq(Elements) /\ Len(Bytes(x)) = PacketSize(x)
           /\ PacketSize(x) \in Nat \ {0}
  <1>1. PacketSize(x) \in Nat \ {0}
    BY BoundsAssumption DEF PacketSize
  <1> QED BY <1>1, BytesType DEF Bytes

\* A packet enters _bufferQueue.
LEMMA CarriesAppend ==
    ASSUME NEW s \in Seq(Elements), NEW q \in Seq(Elements), NEW x \in Elements, NEW i \in Nat,
           Carries(s, q, i, Len(s))
    PROVE  Carries(s \o Bytes(x), Append(q, x), i, Len(s \o Bytes(x)))
  <1>1. PICK b \in Seq(Seq(Elements)) :
            /\ Len(b) = Len(q) /\ \A k \in 1..Len(q) : b[k] = Bytes(q[k])
            /\ Covers(s, b, i, Len(s))
    BY DEF Carries
  <1>2. PICK z \in Seq(Elements) : z = Bytes(x)
    BY BytesLength
  <1>3. Len(s) \in Nat /\ Len(q) \in Nat /\ Len(z) \in Nat /\ Len(s \o z) = Len(s) + Len(z)
    BY LenProperties, ConcatProperties
  <1>4. s \o z \in Seq(Elements)
    BY ConcatProperties
  <1>5. PICK w \in Seq(Elements) : w = s \o z
    BY <1>4
  <1>6. Covers(w, b, i, Len(s)) /\ At(w, Len(s), z)
    BY <1>1, <1>3, <1>5, CoversGrows, AtEnd
  <1>7. Covers(w, Append(b, z), i, Len(s) + Len(z))
    BY <1>3, <1>6, CoversAppend
  <1>8. /\ Append(b, z) \in Seq(Seq(Elements)) /\ Len(Append(b, z)) = Len(q) + 1
        /\ \A k \in 1..Len(q) : Append(b, z)[k] = b[k]
        /\ Append(b, z)[Len(q) + 1] = z
    BY <1>1, AppendFacts
  <1>9. /\ Len(Append(q, x)) = Len(q) + 1 /\ (\A k \in 1..Len(q) : Append(q, x)[k] = q[k])
        /\ Append(q, x)[Len(q) + 1] = x
    BY AppendFacts
  <1>10. ASSUME NEW k \in 1..(Len(q) + 1) PROVE Append(b, z)[k] = Bytes(Append(q, x)[k])
    <2>1. CASE k = Len(q) + 1
      BY <1>2, <1>8, <1>9, <2>1
    <2>2. CASE k # Len(q) + 1
      <3>1. k \in 1..Len(q)
        BY <1>3, <2>2
      <3> QED BY <1>1, <1>8, <1>9, <3>1
    <2> QED BY <2>1, <2>2
  <1>11. Carries(w, Append(q, x), i, Len(s) + Len(z))
    BY <1>7, <1>8, <1>9, <1>10 DEF Carries
  <1> QED BY <1>2, <1>3, <1>5, <1>11

\* The first packet leaves it.
LEMMA CarriesTail ==
    ASSUME NEW s \in Seq(Elements), NEW q \in Seq(Elements), Len(q) > 0, NEW i \in Nat,
           NEW j \in Nat, Carries(s, q, i, j)
    PROVE  At(s, i, Bytes(Head(q))) /\ Carries(s, Tail(q), i + PacketSize(Head(q)), j)
  <1>1. PICK b \in Seq(Seq(Elements)) :
            /\ Len(b) = Len(q) /\ \A k \in 1..Len(q) : b[k] = Bytes(q[k])
            /\ Covers(s, b, i, j)
    BY DEF Carries
  <1>2. Len(q) \in Nat /\ Len(b) > 0 /\ 1 \in 1..Len(q)
    BY <1>1, LenProperties
  <1>3. /\ Len(Tail(q)) = Len(q) - 1 /\ Head(q) = q[1]
        /\ \A k \in 1..(Len(q) - 1) : Tail(q)[k] = q[k + 1]
    BY TailFacts
  <1>4. /\ Tail(b) \in Seq(Seq(Elements)) /\ Len(Tail(b)) = Len(q) - 1 /\ Head(b) = b[1]
        /\ \A k \in 1..(Len(q) - 1) : Tail(b)[k] = b[k + 1]
    BY <1>1, <1>2, TailFacts
  <1>5. PICK x \in Elements : x = Head(q)
    BY <1>2, <1>3, SeqFacts
  <1>6. Head(b) = Bytes(x)
    BY <1>1, <1>2, <1>3, <1>4, <1>5
  <1>7. At(s, i, Bytes(x)) /\ Covers(s, Tail(b), i + PacketSize(x), j)
    BY <1>1, <1>2, <1>6, CoversTail, BytesLength
  <1>8. ASSUME NEW k \in 1..(Len(q) - 1) PROVE Tail(b)[k] = Bytes(Tail(q)[k])
    <2>1. k + 1 \in 1..Len(q)
      BY <1>2
    <2> QED BY <1>1, <1>3, <1>4, <2>1
  <1>9. Carries(s, Tail(q), i + PacketSize(x), j)
    BY <1>3, <1>4, <1>7, <1>8 DEF Carries
  <1> QED BY <1>5, <1>7, <1>9

-----------------------------------------------------------------------------
(* What was sent is what is on the wire, in the buffers and in the queue. *)

\* Where the packet in the hands of the network thread begins and where it ends.
InHand(b, g) ==
    IF npc = "pack" THEN \E x \in out : At(sent, b, Bytes(x)) /\ g = b + PacketSize(x)
    ELSE g = b

\* The stream is cut at e, where the buffer begins, and at g, where _bufferQueue begins.
Cut(e, g) ==
    /\ Covers(sent, buffers, Len(wire), e)
    /\ At(sent, e, buffer)
    /\ InHand(e + Len(buffer), g)
    /\ Carries(sent, queue, g, Len(sent))

Laid == \E e, g \in Nat : Cut(e, g)

\* While the connection lasts the pieces are all there; afterwards the wire is what
\* it was. The buffer is Update's.
Flow ==
    /\ At(sent, 0, wire)
    /\ ~closed /\ ~broken => Laid
    /\ npc \notin {"drain", "pack", "flush"} => buffer = << >>

\* Steps that move no byte.
LEMMA QuietFlow ==
    ASSUME Flow, UNCHANGED <<sent, buffers, buffer, wire, queue>>,
           closed => closed', broken => broken',
           \/ UNCHANGED <<npc, out>>
           \/ /\ npc # "pack" /\ npc' # "pack"
              /\ npc' \in {"drain", "flush"} \/ buffer = << >>
    PROVE  Flow'
  <1>1. At(sent, 0, wire)' /\ (npc \notin {"drain", "pack", "flush"} => buffer = << >>)'
    BY DEF Flow, At
  <1>2. ASSUME Laid PROVE Laid'
    <2>1. PICK e, g \in Nat : Cut(e, g)
      BY <1>2 DEF Laid
    <2>2. Cut(e, g)'
      <3>1. InHand(e + Len(buffer), g)'
        BY <2>1 DEF Cut, InHand
      <3> QED BY <2>1, <3>1 DEF Cut
    <2> QED BY <2>2 DEF Laid
  <1> QED BY <1>1, <1>2 DEF Flow

\* A packet takes its place.
LEMMA EnqueueingFlow ==
    ASSUME Inv, Types, Flow, NEW t \in Threads, Enqueueing(t)
    PROVE  Flow'
  <1>1. /\ UNCHANGED <<closed, broken, buffers, buffer, npc, wire>>
        /\ sent' = IF queue' # queue THEN sent \o Bytes(enq[t].input) ELSE sent
        /\ EnqueueStep(t)
    BY DEF Enqueueing
  <1>2. UNCHANGED out
    BY <1>1 DEF EnqueueStep, StoreNull, Exchange, Link
  <1>3. CASE UNCHANGED queue
    BY <1>1, <1>2, <1>3, QuietFlow
  <1>4. CASE queue' # queue
    <2>1. PICK x : x = enq[t].input
      OBVIOUS
    <2>2. enq[t].at = "exchange" /\ x # Dummy /\ queue' = Append(queue, x)
      BY <1>1, <1>4, <2>1 DEF EnqueueStep, StoreNull, Exchange, Link
    <2>3. x \in Elements
      <3>1. PICK c \in Seq(Nodes) : Enqueues(c)
        BY DEF Inv
      <3> QED BY <2>1, <2>2, <3>1 DEF Enqueues, Nodes
    <2>4. PICK z \in Seq(Elements) : z = Bytes(x)
      BY <2>3, BytesLength
    <2>5. sent' = sent \o z
      BY <1>1, <1>4, <2>1, <2>4
    <2>6. /\ sent \in Seq(Elements) /\ wire \in Seq(Elements) /\ buffers \in Seq(Seq(Elements))
          /\ buffer \in Seq(Elements) /\ queue \in Seq(Elements) /\ out \subseteq Elements
      BY DEF Types, History, BufferTypes, Inv, QTypeOK
    <2>7. Len(wire) \in Nat /\ Len(buffer) \in Nat
      BY <2>6, LenProperties
    <2>8. At(sent', 0, wire)
      BY <2>5, <2>6, AtGrows DEF Flow
    <2>9. ASSUME ~closed, ~broken PROVE Laid'
      <3>1. PICK e, g \in Nat : Cut(e, g)
        BY <2>9 DEF Flow, Laid
      <3>2. Covers(sent', buffers, Len(wire), e)
        BY <2>5, <2>6, <2>7, <3>1, CoversGrows DEF Cut
      <3>3. At(sent', e, buffer)
        BY <2>5, <2>6, <3>1, AtGrows DEF Cut
      <3>4. Carries(sent', Append(queue, x), g, Len(sent'))
        BY <2>3, <2>4, <2>5, <2>6, <3>1, CarriesAppend DEF Cut
      <3>5. InHand(e + Len(buffer), g)'
        <4>1. CASE npc # "pack"
          BY <1>1, <3>1, <4>1 DEF InHand, Cut
        <4>2. CASE npc = "pack"
          <5>1. PICK y \in out : /\ At(sent, e + Len(buffer), Bytes(y))
                                 /\ g = e + Len(buffer) + PacketSize(y)
            BY <3>1, <4>2 DEF Cut, InHand
          <5>2. PICK b \in Seq(Elements) : b = Bytes(y)
            BY <2>6, <5>1, BytesLength
          <5>3. PICK i \in Nat : i = e + Len(buffer)
            BY <2>7
          <5>4. At(sent', i, b)
            BY <2>5, <2>6, <5>1, <5>2, <5>3, AtGrows
          <5>5. At(sent, e + Len(buffer), Bytes(y))'
            BY <1>1, <5>2, <5>3, <5>4
          <5> QED BY <1>1, <1>2, <4>2, <5>1, <5>5 DEF InHand
        <4> QED BY <4>1, <4>2
      <3>6. Cut(e, g)'
        BY <1>1, <2>2, <3>2, <3>3, <3>4, <3>5 DEF Cut
      <3> QED BY <3>6 DEF Laid
    <2> QED BY <1>1, <2>8, <2>9 DEF Flow
  <1> QED BY <1>3, <1>4

\* What a step of Dequeue does to the queue.
LEMMA DrainEffect ==
    ASSUME Inv, Drain
    PROVE  /\ npc = "drain" /\ UNCHANGED <<sent, buffers, buffer, wire, closed, broken>>
           /\ \/ UNCHANGED queue /\ npc' \in {"drain", "flush"}
              \/ /\ queue # << >> /\ queue' = Tail(queue) /\ out' = {Head(queue)}
                 /\ npc' = "pack"
  <1>1. /\ npc = "drain" /\ UNCHANGED <<sent, buffers, buffer, wire, closed, broken>>
        /\ UNCHANGED live
    BY DEF Drain
  <1>2. CASE CallDequeue /\ npc' = npc
    BY <1>1, <1>2 DEF CallDequeue
  <1>3. ASSUME DequeueStep,
               npc' = CASE deq' # NoDequeue -> "drain"
                        [] deq' = NoDequeue /\ out' # {} -> "pack"
                        [] OTHER -> "flush"
        PROVE  \/ UNCHANGED queue /\ npc' \in {"drain", "flush"}
               \/ /\ queue # << >> /\ queue' = Tail(queue) /\ out' = {Head(queue)}
                  /\ npc' = "pack"
    <2>1. /\ deq' # NoDequeue => npc' = "drain"
          /\ deq' = NoDequeue /\ out' # {} => npc' = "pack"
          /\ deq' = NoDequeue /\ out' = {} => npc' = "flush"
      BY <1>3
    <2>2. ASSUME NEW n, n = link[tail], n # Nil, tail # Dummy, deq.at # "none",
                 enq[Consumer].at = "none", ReturnElement(n)
          PROVE  queue # << >> /\ queue' = Tail(queue) /\ out' = {Head(queue)} /\ npc' = "pack"
      <3>1. npc' = "pack" /\ queue' = Tail(queue)
        BY <2>1, <2>2 DEF ReturnElement
      <3>2. queue # << >> /\ out' = {Head(queue)}
        BY <1>1, <2>2, <3>1, ReturnElementStep
      <3> QED BY <3>1, <3>2
    <2>3. ASSUME ReturnNothing, deq.at # "none" PROVE UNCHANGED queue /\ npc' = "flush"
      <3>1. out = {}
        BY <2>3 DEF Inv, Dequeues
      <3> QED BY <2>1, <2>3, <3>1 DEF ReturnNothing
    <2>4. CASE DequeueEmpty \/ DequeueBusy
      <3>1. deq.at # "none" /\ ReturnNothing
        BY <2>4 DEF DequeueEmpty, DequeueBusy, AtElement
      <3> QED BY <2>3, <3>1
    <2>5. CASE DequeueDummy \/ DequeueLast
      <3>1. UNCHANGED queue
        BY <2>5 DEF DequeueDummy, DequeueLast
      <3>2. deq'.at \in {"skipped", "dummy"}
        BY <2>5 DEF DequeueDummy, DequeueLast, Inv, QTypeOK
      <3>3. deq' # NoDequeue
        BY <3>2 DEF NoDequeue
      <3> QED BY <2>1, <3>1, <3>3
    <2>6. CASE DequeueLinked
      <3>1. PICK n : n = deq.next
        OBVIOUS
      <3>2. /\ deq.at # "none" /\ enq[Consumer].at = "none" /\ n = link[tail] /\ n # Nil
            /\ tail # Dummy /\ ReturnElement(n)
        BY <2>6, <3>1, AtElementFacts DEF DequeueLinked
      <3> QED BY <2>2, <3>2
    <2>7. CASE DequeueAgain
      <3>1. deq.at = "dummy" /\ deq.tail = tail /\ tail # Dummy /\ enq[Consumer].at = "none"
        BY <2>7, AgainFacts
      <3>2. CASE link[deq.tail] # Nil
        <4>1. PICK n : n = link[tail]
          OBVIOUS
        <4>2. ReturnElement(n) /\ n # Nil
          BY <2>7, <3>1, <3>2, <4>1 DEF DequeueAgain
        <4> QED BY <2>2, <3>1, <4>1, <4>2
      <3>3. CASE link[deq.tail] = Nil
        <4>1. ReturnNothing
          BY <2>7, <3>3 DEF DequeueAgain
        <4> QED BY <2>3, <3>1, <4>1
      <3> QED BY <3>2, <3>3
    <2> QED BY <1>3, <2>4, <2>5, <2>6, <2>7 DEF DequeueStep
  <1> QED BY <1>1, <1>2, <1>3 DEF Drain

\* Dequeue takes the first packet of the queue into the thread's hands.
LEMMA DrainFlow ==
    ASSUME Inv, Types, Flow, Drain
    PROVE  Flow'
  <1>1. npc = "drain" /\ UNCHANGED <<sent, buffers, buffer, wire, closed, broken>>
    BY DrainEffect
  <1>2. CASE UNCHANGED queue /\ npc' \in {"drain", "flush"}
    BY <1>1, <1>2, QuietFlow
  <1>3. CASE queue # << >> /\ queue' = Tail(queue) /\ out' = {Head(queue)} /\ npc' = "pack"
    <2>1. sent \in Seq(Elements) /\ queue \in Seq(Elements) /\ buffer \in Seq(Elements)
      BY DEF Types, History, BufferTypes, Inv, QTypeOK
    <2>2. Len(queue) > 0 /\ Len(sent) \in Nat /\ Len(buffer) \in Nat
      BY <1>3, <2>1, SeqFacts
    <2>3. PICK x \in Elements : x = Head(queue)
      BY <1>3, <2>1, HeadTailProperties
    <2>4. PacketSize(x) \in Nat
      BY BytesLength
    <2>5. ASSUME ~closed, ~broken PROVE Laid'
      <3>1. PICK e, g \in Nat : Cut(e, g)
        BY <2>5 DEF Flow, Laid
      <3>2. g = e + Len(buffer)
        BY <1>1, <3>1 DEF Cut, InHand
      <3>3. At(sent, g, Bytes(x)) /\ Carries(sent, Tail(queue), g + PacketSize(x), Len(sent))
        BY <2>1, <2>2, <2>3, <3>1, CarriesTail DEF Cut
      <3>4. PICK d \in Nat : d = g + PacketSize(x)
        BY <2>4
      <3>5. InHand(e + Len(buffer), d)'
        <4>1. x \in out' /\ npc' = "pack"
          BY <1>3, <2>3
        <4>2. At(sent, e + Len(buffer), Bytes(x))'
          BY <1>1, <3>2, <3>3
        <4> QED BY <1>1, <3>2, <3>4, <4>1, <4>2 DEF InHand
      <3>6. Cut(e, d)'
        BY <1>1, <1>3, <3>1, <3>3, <3>4, <3>5 DEF Cut
      <3> QED BY <3>6 DEF Laid
    <2>6. At(sent, 0, wire)' /\ (npc \notin {"drain", "pack", "flush"} => buffer = << >>)'
      BY <1>1, <1>3 DEF Flow
    <2> QED BY <1>1, <2>5, <2>6 DEF Flow
  <1> QED BY <1>2, <1>3, DrainEffect

\* The packet is packed.
LEMMA PackFlow ==
    ASSUME Inv, Types, Flow, PackPacket
    PROVE  Flow'
  <1>1. npc = "pack" /\ npc' = "drain" /\ UNCHANGED <<sent, wire, queue, closed, broken>>
    BY DEF PackPacket, qvars
  <1>2. PICK x \in out : Pack(x)
    BY DEF PackPacket
  <1>3. out = {x} /\ x \in Elements
    BY <1>1, <1>2 DEF Inv, Accounted
  <1>4. /\ sent \in Seq(Elements) /\ buffers \in Seq(Seq(Elements)) /\ buffer \in Seq(Elements)
        /\ wire \in Seq(Elements)
    BY DEF Types, History, BufferTypes
  <1>5. PICK z \in Seq(Elements) : z = Bytes(x)
    BY <1>3, BytesLength
  <1>6. PICK l \in Nat : l = Len(buffer)
    BY <1>4, LenProperties
  <1>7. Len(z) \in Nat /\ PacketSize(x) = Len(z) /\ Len(wire) \in Nat
    BY <1>3, <1>4, <1>5, BytesLength, LenProperties
  <1>8. ASSUME ~closed, ~broken PROVE Laid'
    <2>1. PICK e, g \in Nat : Cut(e, g)
      BY <1>8 DEF Flow, Laid
    <2>2. At(sent, e + l, z) /\ g = e + l + Len(z)
      BY <1>1, <1>3, <1>5, <1>6, <1>7, <2>1 DEF Cut, InHand
    <2>3. /\ Covers(sent, buffers, Len(wire), e) /\ At(sent, e, buffer)
          /\ Carries(sent, queue, g, Len(sent))
      BY <2>1 DEF Cut
    <2>4. Covers(sent, Append(buffers, buffer), Len(wire), e + l)
      BY <1>4, <1>6, <1>7, <2>3, CoversAppend
    <2>5. ASSUME NEW d \in Nat, Covers(sent, buffers', Len(wire), d), At(sent, d, buffer'),
                 g = d + Len(buffer')
          PROVE  Laid'
      <3>1. InHand(d + Len(buffer), g)'
        BY <1>1, <2>5 DEF InHand
      <3>2. Cut(d, g)'
        BY <1>1, <2>3, <2>5, <3>1 DEF Cut
      <3> QED BY <3>2 DEF Laid
    <2>6. CASE Fits(x, buffer)
      <3>1. buffer' = buffer \o z /\ buffers' = buffers
        BY <1>2, <1>5, <2>6 DEF Pack
      <3>2. At(sent, e, buffer \o z)
        BY <1>4, <1>6, <2>2, <2>3, AtJoin
      <3>3. Len(buffer \o z) = l + Len(z)
        BY <1>4, <1>6, ConcatProperties
      <3>4. g = e + Len(buffer')
        BY <1>7, <2>2, <3>1, <3>3
      <3> QED BY <2>3, <2>5, <3>1, <3>2, <3>4
    <2>7. CASE ~Fits(x, buffer) /\ Fits(x, << >>)
      <3>1. buffer' = z /\ buffers' = Append(buffers, buffer)
        BY <1>2, <1>5, <2>7 DEF Pack
      <3>2. PICK d \in Nat : d = e + l
        OBVIOUS
      <3> QED BY <2>2, <2>4, <2>5, <3>1, <3>2
    <2>8. CASE ~Fits(x, buffer) /\ ~Fits(x, << >>)
      <3>1. buffer' = << >> /\ buffers' = Append(Append(buffers, buffer), z)
        BY <1>2, <1>5, <2>8 DEF Pack
      <3>2. Append(buffers, buffer) \in Seq(Seq(Elements))
        BY <1>4, AppendFacts
      <3>3. PICK b \in Seq(Seq(Elements)) : b = Append(buffers, buffer)
        BY <3>2
      <3>4. PICK d \in Nat : d = e + l
        OBVIOUS
      <3>5. Covers(sent, Append(b, z), Len(wire), d + Len(z))
        BY <1>4, <1>7, <2>2, <2>4, <3>3, <3>4, CoversAppend
      <3>6. Covers(sent, buffers', Len(wire), g)
        BY <2>2, <3>1, <3>3, <3>4, <3>5
      <3>7. At(sent, g, buffer')
        <4>1. g <= Len(sent) /\ Len(sent) \in Nat
          BY <1>4, <1>7, <2>2, LenProperties DEF At
        <4>2. Len(buffer') = 0
          BY <3>1
        <4> QED BY <4>1, <4>2 DEF At
      <3>8. g = g + Len(buffer')
        BY <3>1
      <3> QED BY <2>5, <3>6, <3>7, <3>8
    <2> QED BY <2>6, <2>7, <2>8
  <1> QED BY <1>1, <1>8 DEF Flow

\* The last buffer is queued.
LEMMA FlushFlow ==
    ASSUME Inv, Types, Flow, FlushBuffer
    PROVE  Flow'
  <1>1. /\ npc = "flush" /\ npc' \in {"gone", "idle", "write"} /\ buffers' = Flushed
        /\ buffer' = << >> /\ UNCHANGED <<sent, wire, queue, closed, broken>>
    BY DEF FlushBuffer, qvars
  <1>2. /\ sent \in Seq(Elements) /\ buffers \in Seq(Seq(Elements)) /\ buffer \in Seq(Elements)
        /\ wire \in Seq(Elements)
    BY DEF Types, History, BufferTypes
  <1>3. PICK l \in Nat : l = Len(buffer)
    BY <1>2, LenProperties
  <1>4. Len(wire) \in Nat /\ Len(sent) \in Nat
    BY <1>2, LenProperties
  <1>5. ASSUME ~closed, ~broken PROVE Laid'
    <2>1. PICK e, g \in Nat : Cut(e, g)
      BY <1>5 DEF Flow, Laid
    <2>2. /\ Covers(sent, buffers, Len(wire), e) /\ At(sent, e, buffer)
          /\ Carries(sent, queue, g, Len(sent)) /\ g = e + l
      BY <1>1, <1>3, <2>1 DEF Cut, InHand
    <2>3. Covers(sent, buffers', Len(wire), g)
      <3>1. CASE buffer = << >>
        <4>1. l = 0 /\ buffers' = buffers
          BY <1>1, <1>3, <3>1 DEF Flushed
        <4>2. g = e
          BY <2>2, <4>1
        <4> QED BY <2>2, <4>1, <4>2
      <3>2. CASE buffer # << >>
        <4>1. buffers' = Append(buffers, buffer)
          BY <1>1, <3>2 DEF Flushed
        <4> QED BY <1>2, <1>3, <1>4, <2>2, <4>1, CoversAppend
      <3> QED BY <3>1, <3>2
    <2>4. Len(buffer') = 0 /\ g + Len(buffer') = g
      BY <1>1
    <2>5. At(sent, g, buffer')
      <3>1. g <= Len(sent)
        BY <1>3, <1>4, <2>2 DEF At
      <3> QED BY <1>4, <2>4, <3>1 DEF At
    <2>6. InHand(g + Len(buffer), g)'
      BY <1>1, <2>4 DEF InHand
    <2>7. Cut(g, g)'
      BY <1>1, <2>2, <2>3, <2>5, <2>6 DEF Cut
    <2> QED BY <2>7 DEF Laid
  <1> QED BY <1>1, <1>5 DEF Flow

\* HandleQueue moves the front of the first buffer to the wire.
LEMMA HandleFlow ==
    ASSUME Types, Flow, NEW least \in Nat, HandleStep(least),
           UNCHANGED <<sent, buffer, queue, broken>>, npc # "pack",
           npc' = npc \/ (npc' # "pack" /\ buffer = << >>)
    PROVE  Flow'
  <1>1. /\ sent \in Seq(Elements) /\ buffers \in Seq(Seq(Elements)) /\ buffer \in Seq(Elements)
        /\ wire \in Seq(Elements)
    BY DEF Types, History, BufferTypes
  <1>2. Len(wire) \in Nat
    BY <1>1, LenProperties
  <1>3. (npc \notin {"drain", "pack", "flush"} => buffer = << >>)'
    BY DEF Flow
  <1>4. closed => closed'
    BY DEF HandleStep, HandleEmpty, HandleDropped, HandlePart, HandleAll, Pop
  <1>5. ASSUME UNCHANGED wire,
               ~closed /\ ~broken => \A e \in Nat : Covers(sent, buffers, Len(wire), e)
                                                    => Covers(sent, buffers', Len(wire), e)
        PROVE  Flow'
    <2>1. ASSUME ~closed', ~broken' PROVE Laid'
      <3>1. ~closed /\ ~broken
        BY <1>4, <2>1
      <3>2. PICK e, g \in Nat : Cut(e, g)
        BY <3>1 DEF Flow, Laid
      <3>3. InHand(e + Len(buffer), g)'
        BY <3>2 DEF Cut, InHand
      <3>4. Cut(e, g)'
        BY <1>5, <3>1, <3>2, <3>3 DEF Cut
      <3> QED BY <3>4 DEF Laid
    <2>2. At(sent, 0, wire)'
      BY <1>5 DEF Flow
    <2> QED BY <1>3, <2>1, <2>2 DEF Flow
  <1>6. ASSUME NEW c \in Seq(Elements), ~closed, ~broken, wire' = wire \o c,
               \A e \in Nat : Covers(sent, buffers, Len(wire), e) =>
                   At(sent, Len(wire), c) /\ Covers(sent, buffers', Len(wire) + Len(c), e)
        PROVE  Flow'
    <2>1. PICK e, g \in Nat : Cut(e, g)
      BY <1>6 DEF Flow, Laid
    <2>2. At(sent, Len(wire), c) /\ Covers(sent, buffers', Len(wire) + Len(c), e)
      BY <1>6, <2>1 DEF Cut
    <2>3. Len(wire') = Len(wire) + Len(c)
      BY <1>1, <1>6, ConcatProperties
    <2>4. At(sent, 0, wire')
      <3>1. At(sent, 0 + Len(wire), c)
        BY <1>2, <2>2
      <3> QED BY <1>1, <1>6, <3>1, AtJoin DEF Flow
    <2>5. InHand(e + Len(buffer), g)'
      BY <2>1 DEF Cut, InHand
    <2>6. Cut(e, g)'
      BY <2>1, <2>2, <2>3, <2>5 DEF Cut
    <2>7. Laid'
      BY <2>6 DEF Laid
    <2> QED BY <1>3, <2>4, <2>7 DEF Flow
  <1>7. CASE HandleEmpty
    BY <1>5, <1>7 DEF HandleEmpty
  <1>8. ASSUME buffers # << >>
        PROVE  /\ Len(buffers) > 0 /\ Head(buffers) \in Seq(Elements)
               /\ Tail(buffers) \in Seq(Seq(Elements))
    BY <1>1, <1>8, HeadTailProperties, SeqFacts
  <1>9. CASE HandleDropped
    <2>1. /\ buffers # << >> /\ buffers' = Tail(buffers) /\ UNCHANGED wire
          /\ ~closed /\ ~broken => Head(buffers) = << >>
      BY <1>9 DEF HandleDropped, Pop
    <2>2. ASSUME ~closed, ~broken, NEW e \in Nat, Covers(sent, buffers, Len(wire), e)
          PROVE  Covers(sent, buffers', Len(wire), e)
      <3>1. Covers(sent, Tail(buffers), Len(wire) + Len(Head(buffers)), e)
        BY <1>1, <1>2, <1>8, <2>1, <2>2, CoversTail
      <3>2. Len(wire) + Len(Head(buffers)) = Len(wire)
        BY <1>2, <2>1, <2>2
      <3> QED BY <2>1, <3>1, <3>2
    <2> QED BY <1>5, <2>1, <2>2
  <1>10. CASE HandlePart(least)
    <2>1. buffers # << >> /\ ~closed /\ ~broken
      BY <1>10 DEF HandlePart
    <2>2. PICK n \in least..(Len(Head(buffers)) - 1) :
            /\ wire' = wire \o SubSeq(Head(buffers), 1, n)
            /\ buffers' = Rest(n)
      BY <1>10 DEF HandlePart
    <2>3. PICK h \in Seq(Elements) : h = Head(buffers)
      BY <1>8, <2>1
    <2>4. n \in Nat /\ Len(h) \in Nat /\ n <= Len(h)
      <3>1. Len(h) \in Nat
        BY LenProperties
      <3> QED BY <2>2, <2>3, <3>1
    <2>5. SubSeq(h, 1, n) \in Seq(Elements) /\ SubSeq(h, n + 1, Len(h)) \in Seq(Elements)
      BY <2>4, PartFacts
    <2>6. PICK c \in Seq(Elements) : c = SubSeq(h, 1, n)
      BY <2>5
    <2>7. PICK d \in Seq(Elements) : d = SubSeq(h, n + 1, Len(h))
      BY <2>5
    <2>8. PICK r \in Seq(Seq(Elements)) : r = Tail(buffers)
      BY <1>8, <2>1
    <2>9. buffers' = <<d>> \o r
      BY <2>2, <2>3, <2>7, <2>8 DEF Rest
    <2>10. ASSUME NEW e \in Nat, Covers(sent, buffers, Len(wire), e)
           PROVE  At(sent, Len(wire), c) /\ Covers(sent, buffers', Len(wire) + Len(c), e)
      <3>1. At(sent, Len(wire), h) /\ Covers(sent, r, Len(wire) + Len(h), e)
        BY <1>1, <1>2, <1>8, <2>1, <2>3, <2>8, <2>10, CoversTail
      <3>2. /\ At(sent, Len(wire), c) /\ Len(c) = n
            /\ At(sent, Len(wire) + n, d) /\ Len(d) = Len(h) - n
        BY <1>1, <1>2, <2>4, <2>6, <2>7, <3>1, AtCut
      <3>3. PICK i \in Nat : i = Len(wire) + n
        BY <1>2, <2>4
      <3>4. i + Len(d) = Len(wire) + Len(h)
        BY <1>2, <2>4, <3>2, <3>3
      <3>5. Covers(sent, <<d>> \o r, i, e)
        BY <1>1, <3>1, <3>2, <3>3, <3>4, CoversFirst
      <3> QED BY <2>9, <3>2, <3>3, <3>5
    <2> QED BY <1>6, <2>1, <2>2, <2>3, <2>6, <2>10
  <1>11. CASE HandleAll
    <2>1. /\ buffers # << >> /\ ~closed /\ ~broken /\ wire' = wire \o Head(buffers)
          /\ buffers' = Tail(buffers)
      BY <1>11 DEF HandleAll, Pop
    <2>2. PICK h \in Seq(Elements) : h = Head(buffers)
      BY <1>8, <2>1
    <2>3. ASSUME NEW e \in Nat, Covers(sent, buffers, Len(wire), e)
          PROVE  At(sent, Len(wire), h) /\ Covers(sent, buffers', Len(wire) + Len(h), e)
      BY <1>1, <1>2, <1>8, <2>1, <2>2, <2>3, CoversTail
    <2> QED BY <1>6, <2>1, <2>2, <2>3
  <1> QED BY <1>7, <1>9, <1>10, <1>11 DEF HandleStep

\* Every step keeps the stream in order.
LEMMA FlowStep ==
    ASSUME Inv, Types, Flow, [Next]_vars
    PROVE  Flow'
  <1>1. ASSUME NEW t \in Threads, NEW x \in Elements, NEW then, SendPacket(t, x, then)
        PROVE  Flow'
    <2>1. UNCHANGED <<sent, buffers, buffer, wire, queue, closed, broken, npc, out>>
      BY <1>1 DEF SendPacket, CallEnqueue
    <2> QED BY <2>1, QuietFlow
  <1>2. ASSUME NEW t \in Threads, Enqueueing(t) PROVE Flow'
    BY <1>2, EnqueueingFlow
  <1>3. ASSUME NEW t \in Threads,
               DelayedCloseSocket(t) \/ TestWriteQueue(t) \/ CloseSocket(t)
        PROVE  Flow'
    <2>1. UNCHANGED <<sent, buffers, buffer, wire, queue, broken, npc, out>>
      BY <1>3 DEF DelayedCloseSocket, TestWriteQueue, CloseSocket, qvars
    <2>2. closed => closed'
      BY <1>3, Zenon DEF DelayedCloseSocket, TestWriteQueue, CloseSocket
    <2> QED BY <2>1, <2>2, QuietFlow
  <1>4. ASSUME BeginUpdate PROVE Flow'
    <2>1. /\ npc = "idle" /\ npc' = "drain" /\ buffer' = << >>
          /\ UNCHANGED <<sent, buffers, wire, queue, closed, broken, out>>
      BY <1>4 DEF BeginUpdate, qvars
    <2>2. UNCHANGED buffer
      BY <2>1 DEF Flow
    <2> QED BY <2>1, <2>2, QuietFlow
  <1>5. ASSUME Drain PROVE Flow'
    BY <1>5, DrainFlow
  <1>6. ASSUME PackPacket PROVE Flow'
    BY <1>6, PackFlow
  <1>7. ASSUME FlushBuffer PROVE Flow'
    BY <1>7, FlushFlow
  <1>8. ASSUME WriteQueue PROVE Flow'
    <2>1. HandleStep(0)
      BY <1>8 DEF WriteQueue, HandleStep
    <2>2. /\ npc = "write" /\ npc' \in {"idle", "write"}
          /\ UNCHANGED <<sent, buffer, queue, broken>>
      BY <1>8 DEF WriteQueue, qvars
    <2>3. buffer = << >>
      BY <2>2 DEF Flow
    <2> QED BY <2>1, <2>2, <2>3, HandleFlow
  <1>9. ASSUME WriteHandlerWrapper PROVE Flow'
    <2>1. HandleStep(1)
      BY <1>9 DEF WriteHandlerWrapper, HandleStep
    <2>2. npc \in {"idle", "gone"} /\ UNCHANGED <<sent, buffer, queue, broken, npc>>
      BY <1>9 DEF WriteHandlerWrapper, Free, qvars
    <2> QED BY <2>1, <2>2, HandleFlow
  <1>10. ASSUME Break PROVE Flow'
    <2>1. UNCHANGED <<sent, buffers, buffer, wire, queue, closed, npc, out>> /\ broken'
      BY <1>10 DEF Break, qvars
    <2> QED BY <2>1, QuietFlow
  <1>11. ASSUME UNCHANGED vars PROVE Flow'
    <2>1. UNCHANGED <<sent, buffers, buffer, wire, queue, closed, broken, npc, out>>
      BY <1>11 DEF vars, qvars, svars
    <2> QED BY <2>1, QuietFlow
  <1> QED BY <1>1, <1>2, <1>3, <1>4, <1>5, <1>6, <1>7, <1>8, <1>9, <1>10, <1>11
          DEF Next, Sending, Update

\* At first nothing is sent.
LEMMA InitFlow == Init => Flow
  <1> SUFFICES ASSUME Init PROVE Flow
    OBVIOUS
  <1>1. /\ sent = << >> /\ buffers = << >> /\ buffer = << >> /\ wire = << >> /\ queue = << >>
        /\ npc = "idle"
    BY DEF Init, QInit
  <1>2. At(sent, 0, wire) /\ At(sent, 0, buffer)
    BY <1>1 DEF At
  <1>3. PICK s : s = << >>
    OBVIOUS
  <1>4. s \in Seq(Seq(Elements)) /\ Len(s) = 0
    BY <1>3
  <1>5. Covers(sent, s, 0, 0)
    <2>1. PICK f : f = [k \in 1..1 |-> 0]
      OBVIOUS
    <2>2. f \in [1..1 -> Nat] /\ f[1] = 0
      BY <2>1
    <2>3. Offsets(f, sent, s, 0, 0)
      <3>1. Len(s) + 1 = 1
        BY <1>4
      <3> QED BY <1>4, <2>2, <3>1 DEF Offsets
    <2> QED BY <2>3 DEF Covers
  <1>6. Carries(sent, queue, 0, Len(sent))
    <2>1. Len(sent) = 0 /\ Len(queue) = 0
      BY <1>1
    <2>2. Len(s) = Len(queue) /\ \A k \in 1..Len(queue) : s[k] = Bytes(queue[k])
      BY <1>4, <2>1
    <2>3. Covers(sent, s, 0, Len(sent))
      BY <1>5, <2>1
    <2> QED BY <1>4, <2>2, <2>3 DEF Carries
  <1>7. Len(wire) = 0 /\ Len(buffer) = 0 /\ buffers = s
    BY <1>1, <1>3
  <1>8. InHand(0 + Len(buffer), 0)
    BY <1>1, <1>7 DEF InHand
  <1>9. Cut(0, 0)
    BY <1>2, <1>5, <1>6, <1>7, <1>8 DEF Cut
  <1>10. Laid
    BY <1>9 DEF Laid
  <1> QED BY <1>1, <1>2, <1>10 DEF Flow

-----------------------------------------------------------------------------
(* The theorems. *)

\* MPSCQueueIntrusive is a first-in first-out queue whatever the interleaving of its atomic
\* operations: Enqueue takes effect at its exchange; Dequeue returns the oldest element, or
\* nothing when the queue was empty or an Enqueue was under way during the call.
THEOREM BufferQueueImplementsFifo == Spec => BufferQueueIsFifo
  <1>1. Init => Contract!Init
    BY InitMaps
  <1>2. Inv /\ [Next]_vars => [Contract!Next]_Contract!vars
    BY NextMaps
  <1> QED BY <1>1, <1>2, Invariance, PTL DEF Spec, BufferQueueIsFifo, Contract!Spec

\* A packet that SendPacket allocated is in the queue, on its way into it or with the network
\* thread until it is freed, and nothing that was freed is in any of these places.
THEOREM NoPacketLeaks == Spec => []PacketsAccounted
  <1>1. ASSUME Inv PROVE PacketsAccounted
    <2>1. queue \in Seq(Elements)
      BY <1>1 DEF Inv, QTypeOK
    <2>2. ASSUME NEW x PROVE x \in Range(queue) <=> Has(queue, x)
      BY <2>1, SeqFacts DEF Range, Has
    <2>3. ASSUME NEW x
          PROVE  x \in {enq[t].input : t \in {u \in Threads : Adding(u)}} <=> Enqueued(x)
      BY DEF Enqueued
    <2>4. \A x : x \in live <=> Has(queue, x) \/ Enqueued(x) \/ (npc = "pack" /\ x \in out)
      BY <1>1 DEF Inv, Accounted
    <2>5. ASSUME NEW x
          PROVE  x \in live <=>
                   x \in Range(queue) \cup {enq[t].input : t \in {u \in Threads : Adding(u)}}
                                      \cup (IF npc = "pack" THEN out ELSE {})
      BY <2>2, <2>3, <2>4
    <2> QED BY <2>5 DEF PacketsAccounted
  <1>2. Inv => PacketsAccounted
    BY <1>1
  <1> QED BY <1>2, Invariance, PTL

\* Whatever write_some takes, the bytes on the wire are the bytes of the packets in the order
\* in which they entered _bufferQueue, with none left out, repeated or overtaken, for any number
\* of threads, packets and sizes of the buffer.
THEOREM WireIsInOrder == Spec => []WireInOrder
  <1>1. Inv /\ Types /\ Flow /\ [Next]_vars => Flow'
    BY FlowStep
  <1>2. ASSUME Types, Flow PROVE WireInOrder
    <2>1. sent \in Seq(Elements) /\ wire \in Seq(Elements)
      BY <1>2 DEF Types, History
    <2>2. PICK l \in Nat : l = Len(wire)
      BY <2>1, LenProperties
    <2>3. Len(sent) \in Nat /\ l <= Len(sent) /\ \A k \in 1..l : sent[k] = wire[k]
      BY <1>2, <2>1, <2>2, LenProperties DEF Flow, At
    <2>4. (\A k \in 1..l : sent[k] \in Elements) /\ \A k \in 1..l : wire[k] \in Elements
      BY <2>1, <2>2, <2>3, SeqFacts
    <2>5. /\ SubSeq(sent, 1, l) \in Seq(Elements) /\ SubSeq(wire, 1, l) \in Seq(Elements)
          /\ Len(SubSeq(sent, 1, l)) = l /\ Len(SubSeq(wire, 1, l)) = l
          /\ \A k \in 1..l : SubSeq(sent, 1, l)[k] = sent[k] /\ SubSeq(wire, 1, l)[k] = wire[k]
      <3>1. /\ SubSeq(sent, 1, l) \in Seq(Elements)
            /\ Len(SubSeq(sent, 1, l)) = IF 1 <= l THEN l - 1 + 1 ELSE 0
            /\ \A k \in 1..(l - 1 + 1) : SubSeq(sent, 1, l)[k] = sent[1 + k - 1]
        BY <2>4, SubSeqProperties
      <3>2. /\ SubSeq(wire, 1, l) \in Seq(Elements)
            /\ Len(SubSeq(wire, 1, l)) = IF 1 <= l THEN l - 1 + 1 ELSE 0
            /\ \A k \in 1..(l - 1 + 1) : SubSeq(wire, 1, l)[k] = wire[1 + k - 1]
        BY <2>4, SubSeqProperties
      <3> QED BY <3>1, <3>2
    <2>6. SubSeq(wire, 1, l) = SubSeq(sent, 1, l)
      <3>1. \A k \in 1..l : SubSeq(wire, 1, l)[k] = SubSeq(sent, 1, l)[k]
        BY <2>3, <2>5
      <3> QED BY <2>5, <3>1, SeqEqual
    <2> QED BY <2>2, <2>3, <2>6 DEF WireInOrder, IsPrefix
  <1>3. Types /\ Flow => WireInOrder
    BY <1>2
  <1> QED BY <1>1, <1>3, InitFlow, Invariance, TypesHold, PTL DEF Spec

\* Every variable of the queue and of the socket has a value of its type, for any number of
\* threads and packets.
THEOREM TypeCorrect == Spec => []TypeOK
  <1>1. Inv /\ Types => TypeOK
    BY TypeParts DEF Inv, Types
  <1> QED BY <1>1, Invariance, TypesHold, PTL

====
