------------------------- MODULE SessionUpdate_proofs -------------------------
(***************************************************************************)
(* What SessionUpdate promises for any number of packets and any limit: the *)
(* type invariant, that no packet is lost or handled twice, and the order   *)
(* in which STATUS_LOGGEDIN packets are handled.                            *)
(***************************************************************************)
EXTENDS SessionUpdate, SequenceTheorems, TLAPS

\* The numbers of a sequence of packets increase.
Increasing(packets) ==
    \A i, j \in DOMAIN packets : i < j => packets[i].n < packets[j].n

\* Putting aside keeps the order: what Update has put aside was sent before what
\* is still in the queue, and each of the two is in order.
Ordered ==
    /\ Increasing(requeue) /\ Increasing(recv)
    /\ \A i \in DOMAIN requeue, j \in DOMAIN recv : requeue[i].n < recv[j].n

\* Packets are put aside only while there is no player, and no handler of the
\* same Update brings one.
Aside == requeue # <<>> => ~HasPlayer

\* A STATUS_LOGGEDIN packet is handled only when nothing sent before it waits.
Behind ==
    \A i \in DOMAIN handled :
        handled[i].opcode \in LoggedIn => \A w \in Waiting : handled[i].n < w

\* Every packet is in one place.
Places ==
    /\ Waiting \cap Numbers(handled) = {}
    /\ Waiting \cap dropped = {}
    /\ Numbers(handled) \cap dropped = {}
    /\ Waiting \cup Numbers(handled) \cup dropped = 1..sent
    /\ Once(handled)

Inv == TypeOK /\ Ordered /\ Aside /\ Behind /\ Places /\ LoggedInInOrder

-----------------------------------------------------------------------------
(* The operations on the queues. *)

\* next() takes the first packet, and no packet twice.
LEMMA NumbersTail ==
    ASSUME NEW S, NEW s \in Seq(S), s # <<>>, Increasing(s), \A p \in S : p.n \in Int
    PROVE  /\ Tail(s) \in Seq(S) /\ Head(s) \in S /\ Increasing(Tail(s))
           /\ Numbers(s) = {Head(s).n} \cup Numbers(Tail(s))
           /\ \A w \in Numbers(Tail(s)) : Head(s).n < w
  <1>1. /\ Tail(s) \in Seq(S) /\ Head(s) \in S /\ Len(s) \in Nat \ {0} /\ DOMAIN s = 1..Len(s)
        /\ DOMAIN Tail(s) = 1..(Len(s) - 1) /\ Head(s) = s[1]
        /\ \A i \in 1..(Len(s) - 1) : Tail(s)[i] = s[i + 1]
    BY HeadTailProperties, EmptySeq
  <1>2. Increasing(Tail(s))
    BY <1>1 DEF Increasing
  <1>3. \A w \in Numbers(Tail(s)) : Head(s).n < w
    BY <1>1 DEF Increasing, Numbers
  <1>4. ASSUME NEW w \in Numbers(s) PROVE w \in {Head(s).n} \cup Numbers(Tail(s))
    <2>1. PICK i \in 1..Len(s) : w = s[i].n
      BY <1>1 DEF Numbers
    <2>2. CASE i = 1
      BY <1>1, <2>1, <2>2
    <2>3. CASE i # 1
      <3>1. i - 1 \in 1..(Len(s) - 1) /\ Tail(s)[i - 1] = s[i]
        BY <1>1, <2>3
      <3> QED BY <1>1, <2>1, <3>1 DEF Numbers
    <2> QED BY <2>2, <2>3
  <1>5. {Head(s).n} \cup Numbers(Tail(s)) \subseteq Numbers(s)
    BY <1>1 DEF Numbers
  <1> QED BY <1>1, <1>2, <1>3, <1>4, <1>5

\* add() and push_back put a packet at the end.
LEMMA NumbersAppend ==
    ASSUME NEW S, NEW s \in Seq(S), NEW p \in S
    PROVE  /\ Append(s, p) \in Seq(S)
           /\ Numbers(Append(s, p)) = Numbers(s) \cup {p.n}
           /\ (\A w \in Numbers(s) : w < p.n) /\ Increasing(s) => Increasing(Append(s, p))
           /\ p.n \notin Numbers(s) /\ Once(s) => Once(Append(s, p))
  <1>1. /\ Append(s, p) \in Seq(S) /\ Len(s) \in Nat /\ DOMAIN s = 1..Len(s)
        /\ DOMAIN Append(s, p) = 1..(Len(s) + 1)
        /\ \A i \in 1..Len(s) : Append(s, p)[i] = s[i]
        /\ Append(s, p)[Len(s) + 1] = p
    BY AppendProperties
  <1> HIDE DEF Append
  <1>2. Numbers(Append(s, p)) = Numbers(s) \cup {p.n}
    BY <1>1 DEF Numbers
  <1>3. (\A w \in Numbers(s) : w < p.n) /\ Increasing(s) => Increasing(Append(s, p))
    BY <1>1 DEF Numbers, Increasing
  <1>4. p.n \notin Numbers(s) /\ Once(s) => Once(Append(s, p))
    BY <1>1 DEF Numbers, Once
  <1> QED BY <1>1, <1>2, <1>3, <1>4

\* readd() puts what was taken out in front of what has arrived since.
LEMMA NumbersConcat ==
    ASSUME NEW S, NEW s \in Seq(S), NEW t \in Seq(S)
    PROVE  /\ s \o t \in Seq(S)
           /\ Numbers(s \o t) = Numbers(s) \cup Numbers(t)
           /\ /\ Increasing(s) /\ Increasing(t)
              /\ \A i \in DOMAIN s, j \in DOMAIN t : s[i].n < t[j].n
              => Increasing(s \o t)
  <1>1. /\ s \o t \in Seq(S) /\ Len(s) \in Nat /\ Len(t) \in Nat
        /\ DOMAIN s = 1..Len(s) /\ DOMAIN t = 1..Len(t)
        /\ DOMAIN (s \o t) = 1..(Len(s) + Len(t))
        /\ \A i \in 1..(Len(s) + Len(t)) :
              (s \o t)[i] = IF i <= Len(s) THEN s[i] ELSE t[i - Len(s)]
    BY ConcatProperties
  <1> DEFINE u == s \o t
  <1> HIDE DEF u
  <1>2. /\ DOMAIN u = 1..(Len(s) + Len(t))
        /\ \A i \in 1..Len(s) : i \in 1..(Len(s) + Len(t)) /\ u[i] = s[i]
        /\ \A j \in 1..Len(t) : Len(s) + j \in 1..(Len(s) + Len(t)) /\ u[Len(s) + j] = t[j]
        /\ \A k \in 1..(Len(s) + Len(t)) :
              k \in 1..Len(s) \/ \E j \in 1..Len(t) : k = Len(s) + j
    <2>1. /\ DOMAIN u = 1..(Len(s) + Len(t))
          /\ \A i \in 1..Len(s) : i \in 1..(Len(s) + Len(t)) /\ u[i] = s[i]
          /\ \A j \in 1..Len(t) : Len(s) + j \in 1..(Len(s) + Len(t)) /\ u[Len(s) + j] = t[j]
      BY <1>1 DEF u
    <2>2. ASSUME NEW k \in 1..(Len(s) + Len(t)), k \notin 1..Len(s)
          PROVE  \E j \in 1..Len(t) : k = Len(s) + j
      <3>1. k - Len(s) \in 1..Len(t) /\ k = Len(s) + (k - Len(s))
        BY <1>1, <2>2
      <3> QED BY <3>1
    <2> QED BY <2>1, <2>2
  <1>3. Numbers(u) = Numbers(s) \cup Numbers(t)
    <2>1. ASSUME NEW w \in Numbers(u) PROVE w \in Numbers(s) \cup Numbers(t)
      <3>1. PICK k \in DOMAIN u : w = u[k].n
        BY DEF Numbers
      <3>2. CASE k \in 1..Len(s)
        <4>1. k \in DOMAIN s /\ w = s[k].n
          BY <1>1, <1>2, <3>1, <3>2
        <4> QED BY <4>1 DEF Numbers
      <3>3. CASE \E j \in 1..Len(t) : k = Len(s) + j
        <4>1. PICK j \in 1..Len(t) : k = Len(s) + j
          BY <3>3
        <4>2. j \in DOMAIN t /\ w = t[j].n
          BY <1>1, <1>2, <3>1, <4>1
        <4> QED BY <4>2 DEF Numbers
      <3> QED BY <1>2, <3>1, <3>2, <3>3
    <2>2. ASSUME NEW w \in Numbers(s) PROVE w \in Numbers(u)
      <3>1. \E k \in DOMAIN u : w = u[k].n
        BY <1>1, <1>2 DEF Numbers
      <3> QED BY <3>1 DEF Numbers
    <2>3. ASSUME NEW w \in Numbers(t) PROVE w \in Numbers(u)
      <3>1. PICK j \in 1..Len(t) : w = t[j].n
        BY <1>1 DEF Numbers
      <3>2. Len(s) + j \in DOMAIN u /\ w = u[Len(s) + j].n
        BY <1>2, <3>1
      <3> QED BY <3>2 DEF Numbers
    <2> QED BY <2>1, <2>2, <2>3
  <1>4. ASSUME Increasing(s), Increasing(t),
               \A i \in DOMAIN s, j \in DOMAIN t : s[i].n < t[j].n
        PROVE  Increasing(u)
    <2> SUFFICES ASSUME NEW i \in DOMAIN u, NEW j \in DOMAIN u, i < j
                 PROVE  u[i].n < u[j].n
      BY DEF Increasing
    <2>1. CASE i \in 1..Len(s) /\ j \in 1..Len(s)
      BY <1>1, <1>2, <1>4, <2>1 DEF Increasing
    <2>2. CASE i \in 1..Len(s) /\ j \notin 1..Len(s)
      <3>1. PICK y \in 1..Len(t) : j = Len(s) + y
        BY <1>2, <2>2
      <3>2. u[i] = s[i] /\ u[j] = t[y]
        BY <1>2, <2>2, <3>1
      <3>3. s[i].n < t[y].n
        BY <1>1, <1>4, <2>2
      <3> QED BY <3>2, <3>3
    <2>3. CASE i \notin 1..Len(s)
      <3>1. PICK x \in 1..Len(t) : i = Len(s) + x
        BY <1>2, <2>3
      <3>2. i \in Int /\ j \in Int /\ j \notin 1..Len(s)
        BY <1>1, <1>2, <2>3
      <3>3. PICK y \in 1..Len(t) : j = Len(s) + y
        BY <1>2, <3>2
      <3>4. u[i] = t[x] /\ u[j] = t[y] /\ x < y
        BY <1>1, <1>2, <3>1, <3>3
      <3>5. t[x].n < t[y].n
        BY <1>1, <1>4, <3>4 DEF Increasing
      <3> QED BY <3>4, <3>5
    <2> QED BY <2>1, <2>2, <2>3
  <1> QED BY <1>1, <1>3, <1>4 DEF u

-----------------------------------------------------------------------------
(* The steps of Update. *)

\* The relation between two sequences that Ordered states, on their numbers.
LEMMA OrderedNumbers ==
    ASSUME NEW s, NEW t
    PROVE  (\A i \in DOMAIN s, j \in DOMAIN t : s[i].n < t[j].n)
           <=> (\A v \in Numbers(s), w \in Numbers(t) : v < w)
  BY DEF Numbers

\* What every step that takes a packet does to the queue: the packet it takes was
\* sent after all that are put aside, and before all that are left.
LEMMA TakeEffect ==
    ASSUME Inv, NEW cost \in {1, Limit + 1}, Take(cost)
    PROVE  /\ Packet \in Packets /\ recv' \in Seq(Packets) /\ Increasing(recv')
           /\ Numbers(recv) = {Packet.n} \cup Numbers(recv')
           /\ \A w \in Numbers(recv') : Packet.n < w
           /\ \A v \in Numbers(requeue) : v < Packet.n
           /\ \A v \in Numbers(requeue), w \in Numbers(recv') : v < w
           /\ LoopTypes' /\ UNCHANGED <<sent, pc>> /\ pc \in {"world", "map"}
  <1>1. /\ recv \in Seq(Packets) /\ recv # <<>> /\ recv' = Tail(recv) /\ Increasing(recv)
        /\ \A p \in Packets : p.n \in Int
    BY DEF Inv, TypeOK, QueueTypes, Packets, Take, Ready, Ordered
  <1>2. /\ recv' \in Seq(Packets) /\ Packet \in Packets /\ Increasing(recv')
        /\ Numbers(recv) = {Packet.n} \cup Numbers(recv')
        /\ \A w \in Numbers(recv') : Packet.n < w
    BY <1>1, NumbersTail DEF Packet
  <1>3. \A v \in Numbers(requeue), w \in Numbers(recv) : v < w
    BY OrderedNumbers DEF Inv, Ordered
  <1>4. LoopTypes' /\ UNCHANGED <<sent, pc>> /\ pc \in {"world", "map"}
    BY PacketBoundsAssumption DEF Inv, TypeOK, LoopTypes, Take, Ready, WithinLimit
  <1> QED BY <1>2, <1>3, <1>4

\* Update puts a packet that came too early back for the next round.
LEMMA RequeuePacketStep ==
    ASSUME Inv, RequeuePacket
    PROVE  Inv'
  <1>1. /\ Take(1) /\ Requeues /\ requeue' = Append(requeue, Packet)
        /\ UNCHANGED <<session, handled, dropped>>
    BY DEF RequeuePacket
  <1>2. /\ Packet \in Packets /\ recv' \in Seq(Packets) /\ Increasing(recv')
        /\ Numbers(recv) = {Packet.n} \cup Numbers(recv')
        /\ \A w \in Numbers(recv') : Packet.n < w
        /\ \A v \in Numbers(requeue) : v < Packet.n
        /\ \A v \in Numbers(requeue), w \in Numbers(recv') : v < w
        /\ LoopTypes' /\ UNCHANGED <<sent, pc>>
    BY <1>1, TakeEffect
  <1>3. Packet \in Early
    BY <1>1, <1>2 DEF Packets, Early, Requeues
  <1>4. /\ requeue' \in Seq(Early)
        /\ Numbers(requeue') = Numbers(requeue) \cup {Packet.n}
        /\ Increasing(requeue')
    <2>1. requeue \in Seq(Early) /\ Increasing(requeue)
      BY DEF Inv, TypeOK, QueueTypes, Ordered
    <2>2. /\ Append(requeue, Packet) \in Seq(Early)
          /\ Numbers(Append(requeue, Packet)) = Numbers(requeue) \cup {Packet.n}
          /\ (\A w \in Numbers(requeue) : w < Packet.n) /\ Increasing(requeue)
                 => Increasing(Append(requeue, Packet))
      BY <1>3, <2>1, NumbersAppend
    <2> QED BY <1>1, <1>2, <2>1, <2>2
  <1>5. TypeOK'
    BY <1>1, <1>2, <1>4 DEF Inv, TypeOK, QueueTypes, SessionTypes, HistoryTypes, session, Packets
  <1>6. Ordered'
    <2>1. \A v \in Numbers(requeue'), w \in Numbers(recv') : v < w
      BY <1>2, <1>4
    <2> QED BY <1>2, <1>4, <2>1, OrderedNumbers DEF Ordered
  <1>7. Aside'
    BY <1>1 DEF Aside, Requeues, HasPlayer, session
  <1>8. Waiting' = Waiting
    BY <1>2, <1>4 DEF Waiting
  <1>9. Behind' /\ LoggedInInOrder'
    BY <1>1, <1>8 DEF Inv, Behind, LoggedInInOrder
  <1>10. Places'
    BY <1>1, <1>2, <1>8 DEF Inv, Places
  <1> QED BY <1>5, <1>6, <1>7, <1>9, <1>10 DEF Inv

\* A packet that is deleted leaves the queue and nothing else.
LEMMA DeletedStep ==
    ASSUME Inv, NEW cost \in {1, Limit + 1}, Take(cost), dropped' = dropped \cup {Packet.n},
           UNCHANGED <<requeue, handled, player>>, SessionTypes'
    PROVE  Inv'
  <1>1. /\ Packet \in Packets /\ recv' \in Seq(Packets) /\ Increasing(recv')
        /\ Numbers(recv) = {Packet.n} \cup Numbers(recv')
        /\ \A w \in Numbers(recv') : Packet.n < w
        /\ \A v \in Numbers(requeue) : v < Packet.n
        /\ \A v \in Numbers(requeue), w \in Numbers(recv') : v < w
        /\ LoopTypes' /\ UNCHANGED <<sent, pc>>
    BY TakeEffect
  <1>2. TypeOK'
    BY <1>1 DEF Inv, TypeOK, QueueTypes, HistoryTypes, Packets
  <1>3. Ordered' /\ Aside'
    BY <1>1, OrderedNumbers DEF Inv, Ordered, Aside, HasPlayer
  <1>4. Waiting = Waiting' \cup {Packet.n} /\ Packet.n \notin Waiting'
    <2>1. Packet.n \in Int
      BY <1>1 DEF Packets
    <2> QED BY <1>1, <2>1 DEF Waiting
  <1>5. Behind' /\ LoggedInInOrder'
    BY <1>4 DEF Inv, Behind, LoggedInInOrder
  <1>6. Places'
    BY <1>1, <1>4 DEF Inv, Places
  <1> QED BY <1>2, <1>3, <1>5, <1>6 DEF Inv

\* Update calls the handler of a packet, which may log a player in or out.
LEMMA CallHandlerStep ==
    ASSUME Inv, CallHandler
    PROVE  Inv'
  <1> DEFINE call == [n |-> Packet.n, opcode |-> Packet.opcode, by |-> pc]
  <1>1. /\ Take(1) /\ Expected /\ Handler(Packet.opcode)
        /\ handled' = Append(handled, call)
        /\ UNCHANGED <<requeue, dropped>>
    BY DEF CallHandler
  <1>2. /\ Packet \in Packets /\ recv' \in Seq(Packets) /\ Increasing(recv')
        /\ Numbers(recv) = {Packet.n} \cup Numbers(recv')
        /\ \A w \in Numbers(recv') : Packet.n < w
        /\ \A v \in Numbers(requeue) : v < Packet.n
        /\ \A v \in Numbers(requeue), w \in Numbers(recv') : v < w
        /\ LoopTypes' /\ UNCHANGED <<sent, pc>> /\ pc \in {"world", "map"}
    BY <1>1, TakeEffect
  <1>3. /\ call \in Calls
        /\ call.n = Packet.n /\ call.opcode = Packet.opcode /\ Packet.n \in Int
        /\ Packet.opcode \in Opcodes
    BY <1>2 DEF Packets, Calls
  <1> HIDE DEF call
  <1>4. SessionTypes' /\ (~HasPlayer => ~HasPlayer')
    <2>1. Packet.opcode \in {"move", "trigger", "logout", "enum", "login", "ack", "cancel"}
      BY <1>3 DEF Opcodes, LoggedIn, Authed
    <2>2. CASE Packet.opcode = "login"
      BY <1>1, <2>2 DEF Handler, Kicked, Stays, Inv, TypeOK, SessionTypes, HasPlayer
    <2>3. CASE Packet.opcode = "enum"
      BY <1>1, <2>3 DEF Handler, Stays, Inv, TypeOK, SessionTypes, HasPlayer
    <2>4. CASE Packet.opcode = "ack"
      <3>1. player = "transfer"
        BY <1>1, <2>4 DEF Expected, LoggedIn
      <3> QED BY <1>1, <2>4, <3>1 DEF Handler, Stays, Inv, TypeOK, SessionTypes, HasPlayer
    <2>5. CASE Packet.opcode = "trigger"
      <3>1. player = "world"
        BY <1>1, <2>5 DEF Expected, LoggedIn
      <3> QED BY <1>1, <2>5, <3>1 DEF Handler, Stays, Inv, TypeOK, SessionTypes, HasPlayer
    <2>6. CASE Packet.opcode = "logout"
      BY <1>1, <2>6 DEF Handler, LoggedOut, Stays, Inv, TypeOK, SessionTypes, HasPlayer
    <2>7. CASE Packet.opcode \in {"move", "cancel"}
      BY <1>1, <2>7 DEF Handler, session, Inv, TypeOK, SessionTypes, HasPlayer
    <2> QED BY <2>1, <2>2, <2>3, <2>4, <2>5, <2>6, <2>7
  <1>5. Waiting = Waiting' \cup {Packet.n} /\ \A w \in Numbers(recv') : w # Packet.n
    BY <1>1, <1>2, <1>3 DEF Waiting
  <1>6. Packet.n \notin Waiting'
    BY <1>1, <1>2, <1>3 DEF Waiting
  <1>7. handled \in Seq(Calls)
    BY DEF Inv, TypeOK, HistoryTypes
  <1>8. /\ handled' \in Seq(Calls)
        /\ Numbers(handled') = Numbers(handled) \cup {Packet.n}
        /\ Once(handled')
    <2>1. Packet.n \notin Numbers(handled) /\ Once(handled)
      BY <1>5 DEF Inv, Places
    <2>2. /\ Append(handled, call) \in Seq(Calls)
          /\ Numbers(Append(handled, call)) = Numbers(handled) \cup {call.n}
          /\ call.n \notin Numbers(handled) /\ Once(handled) => Once(Append(handled, call))
      BY <1>3, <1>7, NumbersAppend
    <2> QED BY <1>1, <1>3, <2>1, <2>2
  <1>9. /\ Len(handled) \in Nat /\ DOMAIN handled = 1..Len(handled)
        /\ DOMAIN handled' = 1..(Len(handled) + 1)
        /\ \A i \in 1..Len(handled) : handled'[i] = handled[i]
        /\ handled'[Len(handled) + 1] = call
    BY <1>1, <1>3, <1>7, AppendProperties
  <1>10. TypeOK'
    BY <1>1, <1>2, <1>4, <1>8 DEF Inv, TypeOK, QueueTypes, HistoryTypes, Packets
  <1>11. Ordered' /\ Aside'
    BY <1>1, <1>2, <1>4, OrderedNumbers DEF Inv, Ordered, Aside
  <1>12. Places'
    BY <1>1, <1>2, <1>5, <1>6, <1>8 DEF Inv, Places
  <1>13. Packet.opcode \in LoggedIn => \A w \in Waiting' : Packet.n < w
    <2> SUFFICES ASSUME Packet.opcode \in LoggedIn PROVE \A w \in Waiting' : Packet.n < w
      OBVIOUS
    <2>1. HasPlayer
      BY <1>1 DEF Expected, HasPlayer, LoggedIn
    <2>2. requeue = <<>>
      BY <2>1 DEF Inv, Aside
    <2>3. Numbers(requeue') = {}
      BY <1>1, <2>2 DEF Numbers
    <2> QED BY <1>2, <2>3 DEF Waiting
  <1>14. Behind'
    <2> SUFFICES ASSUME NEW i \in DOMAIN handled', handled'[i].opcode \in LoggedIn
                 PROVE  \A w \in Waiting' : handled'[i].n < w
      BY DEF Behind
    <2>1. CASE i \in 1..Len(handled)
      BY <1>5, <1>9, <2>1 DEF Inv, Behind
    <2>2. CASE i = Len(handled) + 1
      BY <1>3, <1>9, <1>13, <2>2
    <2> QED BY <1>9, <2>1, <2>2
  <1>15. LoggedInInOrder'
    <2> SUFFICES ASSUME NEW i \in DOMAIN handled', NEW j \in DOMAIN handled', i < j,
                        handled'[i].opcode \in LoggedIn, handled'[j].opcode \in LoggedIn
                 PROVE  handled'[i].n < handled'[j].n
      BY DEF LoggedInInOrder
    <2>1. i \in 1..Len(handled) /\ handled'[i] = handled[i]
      BY <1>9
    <2>2. CASE j \in 1..Len(handled)
      BY <1>9, <2>1, <2>2 DEF Inv, LoggedInInOrder
    <2>3. CASE j = Len(handled) + 1
      <3>1. handled[i].n < Packet.n
        BY <1>5, <1>9, <2>1 DEF Inv, Behind
      <3> QED BY <1>3, <1>9, <2>1, <2>3, <3>1
    <2> QED BY <1>9, <2>2, <2>3
  <1> QED BY <1>10, <1>11, <1>12, <1>14, <1>15 DEF Inv

\* At the end of an Update what was put aside goes back; the session's end deletes all.
LEMMA EndStep ==
    ASSUME Inv, EndWorldUpdate \/ EndMapUpdate
    PROVE  Inv'
  <1>1. /\ requeue' = <<>> /\ processed' = 0 /\ UNCHANGED <<sent, handled>>
        /\ pc' \in {"world", "map", "gone"}
    BY DEF EndWorldUpdate, EndMapUpdate
  <1>2. SessionTypes'
    <2>1. CASE EndMapUpdate
      BY <2>1 DEF EndMapUpdate, session, Inv, TypeOK, SessionTypes
    <2>2. CASE EndWorldUpdate
      BY <2>2 DEF EndWorldUpdate, Loaded, Inv, TypeOK, SessionTypes
    <2> QED BY <2>1, <2>2
  <1>3. \/ recv' = Readd /\ dropped' = dropped
        \/ recv' = <<>> /\ dropped' = dropped \cup Numbers(Readd)
    BY DEF EndWorldUpdate, EndMapUpdate
  <1>4. recv \in Seq(Packets) /\ requeue \in Seq(Packets)
    <2>1. Early \subseteq Packets
      BY DEF Early, Packets, Opcodes
    <2>2. /\ recv \in Seq(Packets)
          /\ requeue \in Seq(Early)
      BY DEF Inv, TypeOK, QueueTypes, Packets
    <2> QED BY <2>1, <2>2, SeqMonotonic
  <1>5. Readd \in Seq(Packets) /\ Numbers(Readd) = Waiting /\ Increasing(Readd)
    BY <1>4, NumbersConcat DEF Inv, Ordered, Readd, Waiting
  <1>6. Numbers(requeue') = {} /\ Increasing(requeue')
    BY <1>1 DEF Numbers, Increasing
  <1>7. /\ recv' \in Seq(Packets) /\ Increasing(recv')
        /\ \/ Waiting' = Waiting /\ dropped' = dropped
           \/ Waiting' = {} /\ dropped' = dropped \cup Waiting
    <2>1. <<>> \in Seq(Packets) /\ Increasing(<<>>) /\ Numbers(<<>>) = {}
      BY DEF Numbers, Increasing
    <2> QED BY <1>3, <1>5, <1>6, <2>1 DEF Waiting
  <1>8. Waiting \subseteq 1..sent /\ sent \in 0..MaxPackets
    BY DEF Inv, Places, TypeOK, QueueTypes
  <1>9. TypeOK'
    <2>1. QueueTypes'
      BY <1>1, <1>7, <1>8 DEF QueueTypes, Packets
    <2>2. LoopTypes'
      BY <1>1, PacketBoundsAssumption DEF LoopTypes
    <2>3. HistoryTypes'
      <3>1. Waiting \subseteq 1..MaxPackets
        BY <1>8, PacketBoundsAssumption
      <3> QED BY <1>1, <1>7, <3>1 DEF Inv, TypeOK, HistoryTypes
    <2> QED BY <1>2, <2>1, <2>2, <2>3 DEF TypeOK
  <1>10. Ordered' /\ Aside'
    BY <1>1, <1>6, <1>7 DEF Ordered, Aside
  <1>11. Behind' /\ LoggedInInOrder'
    BY <1>1, <1>7 DEF Inv, Behind, LoggedInInOrder
  <1>12. Places'
    BY <1>1, <1>7 DEF Inv, Places
  <1> QED BY <1>9, <1>10, <1>11, <1>12 DEF Inv

\* A network thread appends a packet.
LEMMA QueuePacketStep ==
    ASSUME Inv, NEW opcode \in Opcodes, QueuePacket(opcode)
    PROVE  Inv'
  <1> DEFINE p == [n |-> sent + 1, opcode |-> opcode]
  <1>1. /\ sent < MaxPackets /\ sent' = sent + 1 /\ recv' = Append(recv, p)
        /\ UNCHANGED <<loop, session, handled, dropped>>
    BY DEF QueuePacket
  <1>2. recv \in Seq(Packets) /\ sent \in 0..MaxPackets /\ Waiting \subseteq 1..sent
    BY DEF Inv, TypeOK, QueueTypes, Packets, Places
  <1>3. p \in Packets /\ p.n = sent + 1
    BY <1>1, <1>2, PacketBoundsAssumption DEF Packets
  <1> HIDE DEF p
  <1>4. \A w \in Waiting : w < sent + 1
    BY <1>2
  <1>5. /\ recv' \in Seq(Packets) /\ Increasing(recv')
        /\ Numbers(recv') = Numbers(recv) \cup {sent + 1}
    <2>1. \A w \in Numbers(recv) : w < p.n
      BY <1>3, <1>4 DEF Waiting
    <2> QED BY <1>1, <1>2, <1>3, <2>1, NumbersAppend DEF Inv, Ordered
  <1>6. UNCHANGED <<pc, requeue, processed, player, recent, leaving, open, forced>>
    BY <1>1 DEF loop, session
  <1>7. TypeOK'
    <2>1. QueueTypes'
      BY <1>1, <1>2, <1>5, <1>6, PacketBoundsAssumption DEF Inv, TypeOK, QueueTypes, Packets
    <2>2. LoopTypes' /\ SessionTypes' /\ HistoryTypes'
      BY <1>1, <1>6 DEF Inv, TypeOK, LoopTypes, SessionTypes, HistoryTypes
    <2> QED BY <2>1, <2>2 DEF TypeOK
  <1>8. Ordered' /\ Aside'
    <2>1. \A v \in Numbers(requeue), w \in Numbers(recv) : v < w
      BY OrderedNumbers DEF Inv, Ordered
    <2>2. \A v \in Numbers(requeue), w \in Numbers(recv') : v < w
      BY <1>4, <1>5, <2>1 DEF Waiting
    <2> QED BY <1>5, <1>6, <2>2, OrderedNumbers DEF Inv, Ordered, Aside, HasPlayer
  <1>9. Waiting' = Waiting \cup {sent + 1}
    BY <1>5, <1>6 DEF Waiting
  <1>10. Numbers(handled) \subseteq 1..sent /\ dropped \subseteq 1..sent /\ sent + 1 \notin 1..sent
         /\ 1..(sent + 1) = 1..sent \cup {sent + 1}
    BY <1>2 DEF Inv, Places
  <1>11. Places'
    BY <1>1, <1>9, <1>10 DEF Inv, Places
  <1>12. Behind' /\ LoggedInInOrder'
    <2>1. \A i \in DOMAIN handled : handled[i].n \in 1..sent
      BY <1>10 DEF Numbers
    <2>2. \A i \in DOMAIN handled : handled[i].n < sent + 1
      BY <1>2, <2>1
    <2> QED BY <1>1, <1>9, <2>2 DEF Inv, Behind, LoggedInInOrder
  <1> QED BY <1>7, <1>8, <1>11, <1>12 DEF Inv

\* A network thread closes the socket.
LEMMA DisconnectStep ==
    ASSUME Inv, Disconnect \/ UNCHANGED vars
    PROVE  Inv'
  <1>1. /\ UNCHANGED <<recv, sent, pc, requeue, processed, player, recent, leaving, forced,
                       handled, dropped>>
        /\ open' \in {open, FALSE}
    BY DEF Disconnect, vars, queue, loop, session
  <1>2. TypeOK'
    BY <1>1 DEF Inv, TypeOK, QueueTypes, LoopTypes, SessionTypes, HistoryTypes
  <1>3. Ordered' /\ Aside' /\ Behind' /\ Places' /\ LoggedInInOrder'
    BY <1>1 DEF Inv, Ordered, Aside, HasPlayer, Behind, Waiting, Places, LoggedInInOrder
  <1> QED BY <1>2, <1>3 DEF Inv

-----------------------------------------------------------------------------
(* The theorems. *)

\* A session starts without packets.
LEMMA InitInv == Init => Inv
  <1> SUFFICES ASSUME Init PROVE Inv
    OBVIOUS
  <1>1. TypeOK
    <2>1. QueueTypes
      BY PacketBoundsAssumption, EmptySeq DEF Init, QueueTypes
    <2>2. LoopTypes /\ SessionTypes
      <3>1. 0 \in 0..(2 * Limit + 1)
        BY PacketBoundsAssumption
      <3> QED BY <3>1 DEF Init, LoopTypes, SessionTypes
    <2>3. HistoryTypes
      BY EmptySeq DEF Init, HistoryTypes
    <2> QED BY <2>1, <2>2, <2>3 DEF TypeOK
  <1>2. Numbers(recv) = {} /\ Numbers(requeue) = {} /\ Numbers(handled) = {}
    BY DEF Init, Numbers
  <1>3. Ordered /\ Aside /\ Behind /\ LoggedInInOrder
    BY DEF Init, Ordered, Increasing, Aside, Behind, LoggedInInOrder
  <1>4. Places
    BY <1>2 DEF Init, Places, Waiting, Once
  <1> QED BY <1>1, <1>3, <1>4 DEF Inv

\* Every step of Update and of the network threads keeps Inv.
LEMMA NextInv == Inv /\ [Next]_vars => Inv'
  <1> SUFFICES ASSUME Inv, [Next]_vars PROVE Inv'
    OBVIOUS
  <1>1. CASE RequeuePacket
    BY <1>1, RequeuePacketStep
  <1>2. CASE CallHandler
    BY <1>2, CallHandlerStep
  <1>3. CASE Refuse
    <2>1. SessionTypes'
      BY <1>3 DEF Refuse, Kicked, Inv, TypeOK, SessionTypes
    <2>2. PICK cost \in {1, Limit + 1} : Take(cost)
      BY <1>3 DEF Refuse
    <2> QED BY <1>3, <2>1, <2>2, DeletedStep DEF Refuse
  <1>4. CASE DropPacket
    <2>1. SessionTypes'
      BY <1>4 DEF DropPacket, Inv, TypeOK, SessionTypes, session
    <2>2. PICK cost \in {1, Limit + 1} : Take(cost)
      BY <1>4 DEF DropPacket
    <2> QED BY <1>4, <2>1, <2>2, DeletedStep DEF DropPacket, session
  <1>5. CASE EndWorldUpdate \/ EndMapUpdate
    BY <1>5, EndStep
  <1>6. ASSUME NEW opcode \in Opcodes, QueuePacket(opcode) PROVE Inv'
    BY <1>6, QueuePacketStep
  <1>7. CASE Disconnect \/ UNCHANGED vars
    BY <1>7, DisconnectStep
  <1> QED BY <1>1, <1>2, <1>3, <1>4, <1>5, <1>6, <1>7 DEF Next, Update

\* Inv is an invariant.
LEMMA Invariance == Spec => []Inv
  BY InitInv, NextInv, PTL DEF Spec

\* The queue holds packets the client may send, what is put aside is of
\* STATUS_LOGGEDIN, and the counter of an Update stays within twice its limit.
THEOREM TypeCorrect == Spec => []TypeOK
  <1>1. Inv => TypeOK
    BY DEF Inv
  <1> QED BY <1>1, Invariance, PTL

\* Each packet the client sent is waiting, was handled once, or was deleted, and
\* only one of these, for any number of packets and any limit: LockedQueue::next
\* and readd lose none and repeat none, whatever network threads add between them.
THEOREM NoPacketLostOrRepeated == Spec => []PacketsAccounted
  <1>1. Inv => PacketsAccounted
    <2> SUFFICES ASSUME Inv PROVE PacketsAccounted
      OBVIOUS
    <2>1. ASSUME NEW S, NEW s \in Seq(S), Increasing(s), \A p \in S : p.n \in Int
          PROVE  Once(s)
      <3> SUFFICES ASSUME NEW i \in DOMAIN s, NEW j \in DOMAIN s, s[i].n = s[j].n
                   PROVE  i = j
        BY DEF Once
      <3>1. i \in Int /\ j \in Int /\ s[i].n \in Int
        <4>1. s \in [1..Len(s) -> S] /\ Len(s) \in Nat
          BY LenProperties
        <4>2. s[i] \in S
          BY <4>1
        <4> QED BY <2>1, <4>1, <4>2
      <3> QED BY <2>1, <3>1 DEF Increasing
    <2>2. Once(recv) /\ Once(requeue)
      <3>1. \A p \in Packets \cup Early : p.n \in Int
        BY DEF Packets, Early
      <3> QED BY <2>1, <3>1 DEF Inv, TypeOK, QueueTypes, Ordered
    <2>3. Numbers(recv) \cap Numbers(requeue) = {}
      <3>1. \A v \in Numbers(requeue), w \in Numbers(recv) : v < w
        BY OrderedNumbers DEF Inv, Ordered
      <3>2. \A v \in Numbers(recv) : v \in Int
        BY DEF Inv, Places, Waiting
      <3> QED BY <3>1, <3>2
    <2> QED BY <2>2, <2>3 DEF Inv, Places, PacketsAccounted
  <1> QED BY <1>1, Invariance, PTL

\* The handlers of STATUS_LOGGEDIN packets are called in the order in which the
\* client sent them, for any number of packets and any limit, although world and
\* map threads call them and packets that come too early are put aside.
THEOREM HandledInOrder == Spec => []LoggedInInOrder
  <1>1. Inv => LoggedInInOrder
    BY DEF Inv
  <1> QED BY <1>1, Invariance, PTL

=============================================================================
