----------------------------- MODULE SessionUpdate -----------------------------
(***************************************************************************)
(* The packets of one client: put into WorldSession::_recvQueue by network  *)
(* threads and taken out by WorldSession::Update, which the world thread    *)
(* calls from World::UpdateSessions and then, for a player in the world, a  *)
(* map thread calls from Map::Update. The two never overlap (MapUpdater),   *)
(* and take different packets (WorldSessionFilter, MapSessionFilter).       *)
(* Packets arriving at any time interleave with single calls of             *)
(* LockedQueue::next and readd. A packet is its number and its opcode.      *)
(***************************************************************************)
EXTENDS Integers, Sequences, FiniteSets

CONSTANTS
    Limit,      \* MAX_PROCESSED_PACKETS_IN_SAME_WORLDSESSION_UPDATE
    MaxPackets  \* bound: packets the client sends

ASSUME PacketBoundsAssumption == Limit \in Nat /\ MaxPackets \in Nat

VARIABLES
    recv,       \* _recvQueue
    sent,       \* packets the client has sent
    pc,         \* which Update is in its loop: "world", "map", or the session is "gone"
    requeue,    \* requeuePackets of this Update
    processed,  \* processedPackets of this Update
    player,     \* _player and m_playerLoading
    recent,     \* m_playerRecentlyLogout
    leaving,    \* _logoutTime is set
    open,       \* the realm socket is open
    forced,     \* forceExit
    handled,    \* history: packets whose handler was called
    dropped     \* history: numbers of packets deleted unhandled

queue   == <<recv, sent>>
loop    == <<pc, requeue, processed>>
session == <<player, recent, leaving, open, forced>>
vars    == <<queue, loop, session, handled, dropped>>

\* opcodeTable: one opcode for each way Update treats a packet.
LoggedIn == {"move", "trigger", "logout"}   \* STATUS_LOGGEDIN
Authed   == {"enum", "login"}               \* STATUS_AUTHED
Opcodes  == LoggedIn \cup Authed \cup {"ack", "cancel"}
InPlace  == {"trigger"}                     \* PROCESS_INPLACE, CMSG_AREA_TRIGGER
Safe     == {"move"}                        \* PROCESS_THREADSAFE, the others are unsafe

Numbers(packets) == {packets[i].n : i \in DOMAIN packets}

HasPlayer == player \in {"world", "transfer"}

Init ==
    /\ recv = <<>> /\ sent = 0
    /\ pc = "world" /\ requeue = <<>> /\ processed = 0
    /\ player = "none" /\ recent = FALSE /\ leaving = FALSE
    /\ open = TRUE /\ forced = FALSE
    /\ handled = <<>> /\ dropped = {}

-----------------------------------------------------------------------------
(* The network thread. *)

\* WorldSession::QueuePacket
QueuePacket(opcode) ==
    /\ pc # "gone"
    /\ open
    /\ sent < MaxPackets
    /\ sent' = sent + 1
    /\ recv' = Append(recv, [n |-> sent + 1, opcode |-> opcode])
    /\ UNCHANGED <<loop, session, handled, dropped>>

\* The connection is lost, or closed because it is idle.
Disconnect ==
    /\ pc # "gone"
    /\ open
    /\ open' = FALSE
    /\ UNCHANGED <<queue, loop, player, recent, leaving, forced, handled, dropped>>

-----------------------------------------------------------------------------
(* The loop of Update. *)

\* Mutant: safe packets are left to the map although the player is in none.
MutWorldSessionFilter(opcode) == opcode \notin Safe \/ ~HasPlayer

WorldSessionFilter(opcode) == opcode \notin Safe \/ player # "world"

MapSessionFilter(opcode) == opcode \in InPlace \/ (opcode \in Safe /\ player = "world")

Process(opcode) == IF pc = "world" THEN WorldSessionFilter(opcode) ELSE MapSessionFilter(opcode)

\* Mutant: the limit is one packet lower.
MutWithinLimit == processed < Limit

\* The loop goes on while no more than the limit is processed.
WithinLimit == processed <= Limit

\* LockedQueue::next with a filter succeeds.
Ready ==
    /\ pc # "gone"
    /\ WithinLimit
    /\ recv # <<>>
    /\ Process(Head(recv).opcode)

Packet == Head(recv)

\* Common to all packets: out of the queue, and counted.
Take(cost) ==
    /\ Ready
    /\ recv' = Tail(recv)
    /\ processed' = processed + cost
    /\ UNCHANGED <<sent, pc>>

\* KickPlayer
Kicked == open' = FALSE /\ forced' = TRUE
Stays  == UNCHANGED <<open, forced>>

\* LogoutPlayer
LoggedOut == player' = "none" /\ recent' = TRUE /\ leaving' = FALSE

\* What handlers do to the session's state: HandleAreaTriggerOpcode may teleport to
\* another map, HandleMoveWorldportAck may fail to add the player and send him home.
Handler(opcode) ==
    CASE opcode = "login" ->
            /\ IF player = "none"
               THEN player' = "loading" /\ Stays
               ELSE player' = player /\ Kicked
            /\ UNCHANGED <<recent, leaving>>
      [] opcode = "enum" -> recent' = FALSE /\ UNCHANGED <<player, leaving>> /\ Stays
      [] opcode \in {"ack", "trigger"} ->
            player' \in {"world", "transfer"} /\ UNCHANGED <<recent, leaving>> /\ Stays
      [] opcode = "logout" ->
            /\ LoggedOut \/ (leaving' \in BOOLEAN /\ UNCHANGED <<player, recent>>)
            /\ Stays
      [] opcode \in {"move", "cancel"} -> UNCHANGED session

\* STATUS_LOGGEDIN without a player: put aside for a later Update.
Requeues == Packet.opcode \in LoggedIn /\ ~HasPlayer /\ ~recent

\* Mutant: deletePacket stays true.
MutRequeuePacket ==
    /\ Take(1)
    /\ Requeues
    /\ requeue' = Append(requeue, Packet)
    /\ dropped' = dropped \cup {Packet.n}
    /\ UNCHANGED <<session, handled>>

RequeuePacket ==
    /\ Take(1)
    /\ Requeues
    /\ requeue' = Append(requeue, Packet)
    /\ UNCHANGED <<session, handled, dropped>>

\* The status of the opcode fits the state of the session.
Expected ==
    CASE Packet.opcode \in LoggedIn -> player = "world"
      [] Packet.opcode = "cancel" -> HasPlayer \/ recent
      [] Packet.opcode = "ack" -> player = "transfer"
      [] OTHER -> TRUE

CallHandler ==
    /\ Take(1)
    /\ Expected
    /\ Handler(Packet.opcode)
    /\ handled' = Append(handled, [n |-> Packet.n, opcode |-> Packet.opcode, by |-> pc])
    /\ UNCHANGED <<requeue, dropped>>

\* AntiDOS.EvaluateOpcode refuses the packet and kicks: the loop ends.
\* CMSG_ENUM_CHARACTERS has reset m_playerRecentlyLogout by then.
Refuse ==
    /\ Take(Limit + 1)
    /\ Expected
    /\ Kicked
    /\ recent' = (recent /\ Packet.opcode # "enum")
    /\ dropped' = dropped \cup {Packet.n}
    /\ UNCHANGED <<requeue, player, leaving, handled>>

\* A packet for another state of the session is deleted.
DropPacket ==
    /\ Take(1)
    /\ ~Expected /\ ~Requeues
    /\ dropped' = dropped \cup {Packet.n}
    /\ UNCHANGED <<requeue, session, handled>>

-----------------------------------------------------------------------------
(* The rest of Update. *)

\* Mutant: they are put at the end.
MutReadd == recv \o requeue

\* LockedQueue::readd
Readd == requeue \o recv

\* ProcessQueryCallbacks: the character is loaded, or could not be.
Loaded == IF player = "loading" THEN {"loading", "world", "none"} ELSE {player}

\* The Update of the world thread ends: logout, the closed socket, and the session's
\* end; otherwise a map thread updates it if its player is in the world.
EndWorldUpdate ==
    /\ pc = "world"
    /\ ~Ready
    /\ processed' = 0
    /\ requeue' = <<>>
    /\ \E loaded \in Loaded, logout \in BOOLEAN, expired \in BOOLEAN :
        LET out  == logout /\ leaving /\ loaded # "loading"
            left == IF out THEN "none" ELSE loaded
            gone == ~open /\ (expired \/ forced \/ left \notin {"world", "transfer"})
        IN  /\ player' = left
            /\ recent' = (recent \/ out)
            /\ leaving' = (leaving /\ ~out)
            /\ pc' = IF gone THEN "gone" ELSE IF left = "world" THEN "map" ELSE "world"
            /\ recv' = IF gone THEN <<>> ELSE Readd
            /\ dropped' = IF gone THEN dropped \cup Numbers(Readd) ELSE dropped
    /\ UNCHANGED <<sent, open, forced, handled>>

\* The Update of the map thread ends.
EndMapUpdate ==
    /\ pc = "map"
    /\ ~Ready
    /\ processed' = 0
    /\ requeue' = <<>>
    /\ recv' = Readd
    /\ pc' = "world"
    /\ UNCHANGED <<sent, session, handled, dropped>>

Update == RequeuePacket \/ CallHandler \/ Refuse \/ DropPacket \/ EndWorldUpdate \/ EndMapUpdate

Next == Update \/ Disconnect \/ \E opcode \in Opcodes : QueuePacket(opcode)

\* The world and the map threads come back to the session every tick.
Spec == Init /\ [][Next]_vars /\ WF_vars(Update)

-----------------------------------------------------------------------------
Waiting == Numbers(recv) \cup Numbers(requeue)

Packets == [n : 1..MaxPackets, opcode : Opcodes]
Early   == [n : 1..MaxPackets, opcode : LoggedIn]
Calls   == [n : 1..MaxPackets, opcode : Opcodes, by : {"world", "map"}]

QueueTypes ==
    /\ recv \in Seq(Packets)
    /\ requeue \in Seq(Early)
    /\ sent \in 0..MaxPackets

LoopTypes ==
    /\ pc \in {"world", "map", "gone"}
    /\ processed \in 0..(2 * Limit + 1)

SessionTypes ==
    /\ player \in {"none", "loading", "world", "transfer"}
    /\ recent \in BOOLEAN /\ leaving \in BOOLEAN
    /\ open \in BOOLEAN /\ forced \in BOOLEAN

HistoryTypes ==
    /\ handled \in Seq(Calls)
    /\ dropped \subseteq 1..MaxPackets

\* The shape of the queue and of the loop; a packet put aside is one of STATUS_LOGGEDIN.
TypeOK == QueueTypes /\ LoopTypes /\ SessionTypes /\ HistoryTypes

\* No packet is in the sequence twice.
Once(packets) == \A i, j \in DOMAIN packets : packets[i].n = packets[j].n => i = j

\* Each packet the client sent is waiting, was handled once, or was deleted, and only
\* one of these: putting packets aside and back loses none and repeats none, whatever
\* arrives between taking them out and putting them back.
PacketsAccounted ==
    /\ Once(recv) /\ Once(requeue) /\ Once(handled)
    /\ Numbers(recv) \cap Numbers(requeue) = {}
    /\ Waiting \cap Numbers(handled) = {}
    /\ Waiting \cap dropped = {}
    /\ Numbers(handled) \cap dropped = {}
    /\ Waiting \cup Numbers(handled) \cup dropped = 1..sent

\* The handlers of STATUS_LOGGEDIN packets are called in the order in which the
\* client sent them, although two threads call them and early ones are put aside.
LoggedInInOrder ==
    \A i, j \in DOMAIN handled :
        i < j /\ handled[i].opcode \in LoggedIn /\ handled[j].opcode \in LoggedIn
        => handled[i].n < handled[j].n

\* "Any leftover will be processed in next update": nothing stays in the queue of a
\* player who is in the world or between maps. The packets of one thread, at the head
\* of the queue, do not keep those of the other waiting for ever.
LeftoverProcessed ==
    \A n \in 1..MaxPackets :
        (n \in Waiting /\ HasPlayer) ~> (n \notin Waiting \/ ~HasPlayer)

TooEarly == Cardinality({n \in Waiting : n \notin
            {recv[i].n : i \in {j \in DOMAIN recv : recv[j].opcode \notin LoggedIn}}})

\* A login is reached however many packets came too early, up to the limit of one
\* Update: only more than that many hold it back.
LoginReached ==
    \A n \in 1..MaxPackets :
        (\E i \in DOMAIN recv : recv[i].n = n /\ recv[i].opcode = "login")
        ~> (n \notin Waiting \/ TooEarly > Limit)
================================================================================
