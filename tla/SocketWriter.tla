----------------------------- MODULE SocketWriter ------------------------------
(***************************************************************************)
(* The way of a packet from WorldSocket::SendPacket to the wire: any thread  *)
(* enqueues it in _bufferQueue, an MPSCQueue; WorldSocket::Update, on the    *)
(* network thread, encrypts it into a buffer of the Socket's _writeQueue;    *)
(* HandleQueue writes the buffers, and asks to be called back when the       *)
(* operating system takes no more. Any thread may close the socket, at once  *)
(* or when what it sent is written. A packet is as many bytes as its size,   *)
(* each standing for the packet.                                             *)
(***************************************************************************)
EXTENDS MPSCQueue, SequencesExt

CONSTANTS
    Large,          \* packets larger than a buffer; the others have size 1
    SendBufferSize, \* _sendBufferSize
    Closers,        \* threads that answer with an error and close
    MaxSends        \* bound: calls of SendPacket

ASSUME BoundsAssumption == SendBufferSize \in Nat \ {0} /\ MaxSends \in Nat

VARIABLES
    closed,     \* _closed
    closing,    \* _closing
    async,      \* _isWritingAsync
    buffers,    \* _writeQueue
    buffer,     \* the buffer Update is filling
    npc,        \* where the network thread is with this socket
    todo,       \* what a thread does when its Enqueue has returned
    live,       \* packets allocated and not freed
    sends,      \* calls of SendPacket that were not refused
    sent,       \* history: the bytes of the packets in the order of _bufferQueue
    wire,       \* the bytes the operating system accepted
    broken,     \* the peer is gone: writes fail
    stale       \* history: a racing test of _writeQueue missed that it was empty

svars == <<closed, closing, async, buffers, buffer, npc, todo, live, sends, sent,
           wire, broken, stale>>
vars == <<qvars, svars>>

PacketSize(x) == IF x \in Large THEN SendBufferSize + 1 ELSE 1
Bytes(x) == [i \in 1..PacketSize(x) |-> x]

Init ==
    /\ QInit
    /\ closed = FALSE
    /\ closing = FALSE
    /\ async = FALSE
    /\ buffers = << >>
    /\ buffer = << >>
    /\ npc = "idle"
    /\ todo = [t \in Threads |-> "none"]
    /\ live = {}
    /\ sends = 0
    /\ sent = << >>
    /\ wire = << >>
    /\ broken = FALSE
    /\ stale = FALSE

IsOpen == ~closed /\ ~closing

\* The thread is not in a call of this socket; the network thread handles
\* one read, one callback or one Update at a time.
Free(t) == todo[t] = "none" /\ (t = Consumer => npc \in {"idle", "gone"})

-----------------------------------------------------------------------------
(* SendPacket and closing, on any thread. *)

\* SendPacket refuses a socket that is not open. An error answer is followed
\* by DelayedCloseSocket.
SendPacket(t, x, then) ==
    /\ Free(t)
    /\ IsOpen
    /\ sends < MaxSends
    /\ x \notin live
    /\ then = "close" => t \in Closers
    /\ CallEnqueue(t, x)
    /\ todo' = [todo EXCEPT ![t] = then]
    /\ live' = live \cup {x}
    /\ sends' = sends + 1
    /\ UNCHANGED <<closed, closing, async, buffers, buffer, npc, sent, wire, broken, stale>>

\* Enqueue goes on; the packet has its place when it is exchanged in. SendPacket
\* returns with it.
Enqueueing(t) ==
    /\ EnqueueStep(t)
    /\ sent' = IF queue' # queue THEN sent \o Bytes(enq[t].input) ELSE sent
    /\ todo' = IF todo[t] = "return" /\ enq'[t] = NoEnqueue
               THEN [todo EXCEPT ![t] = "none"] ELSE todo
    /\ UNCHANGED <<closed, closing, async, buffers, buffer, npc, live, sends, wire, broken,
                   stale>>

\* DelayedCloseSocket: _closing is exchanged.
DelayedCloseSocket(t) ==
    /\ todo[t] = "close"
    /\ enq[t] = NoEnqueue
    /\ closing' = TRUE
    /\ todo' = [todo EXCEPT ![t] = IF closing THEN "none" ELSE "test"]
    /\ UNCHANGED <<qvars, closed, async, buffers, buffer, npc, live, sends, sent, wire,
                   broken, stale>>

\* The network thread is changing _writeQueue: another thread that looks at it
\* may see it either way.
Racing(t) == t # Consumer /\ npc \in {"pack", "flush", "write"}

\* Then the socket is closed at once if _writeQueue is empty.
TestWriteQueue(t) ==
    /\ todo[t] = "test"
    /\ todo' = [todo EXCEPT ![t] = "none"]
    /\ \E empty \in IF Racing(t) THEN BOOLEAN ELSE {buffers = << >>} :
        /\ closed' = (closed \/ empty)
        /\ stale' = (stale \/ (buffers = << >> /\ ~empty))
    /\ UNCHANGED <<qvars, closing, async, buffers, buffer, npc, live, sends, sent, wire,
                   broken>>

\* CloseSocket: a failed read or a time-out on the network thread, the end of
\* the session on the world thread.
CloseSocket(t) ==
    /\ Free(t)
    /\ t \in Closers
    /\ ~closed
    /\ closed' = TRUE
    /\ UNCHANGED <<qvars, closing, async, buffers, buffer, npc, todo, live, sends, sent,
                   wire, broken, stale>>

-----------------------------------------------------------------------------
(* WorldSocket::Update: _bufferQueue is moved to _writeQueue. *)

BeginUpdate ==
    /\ Free(Consumer)
    /\ npc = "idle"
    /\ npc' = "drain"
    /\ buffer' = << >>
    /\ UNCHANGED <<qvars, closed, closing, async, buffers, todo, live, sends, sent, wire,
                   broken, stale>>

\* The network thread runs Dequeue until it returns false.
Drain ==
    /\ npc = "drain"
    /\ \/ CallDequeue /\ npc' = npc
       \/ /\ DequeueStep
          /\ npc' = CASE deq' # NoDequeue -> "drain"
                      [] deq' = NoDequeue /\ out' # {} -> "pack"
                      [] OTHER -> "flush"
    /\ UNCHANGED <<closed, closing, async, buffers, buffer, todo, live, sends, sent, wire,
                   broken, stale>>

\* Does the packet fit behind what is in the buffer?
Fits(x, buf) == Len(buf) + PacketSize(x) <= SendBufferSize

\* Mutant: a packet larger than a buffer overtakes the packets in the buffer.
MutPack(x) ==
    IF Fits(x, buffer)
    THEN /\ buffer' = buffer \o Bytes(x)
         /\ UNCHANGED buffers
    ELSE IF Fits(x, << >>)
    THEN /\ buffers' = Append(buffers, buffer)
         /\ buffer' = Bytes(x)
    ELSE /\ buffers' = Append(buffers, Bytes(x))
         /\ UNCHANGED buffer

\* A buffer too full for the packet is queued, be it empty; a packet larger
\* than a buffer gets one of its own.
Pack(x) ==
    IF Fits(x, buffer)
    THEN /\ buffer' = buffer \o Bytes(x)
         /\ UNCHANGED buffers
    ELSE IF Fits(x, << >>)
    THEN /\ buffers' = Append(buffers, buffer)
         /\ buffer' = Bytes(x)
    ELSE /\ buffers' = Append(Append(buffers, buffer), Bytes(x))
         /\ buffer' = << >>

\* Mutant: the packet is not freed.
MutPackPacket ==
    /\ npc = "pack"
    /\ \E x \in out : Pack(x)
    /\ npc' = "drain"
    /\ UNCHANGED <<qvars, live, closed, closing, async, todo, sends, sent, wire, broken, stale>>

\* WritePacketToBuffer, and the packet is freed.
PackPacket ==
    /\ npc = "pack"
    /\ \E x \in out : Pack(x) /\ live' = live \ {x}
    /\ npc' = "drain"
    /\ UNCHANGED <<qvars, closed, closing, async, todo, sends, sent, wire, broken, stale>>

\* Mutant: only a full buffer is queued.
MutFlushed == IF Len(buffer) < SendBufferSize THEN buffers ELSE Append(buffers, buffer)

\* The last buffer is queued unless it is empty.
Flushed == IF buffer = << >> THEN buffers ELSE Append(buffers, buffer)

\* Then Socket::Update returns false for a closed socket,
\* which the network thread then drops, and has nothing to do while a write
\* is under way or nothing is queued.
FlushBuffer ==
    /\ npc = "flush"
    /\ buffers' = Flushed
    /\ buffer' = << >>
    /\ npc' = CASE closed -> "gone"
                [] ~closed /\ (async \/ (buffers' = << >> /\ ~closing)) -> "idle"
                [] OTHER -> "write"
    /\ UNCHANGED <<qvars, closed, closing, async, todo, live, sends, sent, wire, broken,
                   stale>>

-----------------------------------------------------------------------------
(* Socket::HandleQueue *)

\* Mutant: the end of the queue is not noticed by a socket that waits to close.
MutPop ==
    /\ buffers' = Tail(buffers)
    /\ UNCHANGED closed

\* The first buffer is done; the last one closes a socket that waits to close.
Pop ==
    /\ buffers' = Tail(buffers)
    /\ closed' = (closed \/ (closing /\ Len(buffers) = 1))

\* Nothing to do.
HandleEmpty ==
    /\ buffers = << >>
    /\ UNCHANGED <<closed, buffers, wire>>

\* write_some fails, or there was nothing to write: the buffer is dropped.
HandleDropped ==
    /\ buffers # << >>
    /\ closed \/ broken \/ Head(buffers) = << >>
    /\ Pop
    /\ UNCHANGED wire

\* What is left when n bytes of the first buffer are written.
Rest(n) == <<SubSeq(Head(buffers), n + 1, Len(Head(buffers)))>> \o Tail(buffers)

\* write_some takes a part, none of it when it would block: AsyncProcessQueue.
HandlePart(least) ==
    /\ buffers # << >>
    /\ ~closed /\ ~broken
    /\ \E n \in least..(Len(Head(buffers)) - 1) :
        /\ wire' = wire \o SubSeq(Head(buffers), 1, n)
        /\ buffers' = Rest(n)
    /\ UNCHANGED closed

\* write_some takes it all.
HandleAll ==
    /\ buffers # << >>
    /\ ~closed /\ ~broken
    /\ Head(buffers) # << >>
    /\ wire' = wire \o Head(buffers)
    /\ Pop

\* Socket::Update calls HandleQueue until it returns false.
WriteQueue ==
    /\ npc = "write"
    /\ \/ (HandleEmpty \/ HandleDropped) /\ npc' = "idle" /\ async' = async
       \/ HandlePart(0) /\ npc' = "idle" /\ async' = TRUE
       \/ HandleAll /\ npc' = (IF Len(buffers) > 1 THEN "write" ELSE "idle") /\ async' = async
    /\ UNCHANGED <<qvars, closing, buffer, todo, live, sends, sent, broken, stale>>

\* The operating system can take more, or reports an error: WriteHandlerWrapper.
WriteHandlerWrapper ==
    /\ Free(Consumer)
    /\ async
    /\ \/ (HandleEmpty \/ HandleDropped \/ HandleAll) /\ async' = FALSE
       \/ HandlePart(1) /\ async' = TRUE
    /\ UNCHANGED <<qvars, closing, buffer, npc, todo, live, sends, sent, broken, stale>>

\* The peer resets the connection.
Break ==
    /\ ~broken
    /\ broken' = TRUE
    /\ UNCHANGED <<qvars, closed, closing, async, buffers, buffer, npc, todo, live, sends,
                   sent, wire, stale>>

-----------------------------------------------------------------------------

Update == BeginUpdate \/ Drain \/ PackPacket \/ FlushBuffer \/ WriteQueue

Sending(t) == Enqueueing(t) \/ DelayedCloseSocket(t) \/ TestWriteQueue(t)

Next ==
    \/ \E t \in Threads :
        \/ \E x \in Elements, then \in {"return", "close"} : SendPacket(t, x, then)
        \/ Sending(t)
        \/ CloseSocket(t)
    \/ Update
    \/ WriteHandlerWrapper
    \/ Break

Fairness ==
    /\ \A t \in Threads : WF_vars(Sending(t))
    /\ WF_vars(Update)
    /\ SF_vars(WriteHandlerWrapper)

Spec == Init /\ [][Next]_vars /\ Fairness

-----------------------------------------------------------------------------

\* Every variable has a value of its type.
TypeOK ==
    /\ QTypeOK
    /\ {closed, closing, async, broken, stale} \subseteq BOOLEAN
    /\ buffers \in Seq(Seq(Elements)) /\ buffer \in Seq(Elements)
    /\ npc \in {"idle", "drain", "pack", "flush", "write", "gone"}
    /\ todo \in [Threads -> {"none", "return", "close", "test"}]
    /\ live \subseteq Elements
    /\ sends \in 0..MaxSends
    /\ sent \in Seq(Elements) /\ wire \in Seq(Elements)

\* MPSCQueue keeps the promise of a queue: no packet is lost, returned twice or
\* out of order, and Dequeue comes back empty only for a reason.
BufferQueueIsFifo == Contract!Spec

\* What goes out is what was sent, in the order of _bufferQueue, with nothing left
\* out before it: the client's cipher and its stream of deflated packets depend on it.
WireInOrder == IsPrefix(wire, sent)

\* A packet in a queue is never freed, and every packet allocated is in one: none leaks
\* and none is written after it was freed.
PacketsAccounted ==
    live = Range(queue) \cup {enq[t].input : t \in {u \in Threads : Adding(u)}}
                        \cup (IF npc = "pack" THEN out ELSE {})

\* Once no more is sent, every packet whose SendPacket was not refused is on the wire,
\* unless the connection ends first: none waits for a later packet to push it out.
EverythingSent == <>[](wire = sent \/ closed \/ broken)

\* A socket that is to be closed when its buffer is empty is closed in the end, unless the
\* thread that marked it looked at _writeQueue while the network thread changed it.
DelayedCloseEnds == closing ~> closed \/ stale

\* "Marks the socket for closing after write buffer becomes empty": what was sent before
\* DelayedCloseSocket is written before the socket closes, if the peer stays.
DelayedCloseFlushes ==
    [][closed' /\ ~closed /\ ~broken =>
         wire' = sent \/ \E t \in Threads : CloseSocket(t)]_vars
================================================================================
