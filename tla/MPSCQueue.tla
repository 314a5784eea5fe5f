------------------------------- MODULE MPSCQueue -------------------------------
(***************************************************************************)
(* MPSCQueueIntrusive: the lock-free queue a WorldSocket's packets pass from *)
(* the threads that send them to the network thread. Elements are linked    *)
(* through themselves. _tail is the consumer's end, _head the producers'     *)
(* end; a dummy element keeps the list from being empty. Every atomic        *)
(* operation on a shared word is one action. An element is a heap object: it  *)
(* may be used again once the consumer has freed it.                         *)
(***************************************************************************)
EXTENDS Naturals, Sequences

CONSTANTS
    Producers,  \* threads that enqueue; the consumer may be one of them
    Consumer,   \* the thread that dequeues
    Elements,
    Dummy,      \* _dummyPtr
    Nil         \* nullptr

ASSUME NodesDiffer == Dummy \notin Elements /\ Nil \notin Elements \cup {Dummy}

VARIABLES
    head,       \* _head
    tail,       \* _tail
    link,       \* IntrusiveLink of an element
    enq,        \* the Enqueue a thread is in: where, its input, its prevHead
    deq,        \* the Dequeue the consumer is in: where, its tail, its next
    queue,      \* history: the elements exchanged in and not yet returned
    excuse,     \* history: an Enqueue overlapped with this Dequeue, or no element was there
    out         \* what the last Dequeue returned: {} when it returned false

qvars == <<head, tail, link, enq, deq, queue, excuse, out>>

Nodes == Elements \cup {Dummy}
Threads == Producers \cup {Consumer}

NoEnqueue == [at |-> "none", input |-> Nil, prevHead |-> Nil]
NoDequeue == [at |-> "none", tail |-> Nil, next |-> Nil]

QInit ==
    /\ head = Dummy
    /\ tail = Dummy
    /\ link = [n \in Nodes |-> Nil]
    /\ enq = [t \in Threads |-> NoEnqueue]
    /\ deq = NoDequeue
    /\ queue = << >>
    /\ excuse = FALSE
    /\ out = {}

-----------------------------------------------------------------------------
(* Enqueue *)

\* The call: input is thread-local until the exchange.
CallEnqueue(t, x) ==
    /\ enq[t] = NoEnqueue
    /\ enq' = [enq EXCEPT ![t] = [at |-> "store", input |-> x, prevHead |-> Nil]]
    /\ excuse' = (deq # NoDequeue)
    /\ UNCHANGED <<head, tail, link, deq, queue, out>>

\* input's link becomes nullptr.
StoreNull(t) ==
    /\ enq[t].at = "store"
    /\ link' = [link EXCEPT ![enq[t].input] = Nil]
    /\ enq' = [enq EXCEPT ![t].at = "exchange"]
    /\ UNCHANGED <<head, tail, deq, queue, excuse, out>>

\* prevHead = _head.exchange(input): the element takes its place in the order.
Exchange(t) ==
    /\ enq[t].at = "exchange"
    /\ head' = enq[t].input
    /\ enq' = [enq EXCEPT ![t].at = "link", ![t].prevHead = head]
    /\ queue' = IF enq[t].input = Dummy THEN queue ELSE Append(queue, enq[t].input)
    /\ UNCHANGED <<tail, link, deq, excuse, out>>

\* prevHead's link becomes input; Enqueue returns.
Link(t) ==
    /\ enq[t].at = "link"
    /\ link' = [link EXCEPT ![enq[t].prevHead] = enq[t].input]
    /\ enq' = [enq EXCEPT ![t] = NoEnqueue]
    /\ UNCHANGED <<head, tail, deq, queue, excuse, out>>

EnqueueStep(t) == StoreNull(t) \/ Exchange(t) \/ Link(t)

-----------------------------------------------------------------------------
(* Dequeue *)

\* An Enqueue of an element is under way.
Adding(t) == enq[t].at # "none" /\ enq[t].input # Dummy

\* The call: _tail and its link are loaded.
CallDequeue ==
    /\ deq = NoDequeue
    /\ enq[Consumer] = NoEnqueue
    /\ deq' = [at |-> "loaded", tail |-> tail, next |-> link[tail]]
    /\ excuse' = (queue = << >> \/ \E t \in Threads : Adding(t))
    /\ out' = {}
    /\ UNCHANGED <<head, tail, link, enq, queue>>

\* Dequeue returns false.
ReturnNothing ==
    /\ deq' = NoDequeue
    /\ excuse' = FALSE
    /\ UNCHANGED <<head, tail, link, enq, queue, out>>

\* Dequeue returns true: next becomes _tail, tail is the result.
ReturnElement(next) ==
    /\ tail' = next
    /\ out' = {deq.tail}
    /\ queue' = Tail(queue)
    /\ deq' = NoDequeue
    /\ excuse' = FALSE
    /\ UNCHANGED <<head, link, enq>>

\* The dummy is at the tail with nothing behind it.
DequeueEmpty ==
    /\ deq.at = "loaded"
    /\ deq.tail = Dummy
    /\ deq.next = Nil
    /\ ReturnNothing

\* The dummy is at the tail: it is taken out, the link of the next one is loaded.
DequeueDummy ==
    /\ deq.at = "loaded"
    /\ deq.tail = Dummy
    /\ deq.next # Nil
    /\ tail' = deq.next
    /\ deq' = [at |-> "skipped", tail |-> deq.next, next |-> link[deq.next]]
    /\ UNCHANGED <<head, link, enq, queue, excuse, out>>

\* The tail is an element.
AtElement == deq.at = "skipped" \/ (deq.at = "loaded" /\ deq.tail # Dummy)

\* It has a successor.
DequeueLinked ==
    /\ AtElement
    /\ deq.next # Nil
    /\ ReturnElement(deq.next)

\* It has none: a producer is between its exchange and its link, or the
\* element is the last one and the dummy must go behind it.
DequeueBusy ==
    /\ AtElement
    /\ deq.next = Nil
    /\ deq.tail # head
    /\ ReturnNothing

DequeueLast ==
    /\ AtElement
    /\ deq.next = Nil
    /\ deq.tail = head
    /\ enq' = [enq EXCEPT ![Consumer] = [at |-> "store", input |-> Dummy, prevHead |-> Nil]]
    /\ deq' = [deq EXCEPT !.at = "dummy"]
    /\ UNCHANGED <<head, tail, link, queue, excuse, out>>

\* Mutant: the element is returned although a producer got between it and the dummy.
MutDequeueAgain ==
    /\ deq.at = "dummy"
    /\ enq[Consumer] = NoEnqueue
    /\ ReturnElement(IF link[deq.tail] # Nil THEN link[deq.tail] ELSE Dummy)

\* Enqueue(_dummyPtr) has returned; the link of the tail is loaded again.
DequeueAgain ==
    /\ deq.at = "dummy"
    /\ enq[Consumer] = NoEnqueue
    /\ IF link[deq.tail] # Nil THEN ReturnElement(link[deq.tail]) ELSE ReturnNothing

DequeueStep ==
    \/ DequeueEmpty
    \/ DequeueDummy
    \/ DequeueLinked
    \/ DequeueBusy
    \/ DequeueLast
    \/ DequeueAgain

-----------------------------------------------------------------------------
(* The contract. *)

\* The queue seen by its users.
Contract == INSTANCE Fifo WITH
    Producers <- Threads,
    adding <- [t \in Threads |->
                 CASE ~Adding(t) -> "no"
                   [] Adding(t) /\ enq[t].at = "link" -> "added"
                   [] OTHER -> "called"],
    taking <- deq # NoDequeue

QTypeOK ==
    /\ head \in Nodes
    /\ tail \in Nodes
    /\ link \in [Nodes -> Nodes \cup {Nil}]
    /\ enq \in [Threads -> [at : {"none", "store", "exchange", "link"},
                            input : Nodes \cup {Nil}, prevHead : Nodes \cup {Nil}]]
    /\ deq \in [at : {"none", "loaded", "skipped", "dummy"},
                tail : Nodes \cup {Nil}, next : Nodes \cup {Nil}]
    /\ queue \in Seq(Elements)
    /\ excuse \in BOOLEAN
    /\ out \in SUBSET Elements
================================================================================
