--------------------------------- MODULE Fifo ----------------------------------
(***************************************************************************)
(* What an MPSCQueue promises its users: a first-in first-out queue with    *)
(* many producers and one consumer. An Enqueue takes effect at one moment   *)
(* between its call and its return. A Dequeue returns the oldest element,   *)
(* or nothing, and then it has an excuse: the queue was empty, or an        *)
(* Enqueue was under way, at some moment since the call.                    *)
(***************************************************************************)
EXTENDS Sequences

CONSTANTS Producers, Elements

VARIABLES
    queue,      \* the elements, oldest first
    adding,     \* where the Enqueue of a producer is
    taking,     \* a Dequeue is under way
    excuse,     \* it may return nothing
    out         \* what the last Dequeue returned: an element, as a set, or {}

vars == <<queue, adding, taking, excuse, out>>

Init ==
    /\ queue = << >>
    /\ adding = [p \in Producers |-> "no"]
    /\ taking = FALSE
    /\ excuse = FALSE
    /\ out = {}

CallEnqueue(p) ==
    /\ adding[p] = "no"
    /\ adding' = [adding EXCEPT ![p] = "called"]
    /\ excuse' = taking
    /\ UNCHANGED <<queue, taking, out>>

Enqueue(p, x) ==
    /\ adding[p] = "called"
    /\ adding' = [adding EXCEPT ![p] = "added"]
    /\ queue' = Append(queue, x)
    /\ UNCHANGED <<taking, excuse, out>>

ReturnEnqueue(p) ==
    /\ adding[p] = "added"
    /\ adding' = [adding EXCEPT ![p] = "no"]
    /\ UNCHANGED <<queue, taking, excuse, out>>

CallDequeue ==
    /\ ~taking
    /\ taking' = TRUE
    /\ excuse' = (queue = << >> \/ \E p \in Producers : adding[p] # "no")
    /\ out' = {}
    /\ UNCHANGED <<queue, adding>>

\* The oldest element is returned.
DequeueElement ==
    /\ taking
    /\ queue # << >>
    /\ out' = {Head(queue)}
    /\ queue' = Tail(queue)
    /\ taking' = FALSE
    /\ excuse' = FALSE
    /\ UNCHANGED adding

DequeueNothing ==
    /\ taking
    /\ excuse
    /\ taking' = FALSE
    /\ excuse' = FALSE
    /\ UNCHANGED <<queue, adding, out>>

Next ==
    \/ \E p \in Producers :
        \/ CallEnqueue(p)
        \/ \E x \in Elements : Enqueue(p, x)
        \/ ReturnEnqueue(p)
    \/ CallDequeue
    \/ DequeueElement
    \/ DequeueNothing

Spec == Init /\ [][Next]_vars
================================================================================
