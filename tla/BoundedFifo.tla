---------------------------- MODULE BoundedFifo -----------------------------
(***************************************************************************)
(* What a message queue promises: "Fully configurable FIFO message queues" *)
(* (README.md:58).  Nothing of pointers, tasks or waiting is left.         *)
(***************************************************************************)
EXTENDS Naturals, Sequences

CONSTANTS Queues, Messages, Capacity

VARIABLE items  \* messages put and not yet delivered, oldest first

Init == items = [q \in Queues |-> << >>]

Put(q, m) ==
    /\ Len(items[q]) < Capacity
    /\ items' = [items EXCEPT ![q] = Append(@, m)]

Get(q) ==
    /\ items[q] # << >>
    /\ items' = [items EXCEPT ![q] = Tail(@)]

Flush(q) == items' = [items EXCEPT ![q] = << >>]

Next ==
    \E q \in Queues :
        \/ \E m \in Messages : Put(q, m)
        \/ Get(q)
        \/ Flush(q)

Spec == Init /\ [][Next]_items

=============================================================================
