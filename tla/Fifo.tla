-------------------------------- MODULE Fifo --------------------------------
(***************************************************************************)
(* What the queue of Kthread_Queue promises: records are allocated, each is*)
(* queued once, and they leave in the order they were queued; a record is  *)
(* given back exactly when it leaves the queue.                            *)
(***************************************************************************)
EXTENDS Sequences, Naturals

CONSTANT Records

VARIABLES fifo,   \* the queued records, oldest first
          live    \* the allocated records

Queued == {fifo[i] : i \in 1..Len(fifo)}

Init == fifo = <<>> /\ live = {}

Allocate(r) == r \notin live /\ live' = live \cup {r} /\ UNCHANGED fifo
Put(r) == r \in live \ Queued /\ fifo' = Append(fifo, r) /\ UNCHANGED live
Get == fifo # <<>> /\ fifo' = Tail(fifo) /\ live' = live \ {Head(fifo)}

Next == Get \/ \E r \in Records : Allocate(r) \/ Put(r)

Spec == Init /\ [][Next]_<<fifo, live>>
=============================================================================
