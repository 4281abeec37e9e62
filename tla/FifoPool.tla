------------------------------ MODULE FifoPool ------------------------------
(***************************************************************************)
(* What a rate-limited client promises the callers of its fetch(): at most *)
(* Capacity requests run at once, the others wait in arrival order, and no *)
(* request waits while a slot is free.  A slot freed by one request passes *)
(* to the first waiting one in the same step.                              *)
(***************************************************************************)
EXTENDS Integers, Sequences, FiniteSets

CONSTANTS Requests, Capacity

VARIABLES running, queue, finished

poolVars == <<running, queue, finished>>

Known == running \cup finished \cup {queue[i] : i \in 1 .. Len(queue)}

PoolInit ==
    /\ running = {}
    /\ queue = <<>>
    /\ finished = {}

Enter(r) ==
    /\ r \notin Known
    /\ UNCHANGED finished
    /\ \/ /\ Cardinality(running) < Capacity
          /\ queue = <<>>
          /\ running' = running \cup {r}
          /\ UNCHANGED queue
       \/ /\ Cardinality(running) >= Capacity
          /\ queue' = Append(queue, r)
          /\ UNCHANGED running

Leave(r) ==
    /\ r \in running
    /\ finished' = finished \cup {r}
    /\ \/ /\ queue = <<>>
          /\ running' = running \ {r}
          /\ UNCHANGED queue
       \/ /\ queue # <<>>
          /\ running' = (running \ {r}) \cup {Head(queue)}
          /\ queue' = Tail(queue)

PoolNext == \E r \in Requests : Enter(r) \/ Leave(r)

PoolSpec == PoolInit /\ [][PoolNext]_poolVars
=============================================================================
