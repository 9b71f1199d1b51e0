------------------------------- MODULE MCSynch -------------------------------
(* Synch on small instances.                                               *)
EXTENDS Synch

CONSTANTS sem, lock, cond

OnePriority == {255}

OneSemaphore == [s \in Semaphores |-> 0]

OneLock == [k \in Conditions |-> lock]

\* The block of a new Lock may have held a list element that named a thread.
UsedHeap == Tid \cup {NULL}
=============================================================================
