------------------------------- MODULE Monitor -------------------------------
(***************************************************************************)
(* Locks and condition variables (threads/synch.cc) as their users see     *)
(* them.  Module Synch models their code down to the interrupt level; here *)
(* a call that returns without sleeping is one action, and a thread may    *)
(* lose the processor between any two of them.                             *)
(*                                                                         *)
(* pc[t] is the statement thread t executes next.  A thread in Wait is     *)
(* "asleep" until it is signalled, and then competes for the lock like     *)
(* everyone else before its Wait returns.                                  *)
(***************************************************************************)
EXTENDS Integers, Sequences

CONSTANTS Thread, Lock, Condition, None

ASSUME MonitorAssumption == None \notin Thread

VARIABLES
  holder,        \* the thread that acquired each lock last, or None
  waitingQueue,  \* Condition::waitingQueue
  pc

monitorVars == <<holder, waitingQueue, pc>>

MonitorInit(start) ==
  /\ holder = [l \in Lock |-> None]
  /\ waitingQueue = [c \in Condition |-> << >>]
  /\ pc = start

At(t, statement) == pc[t] = statement

Goto(t, statement) ==
  /\ pc' = [pc EXCEPT ![t] = statement]
  /\ UNCHANGED <<holder, waitingQueue>>

Acquire(t, l, next) ==
  /\ holder[l] = None
  /\ holder' = [holder EXCEPT ![l] = t]
  /\ pc' = [pc EXCEPT ![t] = next]
  /\ UNCHANGED waitingQueue

\* The code does not test that the caller holds the lock.
Release(t, l, next) ==
  /\ holder' = [holder EXCEPT ![l] = None]
  /\ pc' = [pc EXCEPT ![t] = next]
  /\ UNCHANGED waitingQueue

\* Condition::Wait up to its Sleep.
Wait(t, c, l) ==
  /\ holder' = [holder EXCEPT ![l] = None]
  /\ waitingQueue' = [waitingQueue EXCEPT ![c] = Append(@, t)]
  /\ pc' = [pc EXCEPT ![t] = "asleep"]

\* The Acquire in which a signalled thread's Wait ends.
EndOfWait(t, l, next) == At(t, "woken") /\ Acquire(t, l, next)

\* Condition::Signal by t, which does nothing if t does not hold the lock.
Signal(t, c, l, next) ==
  IF holder[l] = t /\ waitingQueue[c] # << >>
  THEN /\ waitingQueue' = [waitingQueue EXCEPT ![c] = Tail(@)]
       /\ pc' = [pc EXCEPT ![Head(waitingQueue[c])] = "woken", ![t] = next]
       /\ UNCHANGED holder
  ELSE Goto(t, next)

\* Condition::Broadcast.
Broadcast(t, c, l, next) ==
  IF holder[l] = t
  THEN /\ waitingQueue' = [waitingQueue EXCEPT ![c] = << >>]
       /\ pc' = [u \in Thread |->
                   IF u = t THEN next
                   ELSE IF \E i \in 1 .. Len(waitingQueue[c]) :
                             waitingQueue[c][i] = u
                   THEN "woken" ELSE pc[u]]
       /\ UNCHANGED holder
  ELSE Goto(t, next)

=============================================================================
