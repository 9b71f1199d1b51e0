-------------------------------- MODULE Synch --------------------------------
(***************************************************************************)
(* Semaphores, locks and condition variables (threads/synch.cc), on the    *)
(* thread package of module Threads.                                       *)
(*                                                                         *)
(* A routine is split where the interrupt level changes or the thread      *)
(* sleeps: frame[t] says how far into which routine t is, and holds the    *)
(* oldLevel locals that are on t's stack.  Code outside these routines     *)
(* ("client") runs with interrupts enabled, so the timer can take the      *)
(* processor there, and also between the P of Lock::Acquire and the        *)
(* assignment to holdingThread; inside the routines it cannot, because     *)
(* level is IntOff.                                                        *)
(*                                                                         *)
(* Clients keep the conventions of synch.h: they release a lock and wait   *)
(* on a condition only while they hold the lock, do not acquire a lock     *)
(* they hold, and give up their locks before they finish.                  *)
(***************************************************************************)
EXTENDS Threads, Functions

CONSTANTS
  Semaphores,    \* semaphores clients and interrupt handlers use directly
  Locks,
  Conditions,
  InitialValue,  \* the initialValue of each semaphore
  LockOf,        \* the lock that protects each condition
  HeapContents,  \* what a new Lock's uninitialized holdingThread may hold
  MaxValue       \* bound: V is not called on a semaphore at this value

\* A lock's semaphore goes by the lock's name.
Sema == Semaphores \cup Locks

ASSUME SynchAssumption ==
  /\ Semaphores \cap Locks = {}
  /\ InitialValue \in [Semaphores -> Nat]
  /\ LockOf \in [Conditions -> Locks]
  /\ HeapContents \subseteq Tid \cup {NULL}
  /\ MaxValue \in Nat
  /\ NULL \notin Sema \cup Conditions

VARIABLES
  value,          \* Semaphore::value
  queue,          \* Semaphore::queue
  locks,          \* the locks that have been constructed
  holdingThread,  \* Lock::holdingThread
  waitingQueue,   \* Condition::waitingQueue
  frame,          \* each thread's place in the routines of this module
  holds           \* the locks each client has acquired and not released

synchVars == <<value, queue, locks, holdingThread, waitingQueue, frame, holds>>

vars == <<threadVars, synchVars>>

Place == {"client", "P", "Acquired", "WaitRelease", "WaitAppend", "WaitSleep",
          "Broadcast"}

\* sem: the semaphore P was called on.  cond: the condition Wait or Broadcast
\* was called on.  pOld: P's oldLevel.  old: Wait's or Broadcast's oldLevel.
Frame == [at : Place, sem : Sema \cup {NULL}, cond : Conditions \cup {NULL},
          pOld : IntStatus, old : IntStatus]

ClientFrame == [at |-> "client", sem |-> NULL, cond |-> NULL,
                pOld |-> "IntOn", old |-> "IntOn"]

SynchInit ==
  /\ ThreadsInit
  /\ value = [s \in Sema |-> IF s \in Locks THEN 0 ELSE InitialValue[s]]
  /\ queue = [s \in Sema |-> << >>]
  /\ locks = {}
  /\ holdingThread = [l \in Locks |-> NULL]
  /\ waitingQueue = [k \in Conditions |-> << >>]
  /\ frame = [t \in Tid |-> ClientFrame]
  /\ holds = [t \in Tid |-> {}]

\* currentThread executes the routine and line p stands for.
At(p) == Running /\ frame[currentThread].at = p

me == frame[currentThread]

GoTo(f) == frame' = [frame EXCEPT ![currentThread] = f]

-----------------------------------------------------------------------------
(* Semaphore                                                               *)

LevelKept == level  \* mutant of LevelInP: interrupts are not disabled
LevelInP == "IntOff"

\* Semaphore::P disables interrupts.
PCall(s) ==
  /\ At("client")
  /\ s \in Semaphores \cup (locks \ holds[currentThread])
  /\ SetLevel(LevelInP)
  /\ GoTo([ClientFrame EXCEPT !.at = "P", !.sem = s, !.pOld = level])
  /\ UNCHANGED <<value, queue, locks, holdingThread, waitingQueue, holds>>

Available(s) == value[s] # 0

\* The loop of Semaphore::P: the value is zero, so queue up and sleep.  The
\* thread comes back to the test.
PSleep ==
  /\ At("P")
  /\ ~Available(me.sem)
  /\ queue' = [queue EXCEPT ![me.sem] = Append(@, currentThread)]
  /\ Sleep
  /\ UNCHANGED <<value, locks, holdingThread, waitingQueue, frame, holds>>

\* P's return: for a lock, the thread is then back in Lock::Acquire.
PReturn ==
  /\ IF me.sem \in Locks
     THEN /\ GoTo([me EXCEPT !.at = "Acquired"])
          /\ holds' = [holds EXCEPT ![currentThread] = @ \cup {me.sem}]
     ELSE /\ GoTo(ClientFrame)
          /\ UNCHANGED holds
  /\ UNCHANGED <<queue, locks, holdingThread, waitingQueue>>

ValueTaken == value[me.sem] - 1

LevelAfterP == me.pOld

\* The loop ends: consume the value and restore the level.
PTake ==
  /\ At("P")
  /\ Available(me.sem)
  /\ value' = [value EXCEPT ![me.sem] = ValueTaken]
  /\ SetLevel(LevelAfterP)
  /\ PReturn

\* List::Remove takes the waiter that is made ready off its queue.
NotRemoved(q) == q  \* mutant
Removed(q) == Tail(q)

\* Mutant of Waiter: V wakes a waiter only if the value was positive.
WaiterIfPositive(s) == value[s] > 0 /\ queue[s] # << >>
Waiter(s) == queue[s] # << >>

LevelOn == "IntOn"  \* mutant of LevelAfterV: not the saved level
LevelAfterV == level

\* Semaphore::V.  Interrupts are disabled and the saved level is restored, so
\* level is what it was.
V(s) ==
  /\ value' = [value EXCEPT ![s] = @ + 1]
  /\ IF Waiter(s)
     THEN /\ queue' = [queue EXCEPT ![s] = Removed(@)]
          /\ ReadyToRun(Head(queue[s]))
     ELSE UNCHANGED <<queue, status, readyList, priority, currentThread,
                      threadToBeDestroyed, mode>>
  /\ level' = LevelAfterV
  /\ UNCHANGED resume

ClientV(s) ==
  /\ At("client")
  /\ value[s] < MaxValue
  /\ V(s)
  /\ UNCHANGED <<locks, holdingThread, waitingQueue, frame, holds>>

\* V called by a device's interrupt handler: OneTick runs it while the
\* current thread has interrupts enabled, Idle while nothing is running.
HandlerV(s) ==
  /\ mode = "IdleMode" \/ (Running /\ level = "IntOn")
  /\ value[s] < MaxValue
  /\ V(s)
  /\ UNCHANGED <<locks, holdingThread, waitingQueue, frame, holds>>

-----------------------------------------------------------------------------
(* Lock                                                                    *)

\* Lock::Lock: the semaphore gets the value 1; holdingThread is not assigned.
NewLock(l) ==
  /\ At("client")
  /\ l \notin locks
  /\ locks' = locks \cup {l}
  /\ value' = [value EXCEPT ![l] = 1]
  /\ \E h \in HeapContents : holdingThread' = [holdingThread EXCEPT ![l] = h]
  /\ UNCHANGED <<threadVars, queue, waitingQueue, frame, holds>>

HolderNotSet == holdingThread[me.sem]  \* mutant of HolderAfterAcquire
HolderAfterAcquire == currentThread

\* Lock::Acquire after its P: record the holder and return, to the client or
\* to Condition::Wait, which then restores its own oldLevel.
SetHolder ==
  /\ At("Acquired")
  /\ holdingThread' = [holdingThread EXCEPT ![me.sem] = HolderAfterAcquire]
  /\ IF me.cond = NULL THEN UNCHANGED threadVars ELSE SetLevel(me.old)
  /\ GoTo(ClientFrame)
  /\ UNCHANGED <<value, queue, locks, waitingQueue, holds>>

HolderAfterRelease(l) == NULL

\* Lock::Release.  Nothing checks who calls it.
ReleaseBody(l) ==
  /\ holdingThread' = [holdingThread EXCEPT ![l] = HolderAfterRelease(l)]
  /\ V(l)
  /\ holds' = [holds EXCEPT ![currentThread] = @ \ {l}]

Release(l) ==
  /\ At("client")
  /\ l \in holds[currentThread]
  /\ ReleaseBody(l)
  /\ UNCHANGED <<locks, waitingQueue, frame>>

-----------------------------------------------------------------------------
(* Condition                                                               *)

\* Condition::Wait disables interrupts,
WaitCall(k) ==
  /\ At("client")
  /\ LockOf[k] \in holds[currentThread]
  /\ SetLevel("IntOff")
  /\ GoTo([ClientFrame EXCEPT !.at = "WaitRelease", !.cond = k, !.old = level])
  /\ UNCHANGED <<value, queue, locks, holdingThread, waitingQueue, holds>>

\* releases the lock,
WaitRelease ==
  /\ At("WaitRelease")
  /\ ReleaseBody(LockOf[me.cond])
  /\ GoTo([me EXCEPT !.at = "WaitAppend"])
  /\ UNCHANGED <<locks, waitingQueue>>

\* queues up and sleeps,
WaitSleep ==
  /\ At("WaitAppend")
  /\ waitingQueue' = [waitingQueue EXCEPT ![me.cond] =
                        Append(@, currentThread)]
  /\ Sleep
  /\ GoTo([me EXCEPT !.at = "WaitSleep"])
  /\ UNCHANGED <<value, queue, locks, holdingThread, holds>>

\* and, when it runs again, calls Acquire, whose P saves the disabled level.
WaitAcquire ==
  /\ At("WaitSleep")
  /\ SetLevel("IntOff")
  /\ GoTo([me EXCEPT !.at = "P", !.sem = LockOf[me.cond], !.pOld = level])
  /\ UNCHANGED <<value, queue, locks, holdingThread, waitingQueue, holds>>

\* Take the first thread off the condition's queue and make it ready.
WakeFirst(k) ==
  /\ waitingQueue[k] # << >>
  /\ waitingQueue' = [waitingQueue EXCEPT ![k] = Removed(@)]
  /\ ReadyToRun(Head(waitingQueue[k]))
  /\ UNCHANGED <<resume, level>>

\* Condition::Signal.  It returns without doing anything when the queue is
\* empty or when isHeldByCurrentThread is false.
Signal(k) ==
  /\ At("client")
  /\ holdingThread[LockOf[k]] = currentThread
  /\ WakeFirst(k)
  /\ UNCHANGED <<value, queue, locks, holdingThread, frame, holds>>

\* Condition::Broadcast: the test of isHeldByCurrentThread,
BroadcastCall(k) ==
  /\ At("client")
  /\ holdingThread[LockOf[k]] = currentThread
  /\ SetLevel("IntOff")
  /\ GoTo([ClientFrame EXCEPT !.at = "Broadcast", !.cond = k, !.old = level])
  /\ UNCHANGED <<value, queue, locks, holdingThread, waitingQueue, holds>>

\* one turn of its loop,
BroadcastWake ==
  /\ At("Broadcast")
  /\ WakeFirst(me.cond)
  /\ UNCHANGED <<value, queue, locks, holdingThread, frame, holds>>

\* and its return.
BroadcastReturn ==
  /\ At("Broadcast")
  /\ waitingQueue[me.cond] = << >>
  /\ SetLevel(me.old)
  /\ GoTo(ClientFrame)
  /\ UNCHANGED <<value, queue, locks, holdingThread, waitingQueue, holds>>

-----------------------------------------------------------------------------
(* The thread package's own operations, as the client calls them           *)

ClientThreads ==
  /\ At("client")
  /\ \/ \E p \in Priorities : NewThread(p)
     \/ \E t \in Tid : Fork(t)
     \/ holds[currentThread] = {} /\ Finish
  /\ UNCHANGED synchVars

MachineStep ==
  /\ TimerYield \/ Dispatch \/ (mode = "IdleMode" /\ Halt) \/ Stopped
  /\ UNCHANGED synchVars

InRoutine ==
  \/ PSleep \/ PTake \/ SetHolder
  \/ WaitRelease \/ WaitSleep \/ WaitAcquire
  \/ BroadcastWake \/ BroadcastReturn

SynchNext ==
  \/ \E s \in Sema : PCall(s)
  \/ \E s \in Semaphores : ClientV(s) \/ HandlerV(s)
  \/ \E l \in Locks : NewLock(l) \/ Release(l)
  \/ \E k \in Conditions : WaitCall(k) \/ Signal(k) \/ BroadcastCall(k)
  \/ InRoutine
  \/ ClientThreads
  \/ MachineStep

SynchSpec == SynchInit /\ [][SynchNext]_vars

\* A routine that has begun goes on whenever its thread has the processor, the
\* timer preempts a client in the end, and Sleep dispatches a ready thread.
SynchFairSpec ==
  /\ SynchSpec
  /\ WF_vars(InRoutine)
  /\ SF_vars(TimerYield /\ UNCHANGED synchVars)
  /\ WF_vars(Dispatch /\ UNCHANGED synchVars)

-----------------------------------------------------------------------------
(* Properties                                                              *)

\* Every variable holds a value of its C++ type; a semaphore's value is
\* "always >= 0" (synch.h).
SynchTypeOK ==
  /\ value \in [Sema -> Nat]
  /\ queue \in [Sema -> Seq(Tid)]
  /\ locks \subseteq Locks
  /\ holdingThread \in [Locks -> Tid \cup {NULL}]
  /\ waitingQueue \in [Conditions -> Seq(Tid)]
  /\ frame \in [Tid -> Frame]
  /\ holds \in [Tid -> SUBSET Locks]

\* Every sleeping thread is in the one queue that will wake it, once, and the
\* queues hold only sleeping threads: nobody sleeps without a waker, and no
\* waker makes a thread ready that is already ready, running or deleted.
QueuesExact ==
  /\ SynchTypeOK
  /\ \A s \in Sema :
       /\ Range(queue[s]) = {t \in Tid : /\ Asleep(t)
                                         /\ frame[t].at = "P"
                                         /\ frame[t].sem = s}
       /\ IsInjective(queue[s])
  /\ \A k \in Conditions :
       /\ Range(waitingQueue[k]) = {t \in Tid : /\ Asleep(t)
                                                /\ frame[t].at = "WaitSleep"
                                                /\ frame[t].cond = k}
       /\ IsInjective(waitingQueue[k])
  /\ \A t \in Tid : Asleep(t) => frame[t].at \in {"P", "WaitSleep"}

\* The threads V has taken off the queue of s and that have not yet tested the
\* value again.
Woken(s) == {t \in Tid : /\ frame[t].at = "P" /\ frame[t].sem = s
                         /\ status[t] \in {"READY", "RUNNING"}}

\* While threads wait on a semaphore, every unit of its value has a thread on
\* its way to P's test: no V is lost, although a thread that was not waiting
\* may take the unit first and send the woken one back to the queue.
NoLostWakeup ==
  \A s \in Sema :
    queue[s] # << >> => value[s] <= Cardinality(Woken(s))

\* A constructed lock is FREE (value 1) and nobody holds it, or BUSY (value 0)
\* and one thread holds it; and isHeldByCurrentThread is "true if the current
\* thread holds this lock" (synch.h) once Acquire has returned, whatever others
\* did between its P and its assignment and whatever a new Lock's memory held:
\* otherwise Signal and Broadcast would silently wake nobody.
MutualExclusion ==
  \A l \in locks :
    /\ value[l] + Cardinality({t \in Tid : l \in holds[t]}) = 1
    /\ \A t \in Tid :
         /\ l \in holds[t]
         /\ ~(frame[t].at = "Acquired" /\ frame[t].sem = l)
         => holdingThread[l] = t

\* "releasing the lock and going to sleep are *atomic* in Wait()" (synch.h):
\* a thread in the middle of Wait still has the processor, and no interrupt
\* can take it away, so no Signal falls in between.
WaitAtomic ==
  \A t \in Tid :
    frame[t].at \in {"WaitRelease", "WaitAppend"} =>
      Running /\ t = currentThread /\ level = "IntOff"

\* A semaphore does not keep both a value and waiters for ever: a thread that
\* V made ready tests the value again in the end.
SemaphoreProgress ==
  \A s \in Sema :
    (queue[s] # << >> /\ value[s] > 0) ~>
      (queue[s] = << >> \/ value[s] = 0 \/ ~Running)
=============================================================================
