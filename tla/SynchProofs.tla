----------------------------- MODULE SynchProofs -----------------------------
(***************************************************************************)
(* The safety of semaphores, locks and condition variables, for any number *)
(* of threads, semaphores, locks and conditions and any contents of the    *)
(* heap, and that the routines use the thread package only in the ways it  *)
(* allows.  SynchPlaces has the inductive invariant, this module the steps *)
(* that keep it: the calls, V and what releases and wakes, a new lock, the *)
(* operations on threads, then P and the sleep of Wait.                    *)
(***************************************************************************)
EXTENDS SynchPlaces

\* The parts of SynchInv next to that of the thread package.
Rest == /\ QueuesExact
        /\ Placed(status, resume, frame) /\ LevelFits
        /\ FramesFit /\ Mutex
        /\ NoLostWakeup

\* Only the frame and the locks of the thread c change, and they fit.
LEMMA FramesKept ==
  ASSUME FramesFit, locks \subseteq locks', NEW c \in Tid,
         \A t \in Tid \ {c} : frame'[t] = frame[t] /\ holds'[t] = holds[t],
         FrameFits(frame[c], holds[c])'
  PROVE  FramesFit'
<1>1. ASSUME NEW t \in Tid \ {c} PROVE FrameFits(frame[t], holds[t])'
  BY DEF FramesFit, FrameFits
<1> QED BY <1>1, Zenon DEF FramesFit

\* Nobody takes or gives back a lock.
LEMMA MutexKept ==
  ASSUME Mutex, UNCHANGED <<locks, holds, holdingThread>>,
         \A l \in locks : value'[l] = value[l],
         \A t \in Tid : frame[t].at = "Acquired" => frame'[t] = frame[t]
  PROVE  Mutex'
BY DEF Mutex

\* A step of the current thread, outside P, to another place.
LEMMA FrameStep ==
  ASSUME SynchInv, Running, me.at # "P", NEW f \in Frame, GoTo(f),
         UNCHANGED <<status, resume, currentThread, mode, value, queue,
                     waitingQueue>>,
         SynchTypeOK', level' = "IntOn" <=> Preemptible(f)
  PROVE  /\ Placed(status, resume, frame)' /\ LevelFits'
         /\ QueuesExact' /\ NoLostWakeup'
         /\ currentThread \in Tid /\ frame'[currentThread] = f
         /\ \A t \in Tid \ {currentThread} : frame'[t] = frame[t]
<1>1. /\ ThreadsInv /\ QueuesExact /\ NoLostWakeup
      /\ frame \in [Tid -> Frame] /\ value \in [Sema -> Nat]
  BY Zenon DEF SynchInv, QueuesExact, SynchTypeOK
<1>2. currentThread \in Tid /\ ~Asleep(currentThread)
  BY <1>1, Current, Zenon
<1>3. /\ frame'[currentThread] = f
      /\ \A t \in Tid \ {currentThread} : frame'[t] = frame[t]
  BY <1>1, <1>2, Zenon DEF GoTo
<1>4. \A t \in Tid : Asleep(t)' <=> Asleep(t)
  BY Zenon DEF Asleep
<1>5. Placed(status, resume, frame)' /\ LevelFits'
  <2>1. \E g : frame' = [frame EXCEPT ![currentThread] = g]
    BY Zenon DEF GoTo
  <2> QED BY <1>3, <2>1, PlacesKept, Zenon
<1>6. QueuesExact'
  BY <1>1, <1>2, <1>3, <1>4, QueuesKept, ZenonT(30)
<1>7. NoLostWakeup'
  <2>1. ASSUME NEW s \in Sema, NEW t \in Woken(s) PROVE t \in Woken(s)'
    BY <1>3, Zenon DEF Woken, me
  <2>2. ASSUME NEW s \in Sema
        PROVE  queue'[s] # << >> => value'[s] <= Cardinality(Woken(s)')
    BY <1>1, <2>1, WokenKept, ZenonT(30)
  <2> QED BY <2>2, Zenon DEF NoLostWakeup
<1> QED BY <1>2, <1>3, <1>5, <1>6, <1>7, ZenonT(30)

\* A call or a return that only changes the level and the current thread's
\* place, to one that fits.
LEMMA CallKeeps ==
  ASSUME SynchInv, Running, me.at \notin {"P", "Acquired"},
         NEW f \in Frame, GoTo(f), NEW now, SetLevel(now),
         now = "IntOn" <=> Preemptible(f), FrameFits(f, holds[currentThread]),
         UNCHANGED <<value, queue, locks, holdingThread, waitingQueue, holds>>
  PROVE  Rest'
<1>1. UNCHANGED <<status, resume, currentThread, mode>> /\ level' = now
  BY Zenon DEF SetLevel
<1>2. FramesFit /\ Mutex /\ SynchTypeOK
  BY Zenon DEF SynchInv, QueuesExact
<1>3. SynchTypeOK'
  BY <1>2, Zenon DEF SynchTypeOK, GoTo
<1>4. /\ Placed(status, resume, frame)' /\ LevelFits'
      /\ QueuesExact' /\ NoLostWakeup'
      /\ currentThread \in Tid /\ frame'[currentThread] = f
      /\ \A t \in Tid \ {currentThread} : frame'[t] = frame[t]
  BY <1>1, <1>3, FrameStep, Zenon
<1>5. Mutex'
  BY <1>2, <1>4, MutexKept, Zenon DEF me
<1>6. FrameFits(frame[currentThread], holds[currentThread])'
  BY <1>1, <1>4, Zenon DEF FrameFits
<1>7. FramesFit'
  BY <1>1, <1>2, <1>4, <1>6, FramesKept, ZenonT(30)
<1> QED BY <1>4, <1>5, <1>7, Zenon DEF Rest

\* A return to the client fits.
LEMMA ClientFrameFits ==
  ASSUME NEW held, held \subseteq locks
  PROVE  ClientFrame \in Frame /\ FrameFits(ClientFrame, held) /\ Preemptible(ClientFrame)
BY Zenon DEF ClientFrame, Frame, Place, IntStatus, FrameFits, Preemptible

\* The current thread's frame and locks, with the assumptions on constants.
LEMMA ClientHolds ==
  ASSUME SynchInv, Running
  PROVE  /\ FrameFits(me, holds[currentThread])
         /\ holds[currentThread] \subseteq locks /\ locks \subseteq Locks
         /\ Semaphores \cap Locks = {} /\ NULL \notin Conditions
         /\ LockOf \in [Conditions -> Locks]
<1>1. currentThread \in Tid
  BY Inside, Zenon
<1> QED BY <1>1, SynchAssumption, Zenon DEF SynchInv, QueuesExact, SynchTypeOK, FramesFit, FrameFits, me

\* A client calls P or Acquire.
LEMMA PCallKeeps ==
  ASSUME SynchInv, NEW s \in Sema, PCall(s)
  PROVE  Rest'
<1> DEFINE f == [ClientFrame EXCEPT !.at = "P", !.sem = s, !.pOld = level]
<1>1. /\ Running /\ me.at = "client" /\ GoTo(f) /\ SetLevel("IntOff")
      /\ s \in Semaphores \cup (locks \ holds[currentThread])
      /\ UNCHANGED <<value, queue, locks, holdingThread, waitingQueue, holds>>
  BY Zenon DEF PCall, LevelInP, At, me
<1>2. level = "IntOn"
  BY <1>1, Inside, Zenon
<1>3. /\ f \in Frame /\ f.at = "P" /\ f.sem = s /\ f.cond = NULL
      /\ f.pOld = "IntOn" /\ f.old = "IntOn"
  BY <1>2, Zenon DEF ClientFrame, Frame, Place, IntStatus
<1> HIDE DEF f
<1>4. FrameFits(f, holds[currentThread])
  BY <1>1, <1>3, ClientHolds, ZenonT(30) DEF FrameFits
<1> QED BY <1>1, <1>3, <1>4, CallKeeps, ZenonT(30) DEF Preemptible

\* A client calls Wait or Broadcast.
LEMMA ConditionCallKeeps ==
  ASSUME SynchInv, NEW k \in Conditions, WaitCall(k) \/ BroadcastCall(k)
  PROVE  Rest'
<1> DEFINE f(p) == [ClientFrame EXCEPT !.at = p, !.cond = k, !.old = level]
<1>1. /\ Running /\ me.at = "client" /\ SetLevel("IntOff")
      /\ \/ GoTo(f("WaitRelease")) /\ LockOf[k] \in holds[currentThread]
         \/ GoTo(f("Broadcast"))
      /\ UNCHANGED <<value, queue, locks, holdingThread, waitingQueue, holds>>
  BY Zenon DEF WaitCall, BroadcastCall, At, me
<1>2. level = "IntOn"
  BY <1>1, Inside, Zenon
<1>3. ASSUME NEW p \in {"WaitRelease", "Broadcast"}
      PROVE  /\ f(p) \in Frame /\ f(p).at = p /\ f(p).cond = k /\ f(p).old = "IntOn"
  BY <1>2, Zenon DEF ClientFrame, Frame, Place, IntStatus
<1> HIDE DEF f
<1>4. CASE GoTo(f("WaitRelease")) /\ LockOf[k] \in holds[currentThread]
  <2>1. FrameFits(f("WaitRelease"), holds[currentThread])
    BY <1>1, <1>3, <1>4, ClientHolds, ZenonT(30) DEF FrameFits
  <2> QED BY <1>1, <1>3, <1>4, <2>1, CallKeeps, ZenonT(30) DEF Preemptible
<1>5. CASE GoTo(f("Broadcast"))
  <2>1. FrameFits(f("Broadcast"), holds[currentThread])
    BY <1>1, <1>3, ClientHolds, ZenonT(30) DEF FrameFits
  <2> QED BY <1>1, <1>3, <1>5, <2>1, CallKeeps, ZenonT(30) DEF Preemptible
<1> QED BY <1>1, <1>4, <1>5, Zenon

\* Broadcast's queue is empty and it returns.
LEMMA BroadcastReturnKeeps ==
  ASSUME SynchInv, BroadcastReturn
  PROVE  Rest'
<1>1. /\ Running /\ me.at = "Broadcast" /\ GoTo(ClientFrame) /\ SetLevel(me.old)
      /\ UNCHANGED <<value, queue, locks, holdingThread, waitingQueue, holds>>
  BY Zenon DEF BroadcastReturn, At, me
<1>2. me.old = "IntOn"
  BY <1>1, Inside, Zenon
<1>3. /\ ClientFrame \in Frame /\ FrameFits(ClientFrame, holds[currentThread])
      /\ Preemptible(ClientFrame)
  BY <1>1, ClientHolds, ClientFrameFits, Zenon
<1> QED BY <1>1, <1>2, <1>3, CallKeeps, ZenonT(30)

\* A woken waiter calls Acquire inside Wait.
LEMMA WaitAcquireKeeps ==
  ASSUME SynchInv, WaitAcquire
  PROVE  Rest'
<1> DEFINE f == [me EXCEPT !.at = "P", !.sem = LockOf[me.cond], !.pOld = level]
<1>1. /\ Running /\ me.at = "WaitSleep" /\ GoTo(f) /\ SetLevel("IntOff")
      /\ UNCHANGED <<value, queue, locks, holdingThread, waitingQueue, holds>>
  BY Zenon DEF WaitAcquire, At, me
<1>2. /\ me \in Frame /\ level = "IntOff" /\ me.cond \in Conditions
      /\ me.old = "IntOn" /\ LockOf[me.cond] \in Sema
  BY <1>1, Inside, ClientHolds, ZenonT(30) DEF Sema
<1>3. /\ f \in Frame /\ f.at = "P" /\ f.sem = LockOf[me.cond] /\ f.cond = me.cond
      /\ f.pOld = "IntOff" /\ f.old = "IntOn"
  BY <1>2, Zenon DEF Frame, Place, IntStatus
<1> HIDE DEF f
<1>4. FrameFits(f, holds[currentThread])
  BY <1>1, <1>2, <1>3, ClientHolds, ZenonT(30) DEF FrameFits
<1> QED BY <1>1, <1>3, <1>4, CallKeeps, ZenonT(30) DEF Preemptible

\* Lock::Acquire records the holder and returns.
LEMMA SetHolderKeeps ==
  ASSUME SynchInv, SetHolder
  PROVE  Rest'
<1>1. /\ Running /\ me.at = "Acquired" /\ GoTo(ClientFrame)
      /\ holdingThread' = [holdingThread EXCEPT ![me.sem] = currentThread]
      /\ UNCHANGED <<status, resume, currentThread, mode, value, queue, locks,
                     waitingQueue, holds>>
  BY Zenon DEF SetHolder, HolderAfterAcquire, SetLevel, threadVars, At, me
<1>2. level' = "IntOn"
  BY <1>1, Inside, ZenonT(30) DEF SetHolder, SetLevel, threadVars
<1>3. FramesFit /\ Mutex /\ SynchTypeOK /\ currentThread \in Tid
  BY <1>1, Inside, Zenon DEF SynchInv, QueuesExact
<1>4. /\ ClientFrame \in Frame /\ FrameFits(ClientFrame, holds[currentThread])
      /\ Preemptible(ClientFrame) /\ ClientFrame.at = "client"
  BY <1>1, ClientHolds, ClientFrameFits, Zenon DEF ClientFrame
<1>5. me.sem \in holds[currentThread] /\ me.sem \in Locks
  BY <1>1, ClientHolds, Zenon DEF FrameFits
<1>6. SynchTypeOK'
  BY <1>1, <1>3, <1>4, <1>5, ZenonT(30) DEF SynchTypeOK, GoTo
<1>7. /\ Placed(status, resume, frame)' /\ LevelFits'
      /\ QueuesExact' /\ NoLostWakeup'
      /\ frame'[currentThread] = ClientFrame
      /\ \A t \in Tid \ {currentThread} : frame'[t] = frame[t]
  BY <1>1, <1>2, <1>4, <1>6, FrameStep, ZenonT(30)
<1>8. Mutex'
  <2>1. \A l \in Locks : holdingThread'[l] =
          IF l = me.sem THEN currentThread ELSE holdingThread[l]
    BY <1>1, <1>3, Zenon DEF SynchTypeOK
  <2>2. ASSUME NEW l \in locks, NEW t \in Tid, l \in holds[t],
               ~(frame'[t].at = "Acquired" /\ frame'[t].sem = l)
        PROVE  holdingThread'[l] = t
    <3>1. l \in Locks
      BY <1>3, Zenon DEF SynchTypeOK
    <3>2. CASE l = me.sem
      BY <1>3, <1>5, <2>1, <2>2, <3>1, <3>2, ZenonT(30) DEF Mutex
    <3>3. CASE l # me.sem
      BY <1>3, <1>7, <2>1, <2>2, <3>1, <3>3, ZenonT(30) DEF Mutex, me
    <3> QED BY <3>2, <3>3, Zenon
  <2> QED BY <1>1, <1>3, <2>2, ZenonT(30) DEF Mutex
<1>9. FrameFits(frame[currentThread], holds[currentThread])'
  BY <1>1, <1>4, <1>7, ZenonT(30) DEF FrameFits
<1>10. FramesFit'
  BY <1>1, <1>3, <1>7, <1>9, FramesKept, ZenonT(30)
<1> QED BY <1>7, <1>8, <1>10, Zenon DEF Rest

\* Semaphore::V on s, called by the current thread or by an interrupt handler.
LEMMA VKeepsQueues ==
  ASSUME SynchInv, NEW s \in Sema, V(s), Running \/ mode = "IdleMode",
         SynchTypeOK', waitingQueue' = waitingQueue,
         \/ frame' = frame
         \/ /\ Running /\ me.at # "P"
            /\ \E f : frame' = [frame EXCEPT ![currentThread] = f]
            /\ level = "IntOn" <=> Preemptible(frame'[currentThread])
  PROVE  /\ Placed(status, resume, frame)' /\ LevelFits'
         /\ QueuesExact' /\ NoLostWakeup'
<1> DEFINE w == Head(queue[s])
<1>1. /\ ThreadsInv /\ QueuesExact /\ NoLostWakeup
      /\ frame \in [Tid -> Frame] /\ value \in [Sema -> Nat]
      /\ queue \in [Sema -> Seq(Tid)] /\ status \in [Tid -> ThreadStatus]
  BY Zenon DEF SynchInv, QueuesExact, SynchTypeOK, ThreadsInv, ThreadsTypeOK
<1>2. /\ value' = [value EXCEPT ![s] = @ + 1]
      /\ UNCHANGED <<resume, level, currentThread, mode>>
      /\ queue[s] # << >> => /\ queue' = [queue EXCEPT ![s] = Tail(@)]
                             /\ status' = [status EXCEPT ![w] = "READY"]
      /\ queue[s] = << >> => UNCHANGED <<queue, status>>
  BY Zenon DEF V, Waiter, Removed, ReadyToRun, LevelAfterV
<1>3. queue[s] # << >> =>
        w \in Tid /\ Asleep(w) /\ frame[w].at = "P" /\ frame[w].sem = s
  BY <1>1, HeadAsleep, Zenon
<1> HIDE DEF w
<1>4. /\ \A t \in Tid : Asleep(t) => frame'[t] = frame[t]
      /\ \A t \in Tid : frame[t].at = "P" => frame'[t] = frame[t]
  <2>1. CASE frame' = frame
    BY <2>1, Zenon
  <2>2. CASE /\ Running /\ me.at # "P"
             /\ \E f : frame' = [frame EXCEPT ![currentThread] = f]
    <3>1. ~Asleep(currentThread) /\ currentThread \in Tid
      BY <1>1, <2>2, Current, ZenonT(30)
    <3> QED BY <1>1, <2>2, <3>1, ZenonT(30) DEF me
  <2> QED BY <2>1, <2>2, Zenon
<1>5. \A t \in Tid : status'[t] = status[t] \/ (Asleep(t) /\ status'[t] = "READY")
  BY <1>1, <1>2, <1>3, ZenonT(30)
<1>6. Placed(status, resume, frame)' /\ LevelFits'
  BY <1>2, <1>5, PlacesKept, ZenonT(30)
<1>7. QueuesExact'
  <2>1. CASE queue[s] # << >>
    <3>1. \A t \in Tid : Asleep(t)' <=> Asleep(t) /\ t # Head(queue[s])
      BY <1>1, <1>2, <1>3, <2>1, ZenonT(30) DEF Asleep, w
    <3> QED BY <1>1, <1>2, <1>4, <2>1, <3>1, SemaphoreWakes, Zenon
  <2>2. CASE queue[s] = << >>
    <3>1. \A t \in Tid : Asleep(t)' <=> Asleep(t)
      BY <1>2, <2>2, Zenon DEF Asleep
    <3> QED BY <1>1, <1>2, <1>4, <2>2, <3>1, QueuesKept, ZenonT(30)
  <2> QED BY <2>1, <2>2, Zenon
<1>8. NoLostWakeup'
  <2>1. ASSUME NEW r \in Sema, NEW t \in Woken(r) PROVE t \in Woken(r)'
    BY <1>4, <1>5, Zenon DEF Woken
  <2>2. ASSUME NEW r \in Sema, r # s
        PROVE  queue'[r] # << >> => value'[r] <= Cardinality(Woken(r)')
    <3>1. value'[r] = value[r] /\ queue'[r] = queue[r] /\ value[r] \in Nat
      BY <1>1, <1>2, <2>2, ZenonT(30)
    <3> QED BY <1>1, <2>1, <3>1, WokenKept, ZenonT(30)
  <2>3. ASSUME queue'[s] # << >>
        PROVE  value'[s] <= Cardinality(Woken(s)')
    <3>1. queue[s] # << >> /\ value'[s] = value[s] + 1 /\ value[s] \in Nat
      BY <1>1, <1>2, <2>3, ZenonT(30)
    <3>2. w \in Woken(s)' /\ w \notin Woken(s)
      BY <1>1, <1>2, <1>3, <1>4, <3>1, ZenonT(30) DEF Woken, Asleep
    <3>3. /\ Woken(s)' \in SUBSET Tid /\ Woken(s) \in SUBSET Tid
          /\ Woken(s) \cup {w} \in SUBSET (Woken(s)')
      BY <2>1, <3>2, ZenonT(30) DEF Woken
    <3>4. IsFiniteSet(Woken(s))
      BY <3>3, TidFinite, FS_Subset, ZenonT(30)
    <3>5. Cardinality(Woken(s) \cup {w}) = Cardinality(Woken(s)) + 1
      BY <3>2, <3>4, FS_AddElement, Zenon
    <3>6. /\ Cardinality(Woken(s)) \in Nat /\ Cardinality(Woken(s)') \in Nat
          /\ Cardinality(Woken(s) \cup {w}) <= Cardinality(Woken(s)')
      BY <3>3, SubsetCard, Zenon
    <3>7. value[s] <= Cardinality(Woken(s))
      BY <1>1, <3>1, Zenon DEF NoLostWakeup
    <3> QED BY <3>1, <3>5, <3>6, <3>7, SMTT(30)
  <2> QED BY <2>2, <2>3, Zenon DEF NoLostWakeup
<1> QED BY <1>6, <1>7, <1>8, ZenonT(30)

\* What V does to the value and the queue.
LEMMA VTypes ==
  ASSUME QueuesExact, NEW s \in Sema, V(s)
  PROVE  /\ value' = [value EXCEPT ![s] = value[s] + 1]
         /\ value' \in [Sema -> Nat] /\ queue' \in [Sema -> Seq(Tid)]
<1>1. value \in [Sema -> Nat] /\ queue \in [Sema -> Seq(Tid)]
  BY Zenon DEF QueuesExact, SynchTypeOK
<1>2. value' = [value EXCEPT ![s] = value[s] + 1]
  BY Zenon DEF V
<1>3. value' \in [Sema -> Nat]
  BY <1>1, <1>2
<1>4. CASE queue[s] # << >>
  <2>1. Tail(queue[s]) \in Seq(Tid)
    BY <1>1, <1>4, QueueTake, ZenonT(30) DEF QueuesExact
  <2>2. queue' = [queue EXCEPT ![s] = Tail(queue[s])]
    BY <1>4, Zenon DEF V, Waiter, Removed
  <2> QED BY <1>1, <1>2, <1>3, <2>1, <2>2, ZenonT(30)
<1>5. CASE queue[s] = << >>
  BY <1>1, <1>2, <1>3, <1>5, ZenonT(30) DEF V, Waiter
<1> QED BY <1>4, <1>5, Zenon

\* V on a client's semaphore.
LEMMA ClientVKeeps ==
  ASSUME SynchInv, NEW s \in Semaphores, ClientV(s) \/ HandlerV(s)
  PROVE  Rest'
<1>1. /\ V(s) /\ s \in Sema /\ (Running \/ mode = "IdleMode")
      /\ UNCHANGED <<locks, holdingThread, waitingQueue, frame, holds>>
  BY Zenon DEF ClientV, HandlerV, At, Sema
<1>2. FramesFit /\ Mutex /\ SynchTypeOK /\ QueuesExact
  BY Zenon DEF SynchInv, QueuesExact
<1>3. /\ value' = [value EXCEPT ![s] = value[s] + 1]
      /\ value' \in [Sema -> Nat] /\ queue' \in [Sema -> Seq(Tid)]
  BY <1>1, <1>2, VTypes, Zenon
<1>5. SynchTypeOK'
  BY <1>1, <1>2, <1>3, ZenonT(30) DEF SynchTypeOK
<1>6. /\ Placed(status, resume, frame)' /\ LevelFits'
      /\ QueuesExact' /\ NoLostWakeup'
  BY <1>1, <1>5, VKeepsQueues, ZenonT(30)
<1>7. Mutex'
  <2>1. \A l \in locks : value'[l] = value[l]
    BY <1>2, <1>3, SynchAssumption, ZenonT(30) DEF SynchTypeOK, Sema
  <2> QED BY <1>1, <1>2, <2>1, MutexKept, ZenonT(30)
<1>8. FramesFit'
  BY <1>1, <1>2, Zenon DEF FramesFit, FrameFits
<1> QED BY <1>6, <1>7, <1>8, Zenon DEF Rest

\* Lock::Release, called by a client or by Condition::Wait.
LEMMA ReleaseBodyKeeps ==
  ASSUME SynchInv, Running, NEW l \in holds[currentThread], ReleaseBody(l),
         UNCHANGED <<locks, waitingQueue>>, frame' \in [Tid -> Frame],
         \/ me.at = "client" /\ frame' = frame
         \/ /\ me.at = "WaitRelease" /\ frame'[currentThread].at = "WaitAppend"
            /\ \E f : frame' = [frame EXCEPT ![currentThread] = f],
         FrameFits(frame'[currentThread], holds[currentThread] \ {l})
  PROVE  Rest'
<1>1. /\ V(l)
      /\ holdingThread' = [holdingThread EXCEPT ![l] = NULL]
      /\ holds' = [holds EXCEPT ![currentThread] = @ \ {l}]
  BY Zenon DEF ReleaseBody, HolderAfterRelease
<1>2. FramesFit /\ Mutex /\ SynchTypeOK /\ QueuesExact
  BY Zenon DEF SynchInv, QueuesExact
<1>3. currentThread \in Tid /\ l \in locks /\ l \in Locks /\ l \in Sema
  BY Inside, ClientHolds, Zenon DEF Sema
<1>4. /\ value' = [value EXCEPT ![l] = value[l] + 1]
      /\ value' \in [Sema -> Nat] /\ queue' \in [Sema -> Seq(Tid)]
  BY <1>1, <1>2, <1>3, VTypes, ZenonT(30)
<1>5. /\ holds'[currentThread] = holds[currentThread] \ {l}
      /\ \A t \in Tid \ {currentThread} : holds'[t] = holds[t]
      /\ holds' \in [Tid -> SUBSET Locks]
  BY <1>1, <1>2, <1>3, ZenonT(30) DEF SynchTypeOK
<1>6. SynchTypeOK'
  BY <1>1, <1>2, <1>3, <1>4, <1>5, ZenonT(30) DEF SynchTypeOK
<1>7. /\ Placed(status, resume, frame)' /\ LevelFits'
      /\ QueuesExact' /\ NoLostWakeup'
  <2>1. CASE frame' = frame
    BY <1>1, <1>3, <1>6, <2>1, VKeepsQueues, ZenonT(30)
  <2>2. CASE /\ me.at = "WaitRelease" /\ frame'[currentThread].at = "WaitAppend"
             /\ \E f : frame' = [frame EXCEPT ![currentThread] = f]
    <3>1. level = "IntOff"
      BY <2>2, Inside, Zenon
    <3> QED BY <1>1, <1>3, <1>6, <2>2, <3>1, VKeepsQueues, Zenon DEF Preemptible
  <2> QED BY <2>1, <2>2, Zenon
<1>8. \A t \in Tid \ {currentThread} : frame'[t] = frame[t]
  BY <1>2, <1>3, Zenon DEF SynchTypeOK
<1>9. FramesFit'
  <2>1. currentThread' = currentThread
    BY <1>1, Zenon DEF V, ReadyToRun
  <2>2. FrameFits(frame[currentThread], holds[currentThread])'
    BY <1>5, <2>1, Zenon DEF FrameFits
  <2> QED BY <1>2, <1>3, <1>5, <1>8, <2>1, <2>2, FramesKept, ZenonT(30)
<1>10. Mutex'
  <2>1. ASSUME NEW t \in Tid PROVE l \notin holds'[t]
    BY <1>2, <1>3, <1>5, ZenonT(30) DEF Mutex
  <2>2. value[l] = 0
    BY <1>2, <1>3, Zenon DEF Mutex
  <2>3. value'[l] = 1
    BY <1>2, <1>3, <1>4, <2>2, SMTT(30) DEF SynchTypeOK
  <2>4. ASSUME NEW m \in locks, m # l
        PROVE  /\ value'[m] = value[m] /\ holdingThread'[m] = holdingThread[m]
               /\ \A t \in Tid : m \in holds'[t] <=> m \in holds[t]
    BY <1>1, <1>2, <1>3, <1>4, <1>5, <2>4, ZenonT(30) DEF SynchTypeOK, Sema
  <2>5. \A t \in Tid : frame[t].at = "Acquired" => frame'[t] = frame[t]
    BY <1>8, Zenon DEF me
  <2>6. ASSUME NEW m \in locks
        PROVE  /\ value'[m] \in {0, 1}
               /\ value'[m] = 1 <=> \A t \in Tid : m \notin holds'[t]
               /\ \A t, u \in Tid : m \in holds'[t] /\ m \in holds'[u] => t = u
               /\ \A t \in Tid :
                    /\ m \in holds'[t]
                    /\ ~(frame'[t].at = "Acquired" /\ frame'[t].sem = m)
                    => holdingThread'[m] = t
    <3>1. CASE m = l
      BY <2>1, <2>3, <3>1, ZenonT(30)
    <3>2. CASE m # l
      BY <1>2, <2>4, <2>5, <3>2, SMTT(30) DEF Mutex
    <3> QED BY <3>1, <3>2, Zenon
  <2> QED BY <2>6, Zenon DEF Mutex
<1> QED BY <1>7, <1>9, <1>10, ZenonT(30) DEF Rest

\* Release by a client,
LEMMA ReleaseKeeps ==
  ASSUME SynchInv, NEW l \in Locks, Release(l)
  PROVE  Rest'
<1>1. /\ Running /\ me.at = "client" /\ l \in holds[currentThread] /\ ReleaseBody(l)
      /\ UNCHANGED <<locks, waitingQueue, frame>>
  BY Zenon DEF Release, At, me
<1>2. FrameFits(me, holds[currentThread] \ {l})
  BY <1>1, ClientHolds, Zenon DEF FrameFits
<1>3. frame \in [Tid -> Frame]
  BY Zenon DEF SynchInv, QueuesExact, SynchTypeOK
<1> QED BY <1>1, <1>2, <1>3, ReleaseBodyKeeps, ZenonT(30) DEF me

\* and by Wait.
LEMMA WaitReleaseKeeps ==
  ASSUME SynchInv, WaitRelease
  PROVE  Rest'
<1> DEFINE f == [me EXCEPT !.at = "WaitAppend"]
           l == LockOf[me.cond]
<1>1. /\ Running /\ me.at = "WaitRelease" /\ ReleaseBody(l) /\ GoTo(f)
      /\ UNCHANGED <<locks, waitingQueue>>
  BY Zenon DEF WaitRelease, At, me
<1>2. /\ currentThread \in Tid /\ me \in Frame /\ me.cond \in Conditions
      /\ me.old = "IntOn" /\ FrameFits(me, holds[currentThread])
      /\ frame \in [Tid -> Frame]
  BY <1>1, Inside, ClientHolds, ZenonT(30) DEF SynchInv, QueuesExact, SynchTypeOK
<1>3. f \in Frame /\ f.at = "WaitAppend" /\ f.cond = me.cond /\ f.old = "IntOn"
  BY <1>2, Zenon DEF Frame, Place
<1>4. l \in holds[currentThread]
  BY <1>1, <1>2, Zenon DEF FrameFits
<1> HIDE DEF f
<1>5. frame' \in [Tid -> Frame] /\ frame'[currentThread] = f
  BY <1>1, <1>2, <1>3, ZenonT(30) DEF GoTo
<1>6. FrameFits(f, holds[currentThread] \ {l})
  BY <1>1, <1>2, <1>3, <1>4, ClientHolds, ZenonT(30) DEF FrameFits
<1> HIDE DEF l
<1>7. \E g : frame' = [frame EXCEPT ![currentThread] = g]
  BY <1>1, Zenon DEF GoTo
<1> QED BY <1>1, <1>3, <1>4, <1>5, <1>6, <1>7, ReleaseBodyKeeps, Zenon

\* List::Remove and ReadyToRun in Condition::Signal and Broadcast.
LEMMA WakeFirstKeeps ==
  ASSUME SynchInv, NEW k \in Conditions, WakeFirst(k),
         UNCHANGED <<value, queue, locks, holdingThread, frame, holds>>
  PROVE  Rest'
<1> DEFINE w == Head(waitingQueue[k])
<1>1. /\ ThreadsInv /\ QueuesExact /\ NoLostWakeup /\ FramesFit /\ Mutex /\ SynchTypeOK
      /\ value \in [Sema -> Nat] /\ waitingQueue \in [Conditions -> Seq(Tid)]
      /\ status \in [Tid -> ThreadStatus]
  BY Zenon DEF SynchInv, QueuesExact, SynchTypeOK, ThreadsInv, ThreadsTypeOK
<1>2. /\ waitingQueue[k] # << >>
      /\ waitingQueue' = [waitingQueue EXCEPT ![k] = Tail(@)]
      /\ status' = [status EXCEPT ![w] = "READY"]
      /\ UNCHANGED <<resume, level, currentThread, mode>>
  BY Zenon DEF WakeFirst, Removed, ReadyToRun
<1>3. w \in Tid /\ Asleep(w)
  BY <1>1, <1>2, HeadAsleep, ZenonT(30)
<1>4. \A t \in Tid : Asleep(t)' <=> Asleep(t) /\ t # w
  BY <1>1, <1>2, <1>3, ZenonT(30) DEF Asleep
<1>5. \A t \in Tid : status'[t] = status[t] \/ (Asleep(t) /\ status'[t] = "READY")
  BY <1>1, <1>2, <1>3, ZenonT(30)
<1>6. Placed(status, resume, frame)' /\ LevelFits'
  BY <1>2, <1>5, PlacesKept, ZenonT(30)
<1>7. SynchTypeOK'
  <2>1. Tail(waitingQueue[k]) \in Seq(Tid)
    BY <1>1, <1>2, QueueTake, ZenonT(30) DEF QueuesExact
  <2> QED BY <1>1, <1>2, <2>1, ZenonT(30) DEF SynchTypeOK
<1>8. QueuesExact'
  BY <1>1, <1>2, <1>4, <1>7, ConditionWakes, Zenon
<1>9. NoLostWakeup'
  <2>1. ASSUME NEW s \in Sema, NEW t \in Woken(s) PROVE t \in Woken(s)'
    BY <1>5, Zenon DEF Woken
  <2>2. ASSUME NEW s \in Sema
        PROVE  queue'[s] # << >> => value'[s] <= Cardinality(Woken(s)')
    BY <1>1, <2>1, WokenKept, ZenonT(30)
  <2> QED BY <2>2, Zenon DEF NoLostWakeup
<1>10. FramesFit' /\ Mutex'
  BY <1>1, Zenon DEF FramesFit, FrameFits, Mutex
<1> QED BY <1>6, <1>8, <1>9, <1>10, ZenonT(30) DEF Rest

\* Lock::Lock: nobody can hold the new lock or wait for it.
LEMMA NewLockKeeps ==
  ASSUME SynchInv, NEW l \in Locks, NewLock(l)
  PROVE  Rest'
<1>1. /\ ThreadsInv /\ QueuesExact /\ NoLostWakeup /\ FramesFit /\ Mutex /\ SynchTypeOK
      /\ value \in [Sema -> Nat] /\ locks \subseteq Locks
      /\ Semaphores \cap Locks = {} /\ l \in Sema
  BY SynchAssumption, Zenon DEF SynchInv, QueuesExact, SynchTypeOK, Sema
<1>2. PICK h \in HeapContents : holdingThread' = [holdingThread EXCEPT ![l] = h]
  BY Zenon DEF NewLock
<1>3. /\ l \notin locks /\ locks' = locks \cup {l}
      /\ value' = [value EXCEPT ![l] = 1]
      /\ UNCHANGED <<status, resume, currentThread, mode, level, queue,
                     waitingQueue, frame, holds>>
  BY Zenon DEF NewLock, threadVars
<1>4. SynchTypeOK'
  BY <1>1, <1>2, <1>3, SynchAssumption, ZenonT(30) DEF SynchTypeOK
<1>5. Placed(status, resume, frame)' /\ LevelFits'
  BY <1>3, PlacesKept, Zenon
<1>6. \A t \in Tid : Asleep(t)' <=> Asleep(t)
  BY <1>3, Zenon DEF Asleep
<1>7. QueuesExact'
  BY <1>1, <1>3, <1>4, <1>6, QueuesKept, ZenonT(30)
<1>8. queue[l] = << >>
  <2>1. ASSUME queue[l] # << >> PROVE FALSE
    <3>1. /\ Head(queue[l]) \in Tid /\ frame[Head(queue[l])].at = "P"
          /\ frame[Head(queue[l])].sem = l
      BY <1>1, <2>1, HeadAsleep, ZenonT(30)
    <3>2. l \in Semaphores \cup locks
      BY <1>1, <3>1, ZenonT(30) DEF FramesFit, FrameFits
    <3> QED BY <1>1, <1>3, <3>2, ZenonT(30)
  <2> QED BY <2>1, Zenon
<1>9. NoLostWakeup'
  <2>1. ASSUME NEW s \in Sema, NEW t \in Woken(s) PROVE t \in Woken(s)'
    BY <1>3, Zenon DEF Woken
  <2>2. ASSUME NEW s \in Sema
        PROVE  queue'[s] # << >> => value'[s] <= Cardinality(Woken(s)')
    <3>1. CASE s = l
      BY <1>3, <1>8, <3>1, ZenonT(30)
    <3>2. CASE s # l
      <4>1. value'[s] = value[s] /\ value[s] \in Nat /\ queue'[s] = queue[s]
        BY <1>1, <1>3, <3>2, ZenonT(30)
      <4> QED BY <1>1, <2>1, <4>1, WokenKept, ZenonT(30)
    <3> QED BY <3>1, <3>2, Zenon
  <2> QED BY <2>2, Zenon DEF NoLostWakeup
<1>10. FramesFit'
  BY <1>1, <1>3, ZenonT(30) DEF FramesFit, FrameFits
<1>11. Mutex'
  <2>1. \A t \in Tid : l \notin holds'[t]
    BY <1>1, <1>3, Zenon DEF FramesFit, FrameFits
  <2>2. value'[l] = 1
    BY <1>1, <1>3, Zenon
  <2>3. \A m \in locks : value'[m] = value[m] /\ holdingThread'[m] = holdingThread[m]
    BY <1>1, <1>2, <1>3, ZenonT(30) DEF SynchTypeOK, Sema
  <2> QED BY <1>1, <1>3, <2>1, <2>2, <2>3, SMTT(30) DEF Mutex
<1> QED BY <1>5, <1>7, <1>9, <1>10, <1>11, ZenonT(30) DEF Rest

\* The operations of the thread package itself.
LEMMA ThreadStepKeeps ==
  ASSUME SynchInv, ClientThreads \/ MachineStep
  PROVE  Rest'
<1>1. /\ QueuesExact /\ NoLostWakeup /\ FramesFit /\ Mutex /\ SynchTypeOK
      /\ value \in [Sema -> Nat]
  BY Zenon DEF SynchInv, QueuesExact, SynchTypeOK
<1>2. UNCHANGED <<value, queue, locks, holdingThread, waitingQueue, frame, holds>>
  BY Zenon DEF ClientThreads, MachineStep, synchVars
<1>3. /\ Placed(status, resume, frame)' /\ LevelFits'
      /\ \A t \in Tid : Asleep(t)' <=> Asleep(t)
      /\ \A t \in Tid : frame[t].at = "P" => (Live(t)' <=> Live(t))
  BY ThreadStepPlaces, Zenon
<1>4. SynchTypeOK' /\ FramesFit' /\ Mutex'
  BY <1>1, <1>2, ZenonT(30) DEF SynchTypeOK, FramesFit, FrameFits, Mutex
<1>5. QueuesExact'
  BY <1>1, <1>2, <1>3, <1>4, QueuesKept, Zenon
<1>6. NoLostWakeup'
  <2>1. ASSUME NEW s \in Sema, NEW t \in Woken(s) PROVE t \in Woken(s)'
    BY <1>2, <1>3, Zenon DEF Woken, Live
  <2>2. ASSUME NEW s \in Sema
        PROVE  queue'[s] # << >> => value'[s] <= Cardinality(Woken(s)')
    BY <1>1, <1>2, <2>1, WokenKept, ZenonT(30)
  <2> QED BY <2>2, Zenon DEF NoLostWakeup
<1> QED BY <1>3, <1>4, <1>5, <1>6, ZenonT(30) DEF Rest

\* P finds no value and sleeps in the queue.
LEMMA PSleepKeeps ==
  ASSUME SynchInv, PSleep
  PROVE  Rest'
<1> DEFINE s == me.sem
<1>1. /\ Running /\ me.at = "P" /\ value[s] = 0 /\ Sleep
      /\ queue' = [queue EXCEPT ![s] = Append(@, currentThread)]
      /\ UNCHANGED <<value, locks, holdingThread, waitingQueue, frame, holds>>
  BY Zenon DEF PSleep, At, Available, me
<1>2. /\ ThreadsInv /\ QueuesExact /\ NoLostWakeup /\ FramesFit /\ Mutex /\ SynchTypeOK
      /\ value \in [Sema -> Nat] /\ queue \in [Sema -> Seq(Tid)]
  BY Zenon DEF SynchInv, QueuesExact, SynchTypeOK
<1>3. level = "IntOff" /\ s \in Sema /\ currentThread \in Tid
  BY <1>1, Inside, Zenon
<1>4. ~Asleep(currentThread)
  BY <1>1, <1>2, Current, ZenonT(30)
<1>5. /\ Placed(status, resume, frame)' /\ LevelFits'
      /\ \A t \in Tid : Asleep(t)' <=>
           Asleep(t) \/ (t = currentThread /\ "Sleep" = "Sleep")
      /\ \A t \in Tid : Live(t)' <=> Live(t) /\ t # currentThread
  BY <1>1, <1>3, SleepPlaces, ZenonT(30) DEF Sleep, me
<1>6. frame[currentThread].at = "P" /\ frame[currentThread].sem = s
  BY <1>1, Zenon DEF me
<1> HIDE DEF s
<1>7. SynchTypeOK'
  <2>1. queue' \in [Sema -> Seq(Tid)]
    BY <1>1, <1>2, <1>3, SMTT(30)
  <2> QED BY <1>1, <1>2, <2>1, ZenonT(30) DEF SynchTypeOK
<1>8. QueuesExact'
  BY <1>1, <1>2, <1>3, <1>4, <1>5, <1>6, <1>7, SemaphoreSleeps, Zenon
<1>9. FramesFit' /\ Mutex'
  BY <1>1, <1>2, ZenonT(30) DEF FramesFit, FrameFits, Mutex
<1>10. NoLostWakeup'
  <2>1. ASSUME NEW r \in Sema, r # s, NEW t \in Woken(r) PROVE t \in Woken(r)'
    BY <1>1, <1>5, <1>6, <2>1, Zenon DEF Woken, Live
  <2>2. ASSUME NEW r \in Sema
        PROVE  queue'[r] # << >> => value'[r] <= Cardinality(Woken(r)')
    <3>1. CASE r = s
      <4>1. Woken(r)' \in SUBSET Tid
        BY Zenon DEF Woken
      <4>2. Cardinality(Woken(r)') \in Nat
        BY <4>1, SubsetCard, Zenon
      <4> QED BY <1>1, <3>1, <4>2, SMTT(30)
    <3>2. CASE r # s
      <4>1. value'[r] = value[r] /\ value[r] \in Nat /\ queue'[r] = queue[r]
        BY <1>1, <1>2, <3>2, ZenonT(30)
      <4> QED BY <1>2, <2>1, <3>2, <4>1, WokenKept, ZenonT(30)
    <3> QED BY <3>1, <3>2, Zenon
  <2> QED BY <2>2, Zenon DEF NoLostWakeup
<1> QED BY <1>5, <1>8, <1>9, <1>10, ZenonT(30) DEF Rest

\* Wait, having released the lock, sleeps in the condition's queue.
LEMMA WaitSleepKeeps ==
  ASSUME SynchInv, WaitSleep
  PROVE  Rest'
<1> DEFINE f == [me EXCEPT !.at = "WaitSleep"]
           k == me.cond
           c == currentThread
<1>1. /\ Running /\ me.at = "WaitAppend" /\ Sleep /\ GoTo(f)
      /\ waitingQueue' = [waitingQueue EXCEPT ![k] = Append(@, c)]
      /\ UNCHANGED <<value, queue, locks, holdingThread, holds>>
  BY Zenon DEF WaitSleep, At, me
<1>2. /\ ThreadsInv /\ QueuesExact /\ NoLostWakeup /\ FramesFit /\ Mutex /\ SynchTypeOK
      /\ value \in [Sema -> Nat] /\ waitingQueue \in [Conditions -> Seq(Tid)]
      /\ frame \in [Tid -> Frame]
  BY Zenon DEF SynchInv, QueuesExact, SynchTypeOK
<1>3. level = "IntOff" /\ k \in Conditions /\ me \in Frame /\ c \in Tid
  BY <1>1, Inside, Zenon
<1>4. ~Asleep(c)
  BY <1>1, <1>2, Current, ZenonT(30)
<1>5. /\ f \in Frame /\ f.at = "WaitSleep" /\ f.cond = k /\ f.old = me.old
  BY <1>3, Zenon DEF Frame, Place
<1> HIDE DEF f
<1>6. /\ frame'[c] = f /\ frame' \in [Tid -> Frame]
      /\ \A t \in Tid \ {c} : frame'[t] = frame[t]
  BY <1>1, <1>2, <1>3, <1>5, ZenonT(30) DEF GoTo
<1>7. /\ Placed(status, resume, frame)' /\ LevelFits'
      /\ \A t \in Tid : Asleep(t)' <=> Asleep(t) \/ (t = c /\ "Sleep" = "Sleep")
      /\ \A t \in Tid : Live(t)' <=> Live(t) /\ t # c
  BY <1>1, <1>3, <1>5, <1>6, SleepPlaces, Zenon DEF Sleep
<1>8. FrameFits(f, holds[c])
  <2>1. FrameFits(me, holds[c])
    BY <1>1, ClientHolds, Zenon
  <2> QED BY <1>1, <1>5, <2>1, ZenonT(30) DEF FrameFits
<1>9. me.at # "P" /\ me.at # "Acquired" /\ me = frame[c]
  BY <1>1, Zenon DEF me
<1> HIDE DEF k, c
<1>10. SynchTypeOK'
  <2>1. waitingQueue' \in [Conditions -> Seq(Tid)]
    BY <1>1, <1>2, <1>3, SMTT(30)
  <2> QED BY <1>1, <1>2, <1>6, <2>1, ZenonT(30) DEF SynchTypeOK
<1>11. QueuesExact'
  BY <1>1, <1>2, <1>3, <1>4, <1>5, <1>6, <1>7, <1>10, ConditionSleeps, Zenon
<1>12. Mutex'
  BY <1>1, <1>2, <1>6, <1>9, MutexKept, ZenonT(30)
<1>13. FramesFit'
  <2>1. ASSUME NEW t \in Tid PROVE FrameFits(frame[t], holds[t])'
    <3>1. CASE t = c
      BY <1>1, <1>6, <1>8, <3>1, Zenon DEF FrameFits
    <3>2. CASE t # c
      BY <1>1, <1>2, <1>6, <3>2, ZenonT(30) DEF FramesFit, FrameFits
    <3> QED BY <3>1, <3>2, Zenon
  <2> QED BY <2>1, Zenon DEF FramesFit
<1>14. NoLostWakeup'
  <2>1. ASSUME NEW r \in Sema, NEW t \in Woken(r) PROVE t \in Woken(r)'
    BY <1>6, <1>7, <1>9, Zenon DEF Woken, Live
  <2>2. ASSUME NEW r \in Sema
        PROVE  queue'[r] # << >> => value'[r] <= Cardinality(Woken(r)')
    BY <1>1, <1>2, <2>1, WokenKept, ZenonT(30)
  <2> QED BY <2>2, Zenon DEF NoLostWakeup
<1> QED BY <1>7, <1>11, <1>12, <1>13, <1>14, ZenonT(30) DEF Rest

\* P finds a value and takes it; for a lock the thread then holds it.
LEMMA PTakeKeeps ==
  ASSUME SynchInv, PTake
  PROVE  Rest'
<1> DEFINE s == me.sem
           c == currentThread
           f == IF s \in Locks THEN [me EXCEPT !.at = "Acquired"] ELSE ClientFrame
           held == IF s \in Locks THEN holds[c] \cup {s} ELSE holds[c]
<1>1. /\ ThreadsInv /\ QueuesExact /\ NoLostWakeup /\ FramesFit /\ Mutex /\ SynchTypeOK
      /\ value \in [Sema -> Nat] /\ frame \in [Tid -> Frame]
      /\ holds \in [Tid -> SUBSET Locks]
  BY Zenon DEF SynchInv, QueuesExact, SynchTypeOK
<1>2. /\ Running /\ me.at = "P" /\ value[s] # 0 /\ GoTo(f)
      /\ value' = [value EXCEPT ![s] = value[s] - 1]
      /\ level' = me.pOld
      /\ UNCHANGED <<status, resume, currentThread, mode, queue, locks,
                     holdingThread, waitingQueue>>
  BY Zenon DEF PTake, PReturn, SetLevel, LevelAfterP, ValueTaken, Available, At, me
<1>3. /\ c \in Tid /\ s \in Sema /\ me \in Frame /\ FrameFits(me, holds[c])
      /\ holds[c] \subseteq locks /\ locks \subseteq Locks
      /\ Semaphores \cap Locks = {} /\ LockOf \in [Conditions -> Locks]
      /\ me.cond \in Conditions \cup {NULL}
  BY <1>2, Inside, ClientHolds, ZenonT(30) DEF Frame
<1>4. ~Asleep(c) /\ status[c] = "RUNNING"
  BY <1>1, <1>2, Current, ZenonT(30)
<1>5. holds' = [holds EXCEPT ![c] = held]
  BY <1>1, Zenon DEF PTake, PReturn
<1>6. /\ f \in Frame
      /\ s \in Locks => f.at = "Acquired" /\ f.sem = s /\ f.cond = me.cond
                        /\ f.pOld = me.pOld /\ f.old = me.old
      /\ s \notin Locks => f = ClientFrame
  <2>1. CASE s \in Locks
    BY <1>3, <2>1, Zenon DEF Frame, Place
  <2>2. CASE s \notin Locks
    BY <2>2, <1>3, ClientFrameFits, ZenonT(30)
  <2> QED BY <2>1, <2>2, Zenon
<1>7. /\ me = frame[c]
      /\ s \in Locks => s \in locks \ holds[c]
      /\ me.pOld = IF me.cond = NULL THEN "IntOn" ELSE "IntOff"
      /\ me.cond # NULL => s \in Locks /\ me.old = "IntOn"
  BY <1>2, <1>3, Zenon DEF FrameFits, me
<1>8. level' = "IntOn" <=> Preemptible(f)
  BY <1>2, <1>6, <1>7, ZenonT(30) DEF Preemptible, ClientFrame
<1> HIDE DEF f
<1>9. /\ frame'[c] = f /\ frame' \in [Tid -> Frame]
      /\ \A t \in Tid \ {c} : frame'[t] = frame[t]
  BY <1>1, <1>2, <1>3, <1>6, ZenonT(30) DEF GoTo
<1>10. /\ holds'[c] = held /\ holds' \in [Tid -> SUBSET Locks]
       /\ \A t \in Tid \ {c} : holds'[t] = holds[t]
  BY <1>1, <1>3, <1>5, ZenonT(30)
<1>11. /\ value[s] \in Nat \ {0} /\ value'[s] = value[s] - 1
       /\ value' \in [Sema -> Nat]
       /\ \A r \in Sema \ {s} : value'[r] = value[r]
  BY <1>1, <1>2, <1>3, SMTT(30)
<1>12. SynchTypeOK'
  BY <1>1, <1>2, <1>9, <1>10, <1>11, ZenonT(30) DEF SynchTypeOK
<1>13. \A t \in Tid : Asleep(t)' <=> Asleep(t)
  BY <1>2, Zenon DEF Asleep
<1>14. Placed(status, resume, frame)' /\ LevelFits'
  <2>1. \E g : frame' = [frame EXCEPT ![currentThread] = g]
    BY <1>2, Zenon DEF GoTo
  <2> QED BY <1>2, <1>8, <1>9, <2>1, PlacesKept, Zenon
<1>15. QueuesExact'
  BY <1>1, <1>2, <1>4, <1>9, <1>12, <1>13, QueuesKept, ZenonT(30)
<1>16. FramesFit'
  <2>1. FrameFits(f, held)
    <3>1. CASE s \in Locks
      BY <1>3, <1>6, <1>7, <3>1, ZenonT(30) DEF FrameFits
    <3>2. CASE s \notin Locks
      BY <1>3, <1>6, <3>2, ClientFrameFits, ZenonT(30)
    <3> QED BY <3>1, <3>2, Zenon
  <2> HIDE DEF held
  <2>2. FrameFits(frame[currentThread], holds[currentThread])'
    BY <1>2, <1>9, <1>10, <2>1, ZenonT(30) DEF FrameFits
  <2> QED BY <1>1, <1>2, <1>3, <1>9, <1>10, <2>2, FramesKept, ZenonT(30)
<1>17. Mutex'
  <2>1. CASE s \in Locks
    <3>1. /\ held = holds[c] \cup {s} /\ s \in locks /\ f.at = "Acquired" /\ f.sem = s
      BY <1>6, <1>7, <2>1, ZenonT(30)
    <3>2. value[s] = 1 /\ \A t \in Tid : s \notin holds[t]
      BY <1>1, <1>11, <3>1, ZenonT(30) DEF Mutex
    <3>3. value'[s] = 0
      BY <1>11, <3>2
    <3> HIDE DEF s, c, held
    <3>4. ASSUME NEW m \in locks
          PROVE  /\ value'[m] \in {0, 1}
                 /\ value'[m] = 1 <=> \A t \in Tid : m \notin holds'[t]
                 /\ \A t, u \in Tid : m \in holds'[t] /\ m \in holds'[u] => t = u
                 /\ \A t \in Tid :
                      /\ m \in holds'[t]
                      /\ ~(frame'[t].at = "Acquired" /\ frame'[t].sem = m)
                      => holdingThread'[m] = t
      <4>1. CASE m = s
        <5>1. \A t \in Tid : s \in holds'[t] <=> t = c
          BY <1>10, <3>1, <3>2, ZenonT(30)
        <5> QED BY <1>3, <1>9, <3>1, <3>3, <4>1, <5>1, SMTT(30)
      <4>2. CASE m # s
        <5>1. value'[m] = value[m] /\ \A t \in Tid : m \in holds'[t] <=> m \in holds[t]
          BY <1>3, <1>10, <1>11, <3>1, <4>2, ZenonT(30) DEF Sema
        <5>2. ASSUME NEW t \in Tid, m \in holds'[t],
                     ~(frame'[t].at = "Acquired" /\ frame'[t].sem = m)
              PROVE  holdingThread'[m] = t
          <6>1. ~(frame[t].at = "Acquired" /\ frame[t].sem = m)
            BY <1>2, <1>7, <1>9, <5>2, ZenonT(30)
          <6> QED BY <1>1, <1>2, <5>1, <5>2, <6>1, ZenonT(30) DEF Mutex
        <5> QED BY <1>1, <5>1, <5>2, ZenonT(30) DEF Mutex
      <4> QED BY <4>1, <4>2, Zenon
    <3> QED BY <1>2, <3>4, Zenon DEF Mutex
  <2>2. CASE s \notin Locks
    <3>1. holds' = holds
      BY <1>1, <1>5, <2>2, ZenonT(30)
    <3>2. \A l \in locks : value'[l] = value[l]
      BY <1>3, <1>11, <2>2, ZenonT(30) DEF Sema
    <3>3. \A t \in Tid : frame[t].at = "Acquired" => frame'[t] = frame[t]
      BY <1>2, <1>7, <1>9, ZenonT(30)
    <3> QED BY <1>1, <1>2, <3>1, <3>2, <3>3, MutexKept, ZenonT(30)
  <2> QED BY <2>1, <2>2, Zenon
<1>18. NoLostWakeup'
  <2>1. c \in Woken(s)
    BY <1>2, <1>3, <1>4, <1>7, ZenonT(30) DEF Woken
  <2> HIDE DEF s, c
  <2>2. ASSUME NEW r \in Sema, NEW t \in Woken(r), t # c PROVE t \in Woken(r)'
    BY <1>2, <1>9, <2>2, ZenonT(30) DEF Woken
  <2>3. ASSUME NEW r \in Sema, r # s
        PROVE  queue'[r] # << >> => value'[r] <= Cardinality(Woken(r)')
    <3>1. c \notin Woken(r)
      BY <2>1, <2>3, Zenon DEF Woken
    <3>2. \A t \in Woken(r) : t \in Woken(r)'
      BY <2>2, <3>1, Zenon
    <3>3. value'[r] = value[r] /\ value[r] \in Nat /\ queue'[r] = queue[r]
      BY <1>1, <1>2, <1>11, <2>3, ZenonT(30)
    <3> QED BY <1>1, <3>2, <3>3, WokenKept, ZenonT(30)
  <2>4. ASSUME NEW r \in Sema, r = s, queue'[r] # << >>
        PROVE  value'[r] <= Cardinality(Woken(r)')
    <3>1. Woken(r)' \in SUBSET Tid /\ Woken(r) \in SUBSET Tid
      BY Zenon DEF Woken
    <3>2. Woken(r) \ {c} \in SUBSET (Woken(r)')
      BY <2>2, Zenon
    <3>3. IsFiniteSet(Woken(r)) /\ c \in Woken(r)
      BY <2>1, <2>4, <3>1, TidFinite, FS_Subset, ZenonT(30)
    <3>4. Cardinality(Woken(r) \ {c}) = Cardinality(Woken(r)) - 1
      BY <3>3, FS_RemoveElement, Zenon
    <3>5. /\ Cardinality(Woken(r)) \in Nat /\ Cardinality(Woken(r)') \in Nat
          /\ Cardinality(Woken(r) \ {c}) <= Cardinality(Woken(r)')
      BY <3>1, <3>2, SubsetCard, ZenonT(30)
    <3>6. value[r] <= Cardinality(Woken(r))
      BY <1>1, <1>2, <2>4, ZenonT(30) DEF NoLostWakeup
    <3>7. value[r] \in Nat /\ value'[r] = value[r] - 1
      BY <1>11, <2>4, Zenon
    <3> QED BY <3>4, <3>5, <3>6, <3>7, SMTT(30)
  <2> QED BY <2>3, <2>4, Zenon DEF NoLostWakeup
<1> QED BY <1>14, <1>15, <1>16, <1>17, <1>18, ZenonT(30) DEF Rest

-----------------------------------------------------------------------------
(* The theorems                                                            *)

\* The main thread alone, with every semaphore at its initial value.
LEMMA SynchInitInv == SynchInit => SynchInv
<1> SUFFICES ASSUME SynchInit PROVE SynchInv
  OBVIOUS
<1>1. ThreadsInv /\ ThreadsInit
  BY InitInv, Zenon DEF SynchInit
<1>2. /\ status = [t \in Tid |-> IF t = 0 THEN "RUNNING" ELSE "FREE"]
      /\ resume = [t \in Tid |-> "none"] /\ level = "IntOn" /\ mode = "SystemMode"
      /\ currentThread \in Tid
  BY <1>1, Zenon DEF ThreadsInit, ThreadsInv, ThreadsTypeOK
<1>3. /\ \A t \in Tid : frame[t] = ClientFrame /\ holds[t] = {} /\ ~Asleep(t)
      /\ \A s \in Sema : queue[s] = << >>
      /\ \A k \in Conditions : waitingQueue[k] = << >>
      /\ locks = {}
  BY <1>2, Zenon DEF SynchInit, Asleep
<1>4. ClientFrame \in Frame /\ FrameFits(ClientFrame, {}) /\ Preemptible(ClientFrame)
      /\ ClientFrame.at = "client"
  BY ClientFrameFits, Zenon DEF ClientFrame
<1>5. SynchTypeOK
  <2>1. value \in [Sema -> Nat]
    BY SynchAssumption, Zenon DEF SynchInit, Sema
  <2>2. << >> \in Seq(Tid)
    OBVIOUS
  <2> QED BY <1>4, <2>1, <2>2, ZenonT(30) DEF SynchInit, SynchTypeOK
<1>6. QueuesExact
  <2>1. Range(<< >>) = {} /\ IsInjective(<< >>)
    BY DEF Range, IsInjective
  <2> QED BY <1>3, <1>5, <2>1, ZenonT(30) DEF QueuesExact
<1>7. Placed(status, resume, frame)
  BY <1>2, <1>3, <1>4, ZenonT(30) DEF Placed
<1>8. LevelFits
  BY <1>2, <1>3, <1>4, ZenonT(30) DEF LevelFits, Running
<1>9. FramesFit /\ Mutex /\ NoLostWakeup
  BY <1>3, <1>4, Zenon DEF FramesFit, Mutex, NoLostWakeup
<1> QED BY <1>1, <1>6, <1>7, <1>8, <1>9, ZenonT(30) DEF SynchInv

\* Every step of the program keeps the invariant.
LEMMA SynchNextInv == SynchInv /\ [SynchNext]_vars => SynchInv'
<1> SUFFICES ASSUME SynchInv, [SynchNext]_vars PROVE SynchInv'
  OBVIOUS
<1>1. ThreadsInv'
  BY StepRefines, NextInv, Zenon DEF SynchInv
<1>2. ASSUME NEW s \in Sema, PCall(s) PROVE Rest'
  BY <1>2, PCallKeeps, Zenon
<1>3. ASSUME NEW s \in Semaphores, ClientV(s) \/ HandlerV(s) PROVE Rest'
  BY <1>3, ClientVKeeps, Zenon
<1>4. ASSUME NEW l \in Locks, NewLock(l) \/ Release(l) PROVE Rest'
  BY <1>4, NewLockKeeps, ReleaseKeeps, ZenonT(30)
<1>5. ASSUME NEW k \in Conditions, WaitCall(k) \/ BroadcastCall(k) PROVE Rest'
  BY <1>5, ConditionCallKeeps, Zenon
<1>6. ASSUME NEW k \in Conditions, Signal(k) PROVE Rest'
  BY <1>6, WakeFirstKeeps, Zenon DEF Signal
<1>7. ASSUME BroadcastWake PROVE Rest'
  <2>1. me.cond \in Conditions
    BY <1>7, Inside, Zenon DEF BroadcastWake, At, me
  <2> QED BY <1>7, <2>1, WakeFirstKeeps, ZenonT(30) DEF BroadcastWake
<1>8. ASSUME PSleep \/ PTake \/ SetHolder PROVE Rest'
  BY <1>8, PSleepKeeps, PTakeKeeps, SetHolderKeeps, ZenonT(30)
<1>9. ASSUME WaitRelease \/ WaitSleep \/ WaitAcquire \/ BroadcastReturn
      PROVE  Rest'
  BY <1>9, WaitReleaseKeeps, WaitSleepKeeps, WaitAcquireKeeps, BroadcastReturnKeeps, ZenonT(30)
<1>10. ASSUME ClientThreads \/ MachineStep PROVE Rest'
  BY <1>10, ThreadStepKeeps, Zenon
<1>11. ASSUME UNCHANGED vars PROVE Rest'
  <2>1. UNCHANGED <<status, resume, level, mode, currentThread, value, queue,
                    locks, holdingThread, waitingQueue, frame, holds>>
    BY <1>11, Zenon DEF vars, threadVars, synchVars
  <2>2. Placed(status, resume, frame)' /\ LevelFits'
    BY <2>1, PlacesKept, Zenon
  <2>3. FramesFit'
    BY <2>1, Zenon DEF SynchInv, FramesFit, FrameFits
  <2>4. Mutex'
    BY <2>1, Zenon DEF SynchInv, Mutex
  <2>5. QueuesExact'
    BY <2>1, Zenon DEF SynchInv, QueuesExact, SynchTypeOK, Asleep
  <2>6. NoLostWakeup'
    BY <2>1, Zenon DEF SynchInv, NoLostWakeup, Woken
  <2> QED BY <2>2, <2>3, <2>4, <2>5, <2>6, ZenonT(30) DEF Rest
<1>12. Rest'
  BY <1>2, <1>3, <1>4, <1>5, <1>6, <1>7, <1>8, <1>9, <1>10, <1>11, ZenonT(30) DEF SynchNext, InRoutine
<1> QED BY <1>1, <1>12, Zenon DEF Rest, SynchInv

\* The invariant of semaphores, locks and condition variables (synch.cc).
THEOREM SynchInvariant == SynchSpec => []SynchInv
BY SynchInitInv, SynchNextInv, PTL DEF SynchSpec

\* The routines of synch.cc implement the thread package's protocol: Sleep is
\* called with interrupts disabled only, and ReadyToRun on sleeping threads
\* only, so everything proved of ThreadsSpec holds of them.
THEOREM SynchImplementsThreads == SynchSpec => ThreadsSpec
<1>1. SynchInit => ThreadsInit
  BY Zenon DEF SynchInit
<1> QED BY <1>1, StepRefines, SynchInvariant, PTL DEF SynchSpec, ThreadsSpec

\* Every sleeping thread is in exactly one queue, once, and every queued thread
\* sleeps (synch.cc, P, V, Wait and Signal).
THEOREM SynchQueuesExact == SynchSpec => []QueuesExact
<1>1. SynchInv => QueuesExact
  BY Zenon DEF SynchInv
<1> QED BY <1>1, SynchInvariant, PTL

\* While threads wait on a semaphore, each unit of its value has a thread on
\* its way to P's test (synch.cc, P and V).
THEOREM SynchNoLostWakeup == SynchSpec => []NoLostWakeup
<1>1. SynchInv => NoLostWakeup
  BY Zenon DEF SynchInv
<1> QED BY <1>1, SynchInvariant, PTL

\* A lock has at most one holder, and records it (synch.cc, Acquire, Release
\* and Wait).
THEOREM SynchMutualExclusion == SynchSpec => []MutualExclusion
<1>1. SynchInv => MutualExclusion
  <2> SUFFICES ASSUME SynchInv, NEW l \in locks
               PROVE  value[l] + Cardinality({t \in Tid : l \in holds[t]}) = 1
    BY Zenon DEF MutualExclusion, SynchInv, Mutex
  <2> DEFINE H == {t \in Tid : l \in holds[t]}
  <2>1. /\ value[l] \in {0, 1} /\ (value[l] = 1 <=> \A t \in Tid : l \notin holds[t])
        /\ \A t, u \in Tid : l \in holds[t] /\ l \in holds[u] => t = u
    BY Zenon DEF SynchInv, Mutex
  <2>2. CASE value[l] = 1
    <3>1. H = {}
      BY <2>1, <2>2, Zenon
    <3> HIDE DEF H
    <3>2. Cardinality(H) = 0
      BY <3>1, FS_EmptySet, Zenon
    <3> QED BY <2>2, <3>2 DEF H
  <2>3. CASE value[l] = 0
    <3>1. PICK t \in Tid : l \in holds[t]
      BY <2>1, <2>3
    <3>2. H = {t}
      BY <2>1, <3>1, Zenon
    <3> HIDE DEF H
    <3>3. Cardinality(H) = 1
      BY <3>2, FS_Singleton, Zenon
    <3> QED BY <2>3, <3>3 DEF H
  <2> QED BY <2>1, <2>2, <2>3, ZenonT(30)
<1> QED BY <1>1, SynchInvariant, PTL

\* Between the release of its lock and its sleep, a thread in Wait keeps the
\* processor with interrupts disabled (synch.cc, Wait).
THEOREM SynchWaitAtomic == SynchSpec => []WaitAtomic
<1>1. SynchInv => WaitAtomic
  <2> SUFFICES ASSUME SynchInv, NEW t \in Tid,
                      frame[t].at \in {"WaitRelease", "WaitAppend"}
               PROVE  Running /\ t = currentThread /\ level = "IntOff"
    BY Zenon DEF WaitAtomic
  <2>1. /\ Placed(status, resume, frame) /\ LevelFits /\ Fits(status, resume)
        /\ OneRunning /\ status[t] \in ThreadStatus
    BY Zenon DEF SynchInv, ThreadsInv, ThreadsTypeOK
  <2>2. status[t] = "RUNNING"
    BY <2>1, Zenon DEF Placed, Fits, ThreadStatus, Preemptible
  <2>3. Running
    BY <2>1, <2>2, Zenon DEF LevelFits
  <2>4. t = currentThread
    BY <2>1, <2>2, <2>3, ZenonT(30) DEF OneRunning
  <2> QED BY <2>3, <2>4, Inside, ZenonT(30) DEF me
<1> QED BY <1>1, SynchInvariant, PTL

=============================================================================
