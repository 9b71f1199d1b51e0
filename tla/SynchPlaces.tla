----------------------------- MODULE SynchPlaces -----------------------------
(***************************************************************************)
(* The inductive invariant of semaphores, locks and condition variables,   *)
(* and what it says of the queues, of thread switches and of the thread    *)
(* package below.                                                          *)
(*                                                                         *)
(* The invariant is SynchInv: next to the invariants of the thread package *)
(* and the properties themselves it says where in the routines a thread    *)
(* can be when it does not have the processor (Placed), where interrupts   *)
(* are enabled (LevelFits) and what the locals of each routine hold        *)
(* (FramesFit).                                                            *)
(***************************************************************************)
EXTENDS Synch, ThreadsProofs, FiniteSetTheorems

\* Frames in which the timer may take the processor away.
Preemptible(f) == f.at = "client" \/ (f.at = "Acquired" /\ f.cond = NULL)

\* A thread of status st[t] whose saved context is ctx[t] is at a place in the
\* routines where it can have lost the processor in this way.
Placed(st, ctx, fr) ==
  \A t \in Tid :
    /\ st[t] \in {"FREE", "JUST_CREATED"} => fr[t].at = "client"
    /\ ctx[t] # "YieldOff"
    /\ ctx[t] \in {"ThreadRoot", "Finish"} => fr[t].at = "client"
    /\ ctx[t] = "Yield" => Preemptible(fr[t])
    /\ ctx[t] = "Sleep" => fr[t].at \in {"P", "WaitSleep"}

\* Interrupts are enabled exactly where the timer may act, and the machine
\* stops only under a thread that is in none of the routines.
LevelFits ==
  /\ Running => (level = "IntOn" <=> Preemptible(frame[currentThread]))
  /\ ~Running => \A t \in Tid : status[t] = "RUNNING" => frame[t].at = "client"

\* The locals of the routine a thread is in, while it holds the locks held.
FrameFits(f, held) ==
  /\ held \subseteq locks
  /\ f.at = "P" => f.sem \in (Semaphores \cup locks) \ held
  /\ f.at = "P" /\ f.cond # NULL => f.sem = LockOf[f.cond]
  /\ f.at = "Acquired" => f.sem \in held
  /\ f.at \in {"P", "Acquired"} =>
       f.pOld = IF f.cond = NULL THEN "IntOn" ELSE "IntOff"
  /\ f.at \in {"WaitRelease", "WaitAppend", "WaitSleep", "Broadcast"} =>
       f.cond # NULL
  /\ f.at = "WaitRelease" => LockOf[f.cond] \in held
  /\ f.at \in {"WaitAppend", "WaitSleep"} => LockOf[f.cond] \in locks \ held
  /\ f.cond # NULL => f.old = "IntOn"

FramesFit == \A t \in Tid : FrameFits(frame[t], holds[t])

\* MutualExclusion without counting.
Mutex ==
  \A l \in locks :
    /\ value[l] \in {0, 1}
    /\ value[l] = 1 <=> \A t \in Tid : l \notin holds[t]
    /\ \A t, u \in Tid : l \in holds[t] /\ l \in holds[u] => t = u
    /\ \A t \in Tid :
         /\ l \in holds[t]
         /\ ~(frame[t].at = "Acquired" /\ frame[t].sem = l)
         => holdingThread[l] = t

SynchInv ==
  /\ ThreadsInv /\ QueuesExact
  /\ Placed(status, resume, frame) /\ LevelFits
  /\ FramesFit /\ Mutex
  /\ NoLostWakeup

-----------------------------------------------------------------------------
(* Queues and sets                                                         *)

\* List::Remove on a queue in which nobody waits twice.
LEMMA QueueTake ==
  ASSUME NEW q \in Seq(Tid), q # << >>, IsInjective(q)
  PROVE  /\ Head(q) \in Tid /\ Head(q) \in Range(q)
         /\ Tail(q) \in Seq(Tid)
         /\ Range(Tail(q)) = Range(q) \ {Head(q)}
         /\ IsInjective(Tail(q))
<1>1. /\ Len(q) \in Nat /\ Len(q) # 0 /\ DOMAIN q = 1 .. Len(q)
      /\ Head(q) = q[1] /\ Tail(q) \in Seq(Tid) /\ Len(Tail(q)) = Len(q) - 1
      /\ DOMAIN Tail(q) = 1 .. Len(q) - 1
      /\ \A i \in 1 .. Len(q) - 1 : Tail(q)[i] = q[i + 1]
      /\ \A i \in 1 .. Len(q) : q[i] \in Tid
  OBVIOUS
<1>2. IsInjective(Tail(q))
  <2>1. ASSUME NEW i \in 1 .. Len(q) - 1, NEW j \in 1 .. Len(q) - 1,
               Tail(q)[i] = Tail(q)[j]
        PROVE  i = j
    <3>1. q[i + 1] = q[j + 1] /\ i + 1 \in DOMAIN q /\ j + 1 \in DOMAIN q
      BY <1>1, <2>1
    <3>2. i + 1 = j + 1
      BY <3>1, Zenon DEF IsInjective
    <3> QED BY <3>2
  <2> QED BY <1>1, <2>1, Zenon DEF IsInjective
<1>3. Range(Tail(q)) \subseteq Range(q) \ {Head(q)}
  <2>1. ASSUME NEW i \in 1 .. Len(q) - 1
        PROVE  Tail(q)[i] \in Range(q) /\ Tail(q)[i] # Head(q)
    <3>1. i + 1 \in DOMAIN q /\ 1 \in DOMAIN q /\ i + 1 # 1
      BY <1>1
    <3> QED BY <1>1, <3>1, ZenonT(30) DEF Range, IsInjective
  <2> QED BY <1>1, <2>1, Zenon DEF Range
<1>4. Range(q) \ {Head(q)} \subseteq Range(Tail(q))
  <2>1. ASSUME NEW i \in 1 .. Len(q), q[i] # Head(q)
        PROVE  q[i] \in Range(Tail(q))
    <3>1. i - 1 \in 1 .. Len(q) - 1 /\ q[i] = q[(i - 1) + 1]
      BY <1>1, <2>1
    <3> QED BY <1>1, <3>1, Zenon DEF Range
  <2> QED BY <1>1, <2>1, Zenon DEF Range
<1>5. 1 \in DOMAIN q /\ q[1] \in Tid
  BY <1>1
<1>6. Head(q) \in Range(q)
  BY <1>1, <1>5, Zenon DEF Range
<1>7. Range(Tail(q)) = Range(q) \ {Head(q)}
  BY <1>3, <1>4, Zenon
<1> QED BY <1>1, <1>2, <1>5, <1>6, <1>7, ZenonT(30)

\* List::Append of a thread that is not in the queue.
LEMMA QueueAppend ==
  ASSUME NEW q \in Seq(Tid), NEW t \in Tid, t \notin Range(q), IsInjective(q)
  PROVE  /\ Append(q, t) \in Seq(Tid)
         /\ Range(Append(q, t)) = Range(q) \cup {t}
         /\ IsInjective(Append(q, t))
<1> DEFINE r == Append(q, t)
<1>1. /\ Len(q) \in Nat /\ DOMAIN q = 1 .. Len(q) /\ r \in Seq(Tid)
      /\ DOMAIN r = 1 .. Len(q) + 1 /\ r[Len(q) + 1] = t
      /\ \A i \in 1 .. Len(q) : r[i] = q[i]
  OBVIOUS
<1> HIDE DEF r
<1>2. \A i \in 1 .. Len(q) : r[i] # t
  BY <1>1, Zenon DEF Range
<1>3. IsInjective(r)
  <2>1. ASSUME NEW i \in 1 .. Len(q) + 1, NEW j \in 1 .. Len(q) + 1, r[i] = r[j]
        PROVE  i = j
    <3>1. CASE i \in 1 .. Len(q) /\ j \in 1 .. Len(q)
      BY <1>1, <2>1, <3>1, Zenon DEF IsInjective
    <3>2. CASE i = Len(q) + 1 \/ j = Len(q) + 1
      BY <1>1, <1>2, <2>1, <3>2
    <3> QED BY <1>1, <3>1, <3>2
  <2> QED BY <1>1, <2>1, Zenon DEF IsInjective
<1>4. Range(r) = Range(q) \cup {t}
  <2>1. ASSUME NEW i \in 1 .. Len(q) + 1 PROVE r[i] \in Range(q) \cup {t}
    <3>1. CASE i \in 1 .. Len(q)
      BY <1>1, <3>1, Zenon DEF Range
    <3>2. CASE i = Len(q) + 1
      BY <1>1, <3>2, Zenon
    <3> QED BY <1>1, <3>1, <3>2
  <2>2. ASSUME NEW i \in 1 .. Len(q) PROVE q[i] \in Range(r)
    <3>1. i \in DOMAIN r /\ r[i] = q[i]
      BY <1>1
    <3> QED BY <3>1, Zenon DEF Range
  <2>3. t \in Range(r)
    BY <1>1 DEF Range
  <2>4. Range(r) \subseteq Range(q) \cup {t}
    BY <1>1, <2>1, Zenon DEF Range
  <2>5. Range(q) \subseteq Range(r)
    BY <1>1, <2>2, Zenon DEF Range
  <2> QED BY <2>3, <2>4, <2>5, Zenon
<1> QED BY <1>1, <1>3, <1>4, Zenon DEF r

\* There are finitely many threads.
LEMMA TidFinite == IsFiniteSet(Tid)
BY FS_Interval, ThreadsAssumption DEF Tid

\* Counting threads.
LEMMA SubsetCard ==
  ASSUME NEW A \in SUBSET Tid, NEW B \in SUBSET A
  PROVE  /\ Cardinality(A) \in Nat /\ Cardinality(B) \in Nat
         /\ Cardinality(B) <= Cardinality(A)
<1>1. IsFiniteSet(A)
  BY TidFinite, FS_Subset, Zenon
<1> QED BY <1>1, FS_Subset, FS_CardinalityType, Zenon

-----------------------------------------------------------------------------
(* What a step on the threads does to the invariants                       *)

\* The thread that has the processor is RUNNING, hence in no queue.
LEMMA Current ==
  ASSUME ThreadsInv, Running
  PROVE  /\ currentThread \in Tid /\ status[currentThread] = "RUNNING"
         /\ resume[currentThread] = "none" /\ ~Asleep(currentThread)
<1>1. currentThread \in Tid /\ status[currentThread] = "RUNNING"
  BY Zenon DEF ThreadsInv, ThreadsTypeOK, OneRunning
<1> QED BY <1>1, Zenon DEF ThreadsInv, Fits, Asleep

\* A step that leaves the processor where it is and at most makes sleeping
\* threads ready.
LEMMA PlacesKept ==
  ASSUME SynchInv,
         UNCHANGED <<resume, currentThread, mode>>,
         \A t \in Tid : \/ status'[t] = status[t]
                        \/ Asleep(t) /\ status'[t] = "READY",
         \/ frame' = frame /\ level' = level
         \/ /\ Running
            /\ \E f : frame' = [frame EXCEPT ![currentThread] = f]
            /\ level' = "IntOn" <=> Preemptible(frame'[currentThread])
  PROVE  Placed(status, resume, frame)' /\ LevelFits'
<1>1. Placed(status, resume, frame) /\ LevelFits /\ ThreadsInv
  BY Zenon DEF SynchInv
<1>2. CASE frame' = frame /\ level' = level
  BY <1>1, <1>2, Zenon DEF Placed, LevelFits, Running, Preemptible, Asleep
<1>3. CASE /\ Running
           /\ \E f : frame' = [frame EXCEPT ![currentThread] = f]
           /\ level' = "IntOn" <=> Preemptible(frame'[currentThread])
  <2>1. /\ currentThread \in Tid /\ status[currentThread] = "RUNNING"
        /\ resume[currentThread] = "none" /\ ~Asleep(currentThread)
    BY <1>1, <1>3, Current, Zenon
  <2>2. \A t \in Tid \ {currentThread} : frame'[t] = frame[t]
    BY <1>3, SynchInv, Zenon DEF SynchInv, QueuesExact, SynchTypeOK
  <2>3. Placed(status, resume, frame)'
    BY <1>1, <2>1, <2>2 DEF Placed, Preemptible, Asleep
  <2>4. LevelFits'
    BY <1>3, Zenon DEF LevelFits, Running, Preemptible
  <2> QED BY <2>3, <2>4, Zenon
<1> QED BY <1>2, <1>3, Zenon

\* Nobody begins or ends to sleep.
LEMMA QueuesKept ==
  ASSUME QueuesExact, SynchTypeOK', UNCHANGED <<queue, waitingQueue>>,
         \A t \in Tid : Asleep(t)' <=> Asleep(t),
         \A t \in Tid : Asleep(t) => frame'[t] = frame[t]
  PROVE  QueuesExact'
<1>1. ASSUME NEW t \in Tid
      PROVE  /\ Asleep(t)' => frame'[t].at \in {"P", "WaitSleep"}
             /\ \A s : /\ Asleep(t)' /\ frame'[t].at = "P" /\ frame'[t].sem = s
                       <=> Asleep(t) /\ frame[t].at = "P" /\ frame[t].sem = s
             /\ \A k : /\ Asleep(t)' /\ frame'[t].at = "WaitSleep" /\ frame'[t].cond = k
                       <=> Asleep(t) /\ frame[t].at = "WaitSleep" /\ frame[t].cond = k
  BY Zenon DEF QueuesExact
<1> QED BY <1>1, ZenonT(30) DEF QueuesExact

\* The head of the queue of s is woken.
LEMMA SemaphoreWakes ==
  ASSUME QueuesExact, SynchTypeOK', NEW s \in Sema, queue[s] # << >>,
         queue' = [queue EXCEPT ![s] = Tail(@)], waitingQueue' = waitingQueue,
         \A t \in Tid : Asleep(t)' <=> Asleep(t) /\ t # Head(queue[s]),
         \A t \in Tid : Asleep(t) => frame'[t] = frame[t]
  PROVE  QueuesExact'
<1> DEFINE w == Head(queue[s])
<1>1. queue \in [Sema -> Seq(Tid)] /\ waitingQueue \in [Conditions -> Seq(Tid)]
  BY Zenon DEF QueuesExact, SynchTypeOK
<1>2. /\ w \in Tid /\ w \in Range(queue[s])
      /\ Range(Tail(queue[s])) = Range(queue[s]) \ {w}
      /\ IsInjective(Tail(queue[s]))
  BY <1>1, QueueTake, Zenon DEF QueuesExact
<1>3. Asleep(w) /\ frame[w].at = "P" /\ frame[w].sem = s
  BY <1>2, Zenon DEF QueuesExact
<1> HIDE DEF w
<1>4. \A t \in Tid : Asleep(t)' => frame'[t].at \in {"P", "WaitSleep"}
  BY Zenon DEF QueuesExact
<1>5. ASSUME NEW r \in Sema
      PROVE  /\ Range(queue'[r]) = {t \in Tid : /\ Asleep(t)'
                                                /\ frame'[t].at = "P"
                                                /\ frame'[t].sem = r}
             /\ IsInjective(queue'[r])
  <2>1. Range(queue'[r]) = Range(queue[r]) \ {w} /\ IsInjective(queue'[r])
    <3>1. CASE r = s
      BY <1>1, <1>2, <3>1, Zenon DEF w
    <3>2. CASE r # s
      BY <1>1, <1>3, <3>2, ZenonT(30) DEF QueuesExact
    <3> QED BY <3>1, <3>2, Zenon
  <2> QED BY <2>1, ZenonT(30) DEF QueuesExact, w
<1>6. ASSUME NEW k \in Conditions
      PROVE  /\ Range(waitingQueue'[k]) = {t \in Tid : /\ Asleep(t)'
                                                       /\ frame'[t].at = "WaitSleep"
                                                       /\ frame'[t].cond = k}
             /\ IsInjective(waitingQueue'[k])
  BY <1>3, ZenonT(30) DEF QueuesExact, w
<1> QED BY <1>4, <1>5, <1>6, Zenon DEF QueuesExact

\* The head of the queue of the condition k is woken.
LEMMA ConditionWakes ==
  ASSUME QueuesExact, SynchTypeOK', NEW k \in Conditions, waitingQueue[k] # << >>,
         waitingQueue' = [waitingQueue EXCEPT ![k] = Tail(@)], queue' = queue,
         \A t \in Tid : Asleep(t)' <=> Asleep(t) /\ t # Head(waitingQueue[k]),
         \A t \in Tid : Asleep(t) => frame'[t] = frame[t]
  PROVE  QueuesExact'
<1> DEFINE w == Head(waitingQueue[k])
<1>1. queue \in [Sema -> Seq(Tid)] /\ waitingQueue \in [Conditions -> Seq(Tid)]
  BY Zenon DEF QueuesExact, SynchTypeOK
<1>2. /\ w \in Tid /\ w \in Range(waitingQueue[k])
      /\ Range(Tail(waitingQueue[k])) = Range(waitingQueue[k]) \ {w}
      /\ IsInjective(Tail(waitingQueue[k]))
  BY <1>1, QueueTake, Zenon DEF QueuesExact
<1>3. Asleep(w) /\ frame[w].at = "WaitSleep" /\ frame[w].cond = k
  BY <1>2, Zenon DEF QueuesExact
<1> HIDE DEF w
<1>4. \A t \in Tid : Asleep(t)' => frame'[t].at \in {"P", "WaitSleep"}
  BY Zenon DEF QueuesExact
<1>5. ASSUME NEW j \in Conditions
      PROVE  /\ Range(waitingQueue'[j]) = {t \in Tid : /\ Asleep(t)'
                                                       /\ frame'[t].at = "WaitSleep"
                                                       /\ frame'[t].cond = j}
             /\ IsInjective(waitingQueue'[j])
  <2>1. Range(waitingQueue'[j]) = Range(waitingQueue[j]) \ {w} /\ IsInjective(waitingQueue'[j])
    <3>1. CASE j = k
      BY <1>1, <1>2, <3>1, Zenon DEF w
    <3>2. CASE j # k
      BY <1>1, <1>3, <3>2, Zenon DEF QueuesExact
    <3> QED BY <3>1, <3>2, Zenon
  <2> QED BY <2>1, ZenonT(30) DEF QueuesExact, w
<1>6. ASSUME NEW s \in Sema
      PROVE  /\ Range(queue'[s]) = {t \in Tid : /\ Asleep(t)'
                                                /\ frame'[t].at = "P"
                                                /\ frame'[t].sem = s}
             /\ IsInjective(queue'[s])
  BY <1>3, Zenon DEF QueuesExact, w
<1> QED BY <1>4, <1>5, <1>6, Zenon DEF QueuesExact

\* The thread c, at P's test of s, joins the queue of s and sleeps.
LEMMA SemaphoreSleeps ==
  ASSUME QueuesExact, SynchTypeOK', NEW s \in Sema, NEW c \in Tid, ~Asleep(c),
         frame[c].at = "P", frame[c].sem = s, frame' = frame,
         queue' = [queue EXCEPT ![s] = Append(@, c)], waitingQueue' = waitingQueue,
         \A t \in Tid : Asleep(t)' <=> Asleep(t) \/ t = c
  PROVE  QueuesExact'
<1>1. queue \in [Sema -> Seq(Tid)] /\ waitingQueue \in [Conditions -> Seq(Tid)]
  BY Zenon DEF QueuesExact, SynchTypeOK
<1>2. c \notin Range(queue[s]) /\ IsInjective(queue[s]) /\ queue[s] \in Seq(Tid)
  BY <1>1, Zenon DEF QueuesExact
<1>3. /\ Range(Append(queue[s], c)) = Range(queue[s]) \cup {c}
      /\ IsInjective(Append(queue[s], c))
  BY <1>2, QueueAppend, Zenon
<1>4. \A t \in Tid : Asleep(t)' => frame'[t].at \in {"P", "WaitSleep"}
  BY Zenon DEF QueuesExact
<1>5. ASSUME NEW r \in Sema
      PROVE  /\ Range(queue'[r]) = {t \in Tid : /\ Asleep(t)'
                                                /\ frame'[t].at = "P"
                                                /\ frame'[t].sem = r}
             /\ IsInjective(queue'[r])
  <2>1. CASE r = s
    BY <1>1, <1>3, <2>1 DEF QueuesExact
  <2>2. CASE r # s
    BY <1>1, <2>2, Zenon DEF QueuesExact
  <2> QED BY <2>1, <2>2, Zenon
<1>6. ASSUME NEW k \in Conditions
      PROVE  /\ Range(waitingQueue'[k]) = {t \in Tid : /\ Asleep(t)'
                                                       /\ frame'[t].at = "WaitSleep"
                                                       /\ frame'[t].cond = k}
             /\ IsInjective(waitingQueue'[k])
  BY Zenon DEF QueuesExact
<1> QED BY <1>4, <1>5, <1>6, Zenon DEF QueuesExact

\* The thread c joins the queue of the condition k and sleeps.
LEMMA ConditionSleeps ==
  ASSUME QueuesExact, SynchTypeOK', NEW k \in Conditions, NEW c \in Tid, ~Asleep(c),
         frame'[c].at = "WaitSleep", frame'[c].cond = k,
         \A t \in Tid \ {c} : frame'[t] = frame[t],
         waitingQueue' = [waitingQueue EXCEPT ![k] = Append(@, c)], queue' = queue,
         \A t \in Tid : Asleep(t)' <=> Asleep(t) \/ t = c
  PROVE  QueuesExact'
<1>1. queue \in [Sema -> Seq(Tid)] /\ waitingQueue \in [Conditions -> Seq(Tid)]
  BY Zenon DEF QueuesExact, SynchTypeOK
<1>2. c \notin Range(waitingQueue[k]) /\ IsInjective(waitingQueue[k])
      /\ waitingQueue[k] \in Seq(Tid)
  BY <1>1, Zenon DEF QueuesExact
<1>3. /\ Range(Append(waitingQueue[k], c)) = Range(waitingQueue[k]) \cup {c}
      /\ IsInjective(Append(waitingQueue[k], c))
  BY <1>2, QueueAppend, Zenon
<1>4. \A t \in Tid : Asleep(t)' => frame'[t].at \in {"P", "WaitSleep"}
  BY Zenon DEF QueuesExact
<1>5. ASSUME NEW j \in Conditions
      PROVE  /\ Range(waitingQueue'[j]) = {t \in Tid : /\ Asleep(t)'
                                                       /\ frame'[t].at = "WaitSleep"
                                                       /\ frame'[t].cond = j}
             /\ IsInjective(waitingQueue'[j])
  <2>1. CASE j = k
    <3>1. waitingQueue'[j] = Append(waitingQueue[k], c)
      BY <1>1, <2>1, Zenon
    <3>2. Range(waitingQueue[k]) = {t \in Tid : /\ Asleep(t)
                                               /\ frame[t].at = "WaitSleep"
                                               /\ frame[t].cond = k}
      BY Zenon DEF QueuesExact
    <3>3. Range(waitingQueue'[j]) = {t \in Tid : /\ Asleep(t)'
                                                /\ frame'[t].at = "WaitSleep"
                                                /\ frame'[t].cond = j}
      BY <1>3, <2>1, <3>1, <3>2, ZenonT(30)
    <3> QED BY <1>3, <3>1, <3>3, Zenon
  <2>2. CASE j # k
    BY <1>1, <2>2, ZenonT(30) DEF QueuesExact
  <2> QED BY <2>1, <2>2, Zenon
<1>6. ASSUME NEW s \in Sema
      PROVE  /\ Range(queue'[s]) = {t \in Tid : /\ Asleep(t)'
                                                /\ frame'[t].at = "P"
                                                /\ frame'[t].sem = s}
             /\ IsInjective(queue'[s])
  BY DEF QueuesExact
<1> QED BY <1>4, <1>5, <1>6, Zenon DEF QueuesExact

\* No wakeup of s is lost while its value stays and no thread on its way to
\* P's test of s leaves it.
LEMMA WokenKept ==
  ASSUME NoLostWakeup, NEW s \in Sema, value'[s] = value[s], value[s] \in Nat,
         queue'[s] # << >> => queue[s] # << >>,
         \A t \in Woken(s) : t \in Woken(s)'
  PROVE  queue'[s] # << >> => value'[s] <= Cardinality(Woken(s)')
<1>1. Woken(s)' \in SUBSET Tid /\ Woken(s) \in SUBSET (Woken(s)')
  BY Zenon DEF Woken
<1>2. /\ Cardinality(Woken(s)') \in Nat /\ Cardinality(Woken(s)) \in Nat
      /\ Cardinality(Woken(s)) <= Cardinality(Woken(s)')
  BY <1>1, SubsetCard, Zenon
<1> QED BY <1>2 DEF NoLostWakeup

-----------------------------------------------------------------------------
(* What a switch of threads does to the invariants                         *)

\* t has the processor or waits for it.
Live(t) == status[t] \in {"READY", "RUNNING"}

\* Scheduler::Run, called at a SwitchPoint where every thread is placed.
LEMMA RunPlaces ==
  ASSUME NEW next, NEW st, NEW ctx, NEW list, NEW carcass,
         SwitchPoint(next, st, ctx, list, carcass),
         Run(next, st, ctx, list, carcass),
         Placed(st, ctx, frame')
  PROVE  /\ Placed(status, resume, frame)' /\ LevelFits'
         /\ \A t \in Tid : Asleep(t)' <=> st[t] = "BLOCKED" /\ ctx[t] = "Sleep"
         /\ \A t \in Tid : Live(t)' <=> st[t] = "READY"
<1> DEFINE destroyed == IF RunsTail(ctx[next]) THEN carcass ELSE NULL
<1>1. /\ currentThread' = next
      /\ status' = [t \in Tid |-> IF t = destroyed THEN "FREE"
                                  ELSE IF t = next THEN "RUNNING" ELSE st[t]]
      /\ resume' = [t \in Tid |-> IF t \in {destroyed, next}
                                  THEN "none" ELSE ctx[t]]
      /\ level' = RestoredLevel(ctx[next])
      /\ mode' = IF destroyed = next THEN "Aborted" ELSE "SystemMode"
  BY Zenon DEF Run
<1>2. /\ next \in Tid /\ st[next] = "READY"
      /\ destroyed # NULL => st[destroyed] = "BLOCKED" /\ ctx[destroyed] = "Finish"
      /\ destroyed # next /\ NULL \notin Tid
  BY ThreadsAssumption, Zenon DEF SwitchPoint
<1>3. \A t \in Tid : t = destroyed => st[t] = "BLOCKED" /\ ctx[t] = "Finish"
  BY <1>2, Zenon
<1> HIDE DEF destroyed
<1>4. ctx[next] \in {"ThreadRoot", "Yield", "Sleep"}
  BY <1>2, Zenon DEF SwitchPoint, Fits, Placed
<1>5. Placed(status, resume, frame)'
  BY <1>1, <1>2, <1>3, Zenon DEF Placed
<1>6. LevelFits'
  <2>1. level' = "IntOn" <=> Preemptible(frame'[next])
    BY <1>1, <1>2, <1>4, Zenon DEF RestoredLevel, Preemptible, Placed
  <2> QED BY <1>1, <1>2, <2>1, Zenon DEF LevelFits, Running, Preemptible
<1>7. \A t \in Tid : Asleep(t)' <=> st[t] = "BLOCKED" /\ ctx[t] = "Sleep"
  BY <1>1, <1>2, <1>3, Zenon DEF Asleep
<1>8. \A t \in Tid : Live(t)' <=> st[t] = "READY"
  BY <1>1, <1>2, <1>3, Zenon DEF Live, SwitchPoint
<1> QED BY <1>5, <1>6, <1>7, <1>8, Zenon

\* The body of Thread::Sleep, called by Sleep and by Finish.
LEMMA SleepPlaces ==
  ASSUME SynchInv, Running, NEW context, NEW carcass, SleepAs(context, carcass),
         \/ /\ context = "Sleep" /\ carcass = threadToBeDestroyed
            /\ frame'[currentThread].at \in {"P", "WaitSleep"}
         \/ /\ context = "Finish" /\ carcass = currentThread
            /\ frame'[currentThread].at = "client",
         \A t \in Tid \ {currentThread} : frame'[t] = frame[t]
  PROVE  /\ Placed(status, resume, frame)' /\ LevelFits'
         /\ \A t \in Tid : Asleep(t)' <=>
              Asleep(t) \/ (t = currentThread /\ context = "Sleep")
         /\ \A t \in Tid : Live(t)' <=> Live(t) /\ t # currentThread
<1> DEFINE ctx == [resume EXCEPT ![currentThread] = context]
<1>1. /\ ThreadsInv /\ Placed(status, resume, frame)
      /\ status \in [Tid -> ThreadStatus] /\ resume \in [Tid -> Context]
  BY Zenon DEF SynchInv, ThreadsInv, ThreadsTypeOK
<1>2. /\ currentThread \in Tid /\ status[currentThread] = "RUNNING"
      /\ resume[currentThread] = "none" /\ ~Asleep(currentThread)
  BY <1>1, Current, Zenon
<1>3. \A t \in Tid \ {currentThread} : status[t] # "RUNNING"
  BY <1>1, Zenon DEF ThreadsInv, OneRunning
<1>4. /\ Blocked[currentThread] = "BLOCKED" /\ ctx[currentThread] = context
      /\ \A t \in Tid \ {currentThread} : Blocked[t] = status[t] /\ ctx[t] = resume[t]
  BY <1>1, <1>2, Zenon DEF Blocked
<1>5. Placed(Blocked, ctx, frame')
  BY <1>1, <1>2, <1>4, ZenonT(30) DEF Placed
<1>6. /\ \A t \in Tid : Blocked[t] = "BLOCKED" /\ ctx[t] = "Sleep" <=>
           Asleep(t) \/ (t = currentThread /\ context = "Sleep")
      /\ \A t \in Tid : Blocked[t] = "READY" <=> Live(t) /\ t # currentThread
  BY <1>2, <1>3, <1>4, ZenonT(30) DEF Asleep, Live
<1>7. CASE readyList # << >>
  <2>1. Run(Head(readyList).item, Blocked, ctx, Tail(readyList), carcass)
    BY <1>7, Zenon DEF SleepAs
  <2>2. SwitchPoint(Head(readyList).item, Blocked, ctx, Tail(readyList), carcass)
    BY <1>1, <1>7, SleepSwitches, Zenon
  <2> HIDE DEF ctx
  <2> QED BY <1>5, <1>6, <2>1, <2>2, RunPlaces, SMTT(30)
<1>8. CASE readyList = << >>
  <2>1. status' = Blocked /\ resume' = ctx /\ mode' = "IdleMode"
    BY <1>8, Zenon DEF SleepAs
  <2>2. Placed(status, resume, frame)'
    BY <1>5, <2>1, Zenon
  <2>3. \A t \in Tid : status'[t] # "RUNNING"
    BY <1>2, <1>3, <1>4, <2>1, ZenonT(30)
  <2>4. LevelFits'
    BY <2>1, <2>3, Zenon DEF LevelFits, Running
  <2>5. \A t \in Tid : Asleep(t)' <=> Blocked[t] = "BLOCKED" /\ ctx[t] = "Sleep"
    BY <2>1, Zenon DEF Asleep
  <2>6. \A t \in Tid : Live(t)' <=> Blocked[t] = "READY"
    BY <2>1, <2>3, Zenon DEF Live
  <2> QED BY <1>6, <2>2, <2>4, <2>5, <2>6, ZenonT(30)
<1> QED BY <1>7, <1>8, Zenon

\* The thread package's own operations, which leave every thread where it is.
LEMMA ThreadStepPlaces ==
  ASSUME SynchInv, ClientThreads \/ MachineStep
  PROVE  /\ Placed(status, resume, frame)' /\ LevelFits'
         /\ \A t \in Tid : Asleep(t)' <=> Asleep(t)
         /\ \A t \in Tid : frame[t].at = "P" => (Live(t)' <=> Live(t))
<1>1. /\ ThreadsInv /\ Placed(status, resume, frame) /\ LevelFits
      /\ status \in [Tid -> ThreadStatus] /\ resume \in [Tid -> Context]
      /\ frame' = frame
  BY Zenon DEF SynchInv, ThreadsInv, ThreadsTypeOK, ClientThreads, MachineStep, synchVars
<1>2. ASSUME Running
      PROVE  /\ currentThread \in Tid /\ status[currentThread] = "RUNNING"
             /\ resume[currentThread] = "none" /\ ~Asleep(currentThread)
             /\ \A t \in Tid \ {currentThread} : status[t] # "RUNNING"
  BY <1>1, <1>2, Current, Zenon DEF ThreadsInv, OneRunning
<1>3. ASSUME At("client"), NEW p, NewThread(p)
      PROVE  /\ Placed(status, resume, frame)' /\ LevelFits'
             /\ \A t \in Tid : Asleep(t)' <=> Asleep(t)
             /\ \A t \in Tid : frame[t].at = "P" => (Live(t)' <=> Live(t))
  <2> DEFINE free == {t \in Tid : status[t] = "FREE"}
  <2>1. /\ resume' = resume /\ currentThread' = currentThread /\ level' = level
        /\ \/ mode' = "Exhausted" /\ status' = status
           \/ /\ mode' = mode
              /\ status' = [status EXCEPT ![Min(free)] = "JUST_CREATED"]
              /\ Min(free) \in free
    <3>1. ASSUME free # {} PROVE Min(free) \in free
      <4>1. Tid \subseteq Nat
        BY ThreadsAssumption DEF Tid
      <4> QED BY <3>1, <4>1, MinIsLeast, Zenon
    <3> QED BY <1>3, <3>1, Zenon DEF NewThread
  <2>2. CASE mode' = "Exhausted" /\ status' = status
    BY <1>1, <1>2, <1>3, <2>1, <2>2, ZenonT(30) DEF Placed, LevelFits, Asleep, Live, Running, At
  <2>3. CASE /\ mode' = mode
             /\ status' = [status EXCEPT ![Min(free)] = "JUST_CREATED"]
             /\ Min(free) \in free
    <3> DEFINE new == Min(free)
    <3>1. new \in Tid /\ status[new] = "FREE" /\ status' = [status EXCEPT ![new] = "JUST_CREATED"]
      BY <2>3, Zenon
    <3> HIDE DEF new
    <3>2. Placed(status, resume, frame)'
      BY <1>1, <2>1, <3>1, Zenon DEF Placed
    <3> QED BY <1>1, <1>3, <2>1, <2>3, <3>1, <3>2, ZenonT(30) DEF Placed, LevelFits, Asleep, Live, Running, At
  <2> QED BY <2>1, <2>2, <2>3, Zenon
<1>4. ASSUME At("client"), NEW u \in Tid, Fork(u)
      PROVE  /\ Placed(status, resume, frame)' /\ LevelFits'
             /\ \A t \in Tid : Asleep(t)' <=> Asleep(t)
             /\ \A t \in Tid : frame[t].at = "P" => (Live(t)' <=> Live(t))
  <2>1. /\ status[u] = "JUST_CREATED" /\ resume' = [resume EXCEPT ![u] = "ThreadRoot"]
        /\ status' = [status EXCEPT ![u] = "READY"]
        /\ UNCHANGED <<level, mode, currentThread>>
    BY <1>4, Zenon DEF Fork, ReadyToRun
  <2>2. Placed(status, resume, frame)'
    BY <1>1, <2>1, Zenon DEF Placed
  <2> QED BY <1>1, <1>4, <2>1, <2>2, ZenonT(30) DEF Placed, LevelFits, Asleep, Live, Running, At
<1>5. ASSUME At("client"), Finish
      PROVE  /\ Placed(status, resume, frame)' /\ LevelFits'
             /\ \A t \in Tid : Asleep(t)' <=> Asleep(t)
             /\ \A t \in Tid : frame[t].at = "P" => (Live(t)' <=> Live(t))
  <2>1. Running /\ frame'[currentThread].at = "client"
    BY <1>1, <1>5, Zenon DEF At
  <2>2. /\ Placed(status, resume, frame)' /\ LevelFits'
        /\ \A t \in Tid : Asleep(t)' <=>
             Asleep(t) \/ (t = currentThread /\ "Finish" = "Sleep")
        /\ \A t \in Tid : Live(t)' <=> Live(t) /\ t # currentThread
    BY <1>1, <1>5, <2>1, SleepPlaces, ZenonT(30) DEF Finish
  <2> QED BY <1>1, <2>1, <2>2, Zenon
<1>6. ASSUME TimerYield
      PROVE  /\ Placed(status, resume, frame)' /\ LevelFits'
             /\ \A t \in Tid : Asleep(t)' <=> Asleep(t)
             /\ \A t \in Tid : Live(t)' <=> Live(t)
  <2>1. CASE readyList = << >>
    BY <1>1, <1>6, <2>1, Zenon DEF TimerYield, Yield, threadVars, Placed, LevelFits, Asleep, Live, Running
  <2>2. CASE readyList # << >>
    <3> DEFINE st == [status EXCEPT ![currentThread] = "READY"]
               ctx == [resume EXCEPT ![currentThread] =
                         IF level = "IntOn" THEN "Yield" ELSE "YieldOff"]
    <3>1. /\ Run(Head(readyList).item, st, ctx, ListAfterYield, threadToBeDestroyed)
          /\ Running /\ level = "IntOn"
      BY <1>6, <2>2, Zenon DEF TimerYield, Yield
    <3>2. SwitchPoint(Head(readyList).item, st, ctx, ListAfterYield, threadToBeDestroyed)
      BY <1>1, <2>2, <3>1, YieldSwitches, ZenonT(30)
    <3>3. /\ st[currentThread] = "READY" /\ ctx[currentThread] = "Yield"
          /\ \A t \in Tid \ {currentThread} : st[t] = status[t] /\ ctx[t] = resume[t]
      BY <1>1, <1>2, <3>1, Zenon
    <3> HIDE DEF st, ctx
    <3>4. Preemptible(frame[currentThread])
      BY <1>1, <3>1, Zenon DEF LevelFits
    <3>5. Placed(st, ctx, frame')
      BY <1>1, <1>2, <3>1, <3>3, <3>4, ZenonT(30) DEF Placed
    <3>6. /\ \A t \in Tid : st[t] = "BLOCKED" /\ ctx[t] = "Sleep" <=> Asleep(t)
          /\ \A t \in Tid : st[t] = "READY" <=> Live(t)
      BY <1>2, <3>1, <3>3, Zenon DEF Asleep, Live
    <3> QED BY <3>1, <3>2, <3>5, <3>6, RunPlaces, SMTT(30)
  <2> QED BY <2>1, <2>2, Zenon
<1>7. ASSUME Dispatch
      PROVE  /\ Placed(status, resume, frame)' /\ LevelFits'
             /\ \A t \in Tid : Asleep(t)' <=> Asleep(t)
             /\ \A t \in Tid : Live(t)' <=> Live(t)
  <2>1. Run(Head(readyList).item, status, resume, Tail(readyList), threadToBeDestroyed)
    BY <1>7, Zenon DEF Dispatch
  <2>2. SwitchPoint(Head(readyList).item, status, resume, Tail(readyList), threadToBeDestroyed)
    BY <1>1, <1>7, DispatchSwitches, Zenon
  <2>3. \A t \in Tid : status[t] # "RUNNING"
    BY <2>2, Zenon DEF SwitchPoint
  <2> QED BY <1>1, <2>1, <2>2, <2>3, RunPlaces, SMTT(30) DEF Asleep, Live
<1>8. ASSUME \/ mode = "IdleMode" /\ Halt
             \/ Stopped
      PROVE  /\ Placed(status, resume, frame)' /\ LevelFits'
             /\ \A t \in Tid : Asleep(t)' <=> Asleep(t)
             /\ \A t \in Tid : Live(t)' <=> Live(t)
  <2>1. UNCHANGED <<status, resume>> /\ ~Running /\ mode' # "SystemMode"
    BY <1>8, Zenon DEF Halt, Stopped, Running, threadVars
  <2> QED BY <1>1, <2>1, Zenon DEF Placed, LevelFits, Asleep, Live, Running
<1> QED BY <1>3, <1>4, <1>5, <1>6, <1>7, <1>8, ZenonT(30) DEF ClientThreads, MachineStep

-----------------------------------------------------------------------------
(* Synch uses the thread package as its comments allow                     *)

\* Waiters are asleep, so V and WakeFirst make a sleeping thread ready.
LEMMA HeadAsleep ==
  ASSUME QueuesExact
  PROVE  /\ \A s \in Sema : queue[s] # << >> =>
              /\ Head(queue[s]) \in Tid /\ Asleep(Head(queue[s]))
              /\ frame[Head(queue[s])].at = "P" /\ frame[Head(queue[s])].sem = s
         /\ \A k \in Conditions : waitingQueue[k] # << >> =>
              /\ Head(waitingQueue[k]) \in Tid /\ Asleep(Head(waitingQueue[k]))
<1>1. ASSUME NEW s \in Sema, queue[s] # << >>
      PROVE  /\ Head(queue[s]) \in Tid /\ Asleep(Head(queue[s]))
             /\ frame[Head(queue[s])].at = "P" /\ frame[Head(queue[s])].sem = s
  <2>1. queue[s] \in Seq(Tid) /\ IsInjective(queue[s])
    BY Zenon DEF QueuesExact, SynchTypeOK
  <2>2. Head(queue[s]) \in Tid /\ Head(queue[s]) \in Range(queue[s])
    BY <1>1, <2>1, QueueTake, Zenon
  <2> QED BY <2>2, Zenon DEF QueuesExact
<1>2. ASSUME NEW k \in Conditions, waitingQueue[k] # << >>
      PROVE  Head(waitingQueue[k]) \in Tid /\ Asleep(Head(waitingQueue[k]))
  <2>1. waitingQueue[k] \in Seq(Tid) /\ IsInjective(waitingQueue[k])
    BY Zenon DEF QueuesExact, SynchTypeOK
  <2>2. Head(waitingQueue[k]) \in Tid /\ Head(waitingQueue[k]) \in Range(waitingQueue[k])
    BY <1>2, <2>1, QueueTake, Zenon
  <2> QED BY <2>2, Zenon DEF QueuesExact
<1> QED BY <1>1, <1>2, Zenon

\* The places where the level is IntOff, and the locals there.
LEMMA Inside ==
  ASSUME SynchInv, Running
  PROVE  /\ currentThread \in Tid /\ me \in Frame /\ level \in IntStatus
         /\ me.at \in {"P", "WaitRelease", "WaitAppend", "WaitSleep", "Broadcast"} =>
              level = "IntOff"
         /\ me.at = "client" => level = "IntOn"
         /\ me.at = "Acquired" => (level = "IntOn" <=> me.cond = NULL)
         /\ me.cond # NULL => me.old = "IntOn"
         /\ me.at \in {"WaitRelease", "WaitAppend", "WaitSleep", "Broadcast"} =>
              me.cond \in Conditions /\ me.old = "IntOn"
         /\ me.at \in {"P", "Acquired"} => me.sem \in Sema
<1>1. currentThread \in Tid /\ level \in IntStatus
  BY Zenon DEF SynchInv, ThreadsInv, ThreadsTypeOK
<1>2. me \in Frame
  BY <1>1, Zenon DEF SynchInv, QueuesExact, SynchTypeOK, me
<1>3. level = "IntOn" <=> Preemptible(me)
  BY Zenon DEF SynchInv, LevelFits, me
<1>4. locks \subseteq Locks /\ holds[currentThread] \subseteq Locks
  BY <1>1, Zenon DEF SynchInv, QueuesExact, SynchTypeOK
<1>5. /\ me.cond # NULL => me.old = "IntOn"
      /\ me.at \in {"WaitRelease", "WaitAppend", "WaitSleep", "Broadcast"} =>
           me.cond # NULL
      /\ me.at \in {"P", "Acquired"} => me.sem \in Semaphores \cup locks \cup holds[currentThread]
  BY <1>1, Zenon DEF SynchInv, FramesFit, FrameFits, me
<1>6. me.cond \in Conditions \cup {NULL}
  BY <1>2, Zenon DEF Frame
<1> QED BY <1>1, <1>2, <1>3, <1>4, <1>5, <1>6, ZenonT(30) DEF Preemptible, IntStatus, Sema

\* Semaphore::V wakes the head of the queue, if there is one.
LEMMA VWakes ==
  ASSUME QueuesExact, NEW s \in Sema, V(s), Running \/ mode = "IdleMode"
  PROVE  \/ Wake(Head(queue[s])) /\ Head(queue[s]) \in Tid
         \/ UNCHANGED threadVars
BY HeadAsleep, Zenon DEF V, Waiter, Wake, LevelAfterV, threadVars

\* Every step of Synch is a step of the thread package, or none.
LEMMA StepRefines ==
  SynchInv /\ [SynchNext]_vars => [ThreadsNext]_threadVars
<1> SUFFICES ASSUME SynchInv, [SynchNext]_vars PROVE [ThreadsNext]_threadVars
  OBVIOUS
<1>1. QueuesExact
  BY Zenon DEF SynchInv
<1>2. ASSUME NEW s \in Sema, PCall(s) PROVE ThreadsNext
  BY <1>2, Zenon DEF PCall, LevelInP, At, ThreadsNext
<1>3. ASSUME NEW s \in Sema, V(s), Running \/ mode = "IdleMode"
      PROVE  [ThreadsNext]_threadVars
  BY <1>1, <1>3, VWakes, Zenon DEF ThreadsNext
<1>4. ASSUME NEW s \in Semaphores, ClientV(s) \/ HandlerV(s)
      PROVE  [ThreadsNext]_threadVars
  BY <1>3, <1>4, Zenon DEF ClientV, HandlerV, At, Sema
<1>5. ASSUME NEW l \in Locks, NewLock(l) \/ Release(l)
      PROVE  [ThreadsNext]_threadVars
  BY <1>3, <1>5, Zenon DEF NewLock, Release, ReleaseBody, At, Sema
<1>6. ASSUME NEW k \in Conditions, WaitCall(k) \/ BroadcastCall(k)
      PROVE  ThreadsNext
  BY <1>6, Zenon DEF WaitCall, BroadcastCall, At, ThreadsNext
<1>7. ASSUME NEW k \in Conditions, Running, WakeFirst(k) PROVE ThreadsNext
  BY <1>1, <1>7, HeadAsleep, Zenon DEF WakeFirst, Wake, ThreadsNext
<1>8. CASE PSleep \/ WaitSleep
  BY <1>8, Inside, Zenon DEF PSleep, WaitSleep, At, me, ThreadsNext
<1>9. ASSUME Running, level = "IntOff", NEW now \in IntStatus, SetLevel(now)
      PROVE  ThreadsNext
  BY <1>9, Zenon DEF IntStatus, Enable, ThreadsNext
<1>10. CASE PTake
  <2>1. me.pOld \in IntStatus
    BY <1>10, Inside, Zenon DEF PTake, At, Frame
  <2> QED BY <1>9, <1>10, <2>1, Inside, ZenonT(30) DEF PTake, LevelAfterP, At, me
<1>11. CASE SetHolder
  BY <1>9, <1>11, Inside, Zenon DEF SetHolder, At, me, IntStatus
<1>12. CASE WaitRelease
  <2>1. LockOf[me.cond] \in Sema
    BY <1>12, Inside, SynchAssumption, Zenon DEF WaitRelease, At, me, Sema
  <2> QED BY <1>3, <1>12, <2>1, Zenon DEF WaitRelease, ReleaseBody, At
<1>13. CASE WaitAcquire
  BY <1>9, <1>13, Inside, Zenon DEF WaitAcquire, At, me, IntStatus
<1>14. CASE BroadcastWake
  BY <1>7, <1>14, Inside, Zenon DEF BroadcastWake, At, me
<1>15. CASE BroadcastReturn
  BY <1>9, <1>15, Inside, Zenon DEF BroadcastReturn, At, me, IntStatus
<1>16. ASSUME NEW k \in Conditions, Signal(k) PROVE ThreadsNext
  BY <1>7, <1>16, Zenon DEF Signal, At
<1>17. CASE ClientThreads
  BY <1>17, Zenon DEF ClientThreads, At, ThreadsNext
<1>18. CASE MachineStep
  BY <1>18, Zenon DEF MachineStep, ThreadsNext
<1>19. CASE UNCHANGED vars
  BY <1>19, Zenon DEF vars
<1> QED BY <1>2, <1>4, <1>5, <1>6, <1>8, <1>10, <1>11, <1>12, <1>13, <1>14,
           <1>15, <1>16, <1>17, <1>18, <1>19 DEF SynchNext, InRoutine

=============================================================================
