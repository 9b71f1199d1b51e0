------------------------------- MODULE Threads -------------------------------
(***************************************************************************)
(* The thread package: Thread (threads/thread.cc), Scheduler               *)
(* (threads/scheduler.cc) and the thread-id table of threads/system.cc.    *)
(*                                                                         *)
(* Nachos runs on one processor.  Only currentThread executes, and it      *)
(* loses the processor in three places only: Thread::Yield, Thread::Sleep  *)
(* and Thread::Finish.  The timer reaches the first of these through       *)
(* Interrupt::OneTick, which runs when interrupts are enabled.  One action *)
(* is therefore the code a thread executes up to its next SWITCH or to the *)
(* next change of the interrupt level; what the next thread does between   *)
(* its return from SWITCH and its return to its own caller (the tail of    *)
(* Scheduler::Run and the restored interrupt level) belongs to the action  *)
(* that switched to it, since nothing can come between.                    *)
(*                                                                         *)
(* A thread is named by its thread id: an id belongs to one Thread object  *)
(* from its constructor to its destructor.                                 *)
(*                                                                         *)
(* ThreadsSpec lets the code above the thread package use it in any order  *)
(* the package's comments allow; Synch refines it.                         *)
(***************************************************************************)
EXTENDS Integers, FiniteSets, List

CONSTANTS
  MaxThreadCount,  \* size of the thread-id table (threads/system.cc)
  Priorities,      \* the priorities the program creates threads with
  NULL

DefaultPriority == 255

Tid == 0 .. MaxThreadCount - 1

ASSUME ThreadsAssumption ==
  /\ MaxThreadCount \in Nat \ {0}
  /\ Priorities \subseteq 0 .. 255
  /\ NULL \notin Tid

VARIABLES
  status,               \* ThreadStatus of each id; "FREE": ThreadIDOccupied is false
  priority,             \* Thread::priority
  resume,               \* the saved context: where SWITCH returns to
  readyList,            \* Scheduler::readyList, sorted by priority
  currentThread,
  threadToBeDestroyed,
  level,                \* Interrupt::level
  mode                  \* Interrupt::status, or how the machine stopped

threadVars ==
  <<status, priority, resume, readyList, currentThread, threadToBeDestroyed,
    level, mode>>

ThreadStatus == {"FREE", "JUST_CREATED", "RUNNING", "READY", "BLOCKED"}

\* "none": the thread has no saved context (it is running or not yet forked).
\* "ThreadRoot": the frame StackAllocate built.  "Yield" and "YieldOff":
\* inside Yield called with interrupts enabled and disabled.  "Sleep": inside
\* Sleep.  "Finish": inside the Sleep that Finish called.
Context == {"none", "ThreadRoot", "Yield", "YieldOff", "Sleep", "Finish"}

IntStatus == {"IntOn", "IntOff"}

\* "Halted": Interrupt::Halt.  "Exhausted": ASSERT(allocated) failed in
\* Thread::Thread.  "Aborted": any other ASSERT failed.
MachineStatus == {"SystemMode", "IdleMode", "Halted", "Exhausted", "Aborted"}

Running == mode = "SystemMode"

\* Thread::Finish was called.
Finished(t) == status[t] # "FREE" /\ resume[t] = "Finish"

\* Initialize: the main thread runs with interrupts enabled.
ThreadsInit ==
  /\ status = [t \in Tid |-> IF t = 0 THEN "RUNNING" ELSE "FREE"]
  /\ priority = [t \in Tid |-> DefaultPriority]
  /\ resume = [t \in Tid |-> "none"]
  /\ readyList = << >>
  /\ currentThread = 0
  /\ threadToBeDestroyed = NULL
  /\ level = "IntOn"
  /\ mode = "SystemMode"

-----------------------------------------------------------------------------
(* Operations                                                              *)

\* Thread::Thread: the first free id, or ASSERT(allocated).
NewThread(p) ==
  LET free == {t \in Tid : status[t] = "FREE"}
      tid == Min(free)
  IN  /\ IF free = {}
         THEN /\ mode' = "Exhausted"
              /\ UNCHANGED <<status, priority>>
         ELSE /\ status' = [status EXCEPT ![tid] = "JUST_CREATED"]
              /\ priority' = [priority EXCEPT ![tid] = p]
              /\ UNCHANGED mode
      /\ UNCHANGED <<resume, readyList, currentThread, threadToBeDestroyed,
                     level>>

\* Scheduler::ReadyToRun on a thread that is not running.
ReadyToRun(t) ==
  /\ status' = [status EXCEPT ![t] = "READY"]
  /\ readyList' = SortedInsert(readyList, t, priority[t])
  /\ UNCHANGED <<priority, currentThread, threadToBeDestroyed, mode>>

\* Thread::Fork: StackAllocate, then ReadyToRun with interrupts disabled.
Fork(t) ==
  /\ status[t] = "JUST_CREATED"
  /\ resume' = [resume EXCEPT ![t] = "ThreadRoot"]
  /\ ReadyToRun(t)
  /\ UNCHANGED level

\* Thread::SetPriority, which the program calls on currentThread only.
SetPriority(p) ==
  /\ priority' = [priority EXCEPT ![currentThread] = p]
  /\ UNCHANGED <<status, resume, readyList, currentThread,
                 threadToBeDestroyed, level, mode>>

\* Interrupt::SetLevel.
SetLevel(now) ==
  /\ level' = now
  /\ UNCHANGED <<status, priority, resume, readyList, currentThread,
                 threadToBeDestroyed, mode>>

\* The interrupt level a thread restores once it is dispatched.  Sleep
\* restores none: it returns to its caller with interrupts disabled.
RestoredLevel(context) ==
  IF context \in {"ThreadRoot", "Yield"} THEN "IntOn" ELSE "IntOff"

\* Only a thread that returns from SWITCH executes the tail of
\* Scheduler::Run; a new thread starts in ThreadRoot instead.
RunsTail(context) == context # "ThreadRoot"

\* The tail deletes the carcass and resets the pointer to it.
CarcassKeptSet(context, carcass) == carcass  \* mutant: no reset
CarcassAfter(context, carcass) == IF RunsTail(context) THEN NULL ELSE carcass

\* Scheduler::Run(nextThread), up to nextThread's return to its own caller.
\* st, ctx, list and carcass are the values of status, resume, readyList and
\* threadToBeDestroyed that the caller of Run leaves behind.  The destructor
\* asserts that it does not delete currentThread, which is now nextThread.
Run(nextThread, st, ctx, list, carcass) ==
  LET destroyed == IF RunsTail(ctx[nextThread]) THEN carcass ELSE NULL
  IN  /\ currentThread' = nextThread
      /\ status' = [t \in Tid |-> IF t = destroyed THEN "FREE"
                                  ELSE IF t = nextThread THEN "RUNNING"
                                  ELSE st[t]]
      /\ resume' = [t \in Tid |-> IF t \in {destroyed, nextThread}
                                  THEN "none" ELSE ctx[t]]
      /\ readyList' = list
      /\ threadToBeDestroyed' = CarcassAfter(ctx[nextThread], carcass)
      /\ level' = RestoredLevel(ctx[nextThread])
      /\ mode' = IF destroyed = nextThread THEN "Aborted" ELSE "SystemMode"
      /\ UNCHANGED priority

\* FindNextToRun, then ReadyToRun(this).
ListAfterYield ==
  SortedInsert(Tail(readyList), currentThread, priority[currentThread])

\* Thread::Yield.
Yield ==
  IF readyList = << >>
  THEN UNCHANGED threadVars
  ELSE Run(Head(readyList).item,
           [status EXCEPT ![currentThread] = "READY"],
           [resume EXCEPT ![currentThread] =
              IF level = "IntOn" THEN "Yield" ELSE "YieldOff"],
           ListAfterYield,
           threadToBeDestroyed)

Blocked == [status EXCEPT ![currentThread] = "BLOCKED"]

\* The body of Thread::Sleep, entered by Sleep and by Finish: dispatch the
\* first ready thread, or idle with currentThread still set.
SleepAs(context, carcass) ==
  LET ctx == [resume EXCEPT ![currentThread] = context]
  IN  IF readyList # << >>
      THEN Run(Head(readyList).item, Blocked, ctx, Tail(readyList), carcass)
      ELSE /\ status' = Blocked
           /\ resume' = ctx
           /\ threadToBeDestroyed' = carcass
           /\ mode' = "IdleMode"
           /\ level' = "IntOff"
           /\ UNCHANGED <<priority, readyList, currentThread>>

SleepDestroys == SleepAs("Sleep", currentThread)  \* mutant: Finish's body

\* Thread::Sleep, with its ASSERT(interrupt->getLevel() == IntOff).
Sleep ==
  IF level = "IntOff"
  THEN SleepAs("Sleep", threadToBeDestroyed)
  ELSE /\ mode' = "Aborted"
       /\ UNCHANGED <<status, priority, resume, readyList, currentThread,
                      threadToBeDestroyed, level>>

\* Thread::Finish: it disables interrupts, so the ASSERT of Sleep holds.
Finish == SleepAs("Finish", currentThread)

\* Sleep's loop again, after Interrupt::Idle: an interrupt handler has made a
\* thread ready.
Dispatch ==
  /\ mode = "IdleMode"
  /\ readyList # << >>
  /\ Run(Head(readyList).item, status, resume, Tail(readyList),
         threadToBeDestroyed)

\* Interrupt::Halt, called by the running thread or by Idle.
Halt ==
  /\ Running \/ (mode = "IdleMode" /\ readyList = << >>)
  /\ mode' = "Halted"
  /\ UNCHANGED <<status, priority, resume, readyList, currentThread,
                 threadToBeDestroyed, level>>

-----------------------------------------------------------------------------
(* The thread package used in every way its comments allow                 *)

\* t waits in some queue, from which a thread that finished is absent.
Asleep(t) == status[t] = "BLOCKED" /\ resume[t] = "Sleep"

\* Synchronization code, or an interrupt handler, wakes a sleeping thread.
Wake(t) ==
  /\ Running \/ mode = "IdleMode"
  /\ Asleep(t)
  /\ ReadyToRun(t)
  /\ UNCHANGED <<resume, level>>

\* A time slice: Interrupt::OneTick yields on behalf of the timer handler.
TimerYield == Running /\ level = "IntOn" /\ Yield

Enable == Running /\ level = "IntOff" /\ SetLevel("IntOn")

Stopped == mode \in {"Halted", "Exhausted", "Aborted"} /\ UNCHANGED threadVars

ThreadsNext ==
  \/ Running /\ \E p \in Priorities : NewThread(p)
  \/ Running /\ \E t \in Tid : Fork(t)
  \/ Running /\ \E p \in Priorities : SetPriority(p)
  \/ Running /\ SetLevel("IntOff")
  \/ Enable
  \/ TimerYield
  \/ Running /\ level = "IntOff" /\ Yield
  \/ Running /\ level = "IntOff" /\ Sleep
  \/ Running /\ Finish
  \/ \E t \in Tid : Wake(t)
  \/ Dispatch
  \/ Halt
  \/ Stopped

ThreadsSpec == ThreadsInit /\ [][ThreadsNext]_threadVars

\* With the timer on (-rs or -rd), a thread whose code enables interrupts
\* again and again is preempted in the end, because every Off-to-On change
\* advances the clock towards the next timer interrupt.  Code that runs with
\* interrupts disabled comes to its end.
ThreadsFairSpec ==
  /\ ThreadsSpec
  /\ WF_threadVars(Enable)
  /\ SF_threadVars(TimerYield)
  /\ WF_threadVars(Dispatch)

-----------------------------------------------------------------------------
(* Properties                                                              *)

\* Every variable holds a value of its C++ type.
ThreadsTypeOK ==
  /\ status \in [Tid -> ThreadStatus]
  /\ priority \in [Tid -> 0 .. 255]
  /\ resume \in [Tid -> Context]
  /\ readyList \in Seq([item : Tid, key : 0 .. 255])
  /\ currentThread \in Tid
  /\ threadToBeDestroyed \in Tid \cup {NULL}
  /\ level \in IntStatus
  /\ mode \in MachineStatus

\* The ready list holds exactly the READY threads, each of them once: no
\* READY thread is lost, none can be dispatched twice, and no cell points to
\* a Thread that was deleted (scheduler.cc, ReadyToRun and FindNextToRun).
ReadyListExact ==
  /\ Items(readyList) = {t \in Tid : status[t] = "READY"}
  /\ \A i, j \in 1 .. Len(readyList) :
       readyList[i].item = readyList[j].item => i = j

\* The key copied into a cell is still its thread's priority, and the list is
\* in ascending order of it, whatever mix of ReadyToRun and SetPriority led
\* here (list.cc, SortedInsert).
ReadyListSorted ==
  /\ \A i \in 1 .. Len(readyList) :
       readyList[i].key = priority[readyList[i].item]
  /\ \A i, j \in 1 .. Len(readyList) :
       i < j => readyList[i].key <= readyList[j].key

\* While the machine runs, currentThread is the only RUNNING thread; while it
\* idles there is none (scheduler.cc, Run; thread.cc, Sleep).
OneRunning ==
  /\ Running => {t \in Tid : status[t] = "RUNNING"} = {currentThread}
  /\ mode = "IdleMode" => {t \in Tid : status[t] = "RUNNING"} = {}

\* threadToBeDestroyed, when set, is a thread that called Finish, that cannot
\* be dispatched any more and whose stack the processor has left (unless the
\* machine idles on it), so the delete in Scheduler::Run is safe.
CarcassSafe ==
  threadToBeDestroyed # NULL =>
    /\ Finished(threadToBeDestroyed)
    /\ status[threadToBeDestroyed] = "BLOCKED"
    /\ Running => threadToBeDestroyed # currentThread

\* Neither ASSERT(this != currentThread) in the destructor nor
\* ASSERT(interrupt->getLevel() == IntOff) in Sleep ever fails.
NoAssertFails == mode # "Aborted"

\* A context ctx[t] a thread of status st[t] can have.
Fits(st, ctx) ==
  \A t \in Tid :
    /\ st[t] = "READY" =>
         ctx[t] \in {"ThreadRoot", "Yield", "YieldOff", "Sleep"}
    /\ st[t] = "BLOCKED" => ctx[t] \in {"Sleep", "Finish"}
    /\ st[t] \notin {"READY", "BLOCKED"} => ctx[t] = "none"

\* The consistency of the thread package: the invariants above, and a saved
\* context that fits the status of its thread, so that whatever SWITCH resumes
\* was ready and a thread in Finish is never on the ready list (thread.cc and
\* scheduler.cc).  The conjunction is inductive.
ThreadsInv ==
  /\ ThreadsTypeOK
  /\ Fits(status, resume)
  /\ ReadyListExact
  /\ ReadyListSorted
  /\ OneRunning
  /\ CarcassSafe
  /\ NoAssertFails

\* A thread id is given back (and its Thread deleted) only after its thread
\* called Finish, and never while the processor is on that thread's stack.
OnlyFinishedFreed ==
  [][\A t \in Tid :
       status[t] # "FREE" /\ status'[t] = "FREE" =>
         /\ Finished(t) \/ t = currentThread
         /\ currentThread' # t]_threadVars

\* Whenever the processor changes hands, the thread that gets it has the
\* smallest priority number among the threads that were waiting for it.  The
\* thread that gave the processor up does not compete.
DispatchesBest ==
  [][currentThread' # currentThread =>
       \A i \in 1 .. Len(readyList') :
         readyList'[i].item # currentThread =>
           priority[currentThread'] <= readyList'[i].key]_threadVars

\* A READY thread gets the processor in the end, unless threads with a smaller
\* priority number run again and again: among equals the ready list is a queue
\* (scheduler.cc, ReadyToRun; list.cc, SortedInsert).
RunsUnlessOutranked ==
  \A t \in Tid :
    \/ []<>(priority[currentThread] < priority[t])
    \/ status[t] = "READY" ~>
         status[t] = "RUNNING" \/ mode \in {"Halted", "Exhausted", "Aborted"}

\* While the program runs, every thread that called Finish and was not deleted
\* is the one waiting to be deleted: "we set
\* threadToBeDestroyed, so that Scheduler::Run() will call the destructor,
\* once we're running in the context of a different thread" (thread.cc,
\* Finish).
CarcassKept ==
  Running => \A t \in Tid : Finished(t) => t = threadToBeDestroyed

=============================================================================
