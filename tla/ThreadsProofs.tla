---------------------------- MODULE ThreadsProofs ----------------------------
(***************************************************************************)
(* The safety of the thread package, for any number of thread ids and any  *)
(* set of priorities.                                                      *)
(*                                                                         *)
(* The inductive invariant is ThreadsInv of module Threads.  Its conjunct  *)
(* Fits, that a thread's saved context fits its status, is what makes it   *)
(* inductive: a READY thread can be resumed, and only a BLOCKED one can be *)
(* in Finish, so a carcass is never on the ready list.                     *)
(***************************************************************************)
EXTENDS Threads, ListProofs

ReadyCell == Cell(Tid, 0 .. 255)

\* What the callers of Scheduler::Run have established when they call it.
SwitchPoint(next, st, ctx, list, carcass) ==
  /\ next \in Tid /\ st[next] = "READY"
  /\ st \in [Tid -> ThreadStatus]
  /\ ctx \in [Tid -> Context]
  /\ Fits(st, ctx)
  /\ \A t \in Tid : st[t] # "RUNNING"
  /\ list \in Seq(ReadyCell)
  /\ Items(list) = {t \in Tid : st[t] = "READY"} \ {next}
  /\ Distinct(list) /\ Sorted(list)
  /\ \A i \in 1 .. Len(list) : list[i].key = priority[list[i].item]
  /\ carcass \in Tid \cup {NULL}
  /\ carcass # NULL => st[carcass] = "BLOCKED" /\ ctx[carcass] = "Finish"

\* Scheduler::Run, called at a SwitchPoint, leaves the thread package in a
\* consistent state, whichever context it resumes and whether or not it
\* deletes a carcass.
LEMMA RunKeepsInv ==
  ASSUME NEW next, NEW st, NEW ctx, NEW list, NEW carcass,
         SwitchPoint(next, st, ctx, list, carcass),
         priority \in [Tid -> 0 .. 255],
         Run(next, st, ctx, list, carcass)
  PROVE  ThreadsInv'
<1> DEFINE destroyed == IF RunsTail(ctx[next]) THEN carcass ELSE NULL
<1>1. /\ currentThread' = next
      /\ status' = [t \in Tid |-> IF t = destroyed THEN "FREE"
                                  ELSE IF t = next THEN "RUNNING" ELSE st[t]]
      /\ resume' = [t \in Tid |-> IF t \in {destroyed, next}
                                  THEN "none" ELSE ctx[t]]
      /\ readyList' = list
      /\ threadToBeDestroyed' = IF RunsTail(ctx[next]) THEN NULL ELSE carcass
      /\ level' = RestoredLevel(ctx[next])
      /\ mode' = IF destroyed = next THEN "Aborted" ELSE "SystemMode"
      /\ priority' = priority
  BY Zenon DEF Run, CarcassAfter
<1>2. NULL \notin Tid
  BY ThreadsAssumption, Zenon
<1>3. /\ destroyed \in Tid \cup {NULL}
      /\ destroyed # NULL => st[destroyed] = "BLOCKED"
      /\ destroyed # next
  BY <1>2, Zenon DEF SwitchPoint
<1> HIDE DEF destroyed
<1>4. mode' = "SystemMode"
  BY <1>1, <1>3, Zenon
<1>5. ThreadsTypeOK'
  <2>1. status' \in [Tid -> ThreadStatus]
    BY <1>1, Zenon DEF SwitchPoint, ThreadStatus
  <2>2. resume' \in [Tid -> Context]
    BY <1>1, Zenon DEF SwitchPoint, Context
  <2>3. readyList' \in Seq([item : Tid, key : 0 .. 255])
    BY <1>1, Zenon DEF SwitchPoint, ReadyCell, Cell
  <2>4. threadToBeDestroyed' \in Tid \cup {NULL}
    BY <1>1, Zenon DEF SwitchPoint
  <2>5. level' \in IntStatus /\ mode' \in MachineStatus
    BY <1>1, <1>4, Zenon DEF RestoredLevel, IntStatus, MachineStatus
  <2> QED BY <1>1, <2>1, <2>2, <2>3, <2>4, <2>5, Zenon DEF ThreadsTypeOK, SwitchPoint
<1>6. Fits(status, resume)'
  BY <1>1, <1>3, Zenon DEF Fits, SwitchPoint
<1>7. ReadyListExact'
  <2>1. {t \in Tid : status'[t] = "READY"} =
        {t \in Tid : st[t] = "READY"} \ {next}
    <3>1. ASSUME NEW t \in Tid
          PROVE  status'[t] = "READY" <=> st[t] = "READY" /\ t # next
      BY <1>1, <1>2, <1>3, Zenon
    <3> QED BY <3>1, Zenon
  <2> QED BY <1>1, <2>1, Zenon DEF ReadyListExact, SwitchPoint, Distinct
<1>8. ReadyListSorted'
  BY <1>1, Zenon DEF ReadyListSorted, SwitchPoint, Sorted
<1>9. OneRunning'
  BY <1>1, <1>3, <1>4, ZenonT(30) DEF OneRunning, Running, SwitchPoint
<1>10. CarcassSafe'
  <2>1. SUFFICES ASSUME threadToBeDestroyed' # NULL
                 PROVE  /\ Finished(threadToBeDestroyed)'
                        /\ status'[threadToBeDestroyed'] = "BLOCKED"
                        /\ threadToBeDestroyed' # currentThread'
    BY Zenon DEF CarcassSafe
  <2>2. /\ threadToBeDestroyed' = carcass /\ carcass \in Tid
        /\ st[carcass] = "BLOCKED" /\ ctx[carcass] = "Finish"
        /\ destroyed = NULL
    BY <1>1, <2>1, Zenon DEF SwitchPoint, destroyed
  <2>3. carcass # next /\ carcass # destroyed
    BY <1>2, <2>2, Zenon DEF SwitchPoint
  <2>4. status'[carcass] = "BLOCKED" /\ resume'[carcass] = "Finish"
    BY <1>1, <2>2, <2>3, Zenon
  <2> QED BY <1>1, <2>2, <2>3, <2>4, Zenon DEF Finished
<1>11. NoAssertFails'
  BY <1>4, Zenon DEF NoAssertFails
<1> QED BY <1>5, <1>6, <1>7, <1>8, <1>9, <1>10, <1>11, Zenon DEF ThreadsInv

\* A list of ready cells in good order, each with its thread's priority.
GoodList(list) ==
  /\ list \in Seq(ReadyCell)
  /\ Distinct(list) /\ Sorted(list)
  /\ \A i \in 1 .. Len(list) : list[i].key = priority[list[i].item]

\* ReadyToRun's insertion of a thread that is not on the list keeps it good.
LEMMA InsertKeepsGood ==
  ASSUME NEW list, GoodList(list), NEW t \in Tid, t \notin Items(list),
         priority \in [Tid -> 0 .. 255]
  PROVE  /\ GoodList(SortedInsert(list, t, priority[t]))
         /\ Items(SortedInsert(list, t, priority[t])) = Items(list) \cup {t}
<1> DEFINE k == priority[t]
           new == SortedInsert(list, t, k)
           K == 0 .. 255
<1>1. k \in K /\ K \in SUBSET Int
  OBVIOUS
<1>2. list \in Seq(Cell(Tid, K)) /\ Distinct(list) /\ Sorted(list)
  BY Zenon DEF GoodList, ReadyCell
<1> HIDE DEF k, K
<1>3. new \in Seq(Cell(Tid, K))
  BY <1>1, <1>2, SortedInsertShifts, Zenon
<1>4. Distinct(new)
  BY <1>1, <1>2, SortedInsertDistinct, Zenon
<1>5. Sorted(new)
  BY <1>1, <1>2, SortedInsertSorted, Zenon
<1>6. Items(new) = Items(list) \cup {t}
  BY <1>1, <1>2, SortedInsertItems
<1>7. \A j \in 1 .. Len(new) :
        \/ new[j] = ListElement(t, k)
        \/ \E i \in 1 .. Len(list) : new[j] = list[i]
  BY <1>1, <1>2, SortedInsertCells
<1>8. \A j \in 1 .. Len(new) : new[j].key = priority[new[j].item]
  <2> HIDE DEF new
  <2> QED BY <1>7 DEF ListElement, k, GoodList
<1> QED BY <1>3, <1>4, <1>5, <1>6, <1>8, Zenon DEF GoodList, ReadyCell, k, K

\* The ready list of a consistent state is good and holds the READY threads.
LEMMA InvGivesGood ==
  ASSUME ThreadsInv
  PROVE  /\ GoodList(readyList)
         /\ Items(readyList) = {t \in Tid : status[t] = "READY"}
BY Zenon DEF ThreadsInv, ThreadsTypeOK, ReadyListExact, ReadyListSorted, GoodList, Distinct, Sorted, ReadyCell, Cell

\* FindNextToRun returns a READY thread and leaves the other ones.
LEMMA NextIsReady ==
  ASSUME ThreadsInv, readyList # << >>
  PROVE  /\ Head(readyList).item \in Tid
         /\ status[Head(readyList).item] = "READY"
         /\ GoodList(Tail(readyList))
         /\ Items(Tail(readyList)) =
              {t \in Tid : status[t] = "READY"} \ {Head(readyList).item}
<1>1. /\ GoodList(readyList)
      /\ Items(readyList) = {t \in Tid : status[t] = "READY"}
  BY InvGivesGood, Zenon
<1>2. /\ readyList \in Seq(Cell(Tid, 0 .. 255)) /\ 0 .. 255 \in SUBSET Int
      /\ Distinct(readyList) /\ Sorted(readyList)
  BY <1>1 DEF GoodList, ReadyCell
<1>3. /\ Head(readyList).item \in Tid
      /\ Head(readyList).item \in Items(readyList)
      /\ Tail(readyList) \in Seq(Cell(Tid, 0 .. 255))
      /\ \A i \in 1 .. Len(Tail(readyList)) :
           i + 1 \in 1 .. Len(readyList) /\ Tail(readyList)[i] = readyList[i + 1]
      /\ Distinct(Tail(readyList)) /\ Sorted(Tail(readyList))
      /\ Items(Tail(readyList)) = Items(readyList) \ {Head(readyList).item}
  BY <1>2, TakeFirst
<1>4. GoodList(Tail(readyList))
  BY <1>1, <1>3 DEF GoodList, ReadyCell
<1> QED BY <1>1, <1>3, <1>4, Zenon

\* ReadyToRun of a thread that is neither running nor ready nor finished.
LEMMA ReadyToRunKeepsInv ==
  ASSUME ThreadsInv, NEW t \in Tid,
         status[t] \in {"JUST_CREATED", "BLOCKED"},
         ReadyToRun(t), level' = level,
         \/ resume' = resume /\ resume[t] = "Sleep"
         \/ resume' = [resume EXCEPT ![t] = "ThreadRoot"] /\ resume[t] # "Finish"
  PROVE  ThreadsInv'
<1> DEFINE new == SortedInsert(readyList, t, priority[t])
<1>1. /\ status' = [status EXCEPT ![t] = "READY"]
      /\ readyList' = new
      /\ priority' = priority
      /\ currentThread' = currentThread
      /\ threadToBeDestroyed' = threadToBeDestroyed
      /\ mode' = mode
  BY Zenon DEF ReadyToRun
<1>2. ThreadsTypeOK /\ Fits(status, resume) /\ OneRunning /\ CarcassSafe
  BY Zenon DEF ThreadsInv
<1>3. GoodList(new) /\ Items(new) = {u \in Tid : status[u] = "READY"} \cup {t}
  <2>1. t \notin Items(readyList)
    BY InvGivesGood, Zenon
  <2> QED BY <1>2, <2>1, InvGivesGood, InsertKeepsGood, Zenon DEF ThreadsTypeOK
<1> HIDE DEF new
<1>4. ThreadsTypeOK'
  <2>1. status' \in [Tid -> ThreadStatus] /\ resume' \in [Tid -> Context]
    BY <1>1, <1>2, Zenon DEF ThreadsTypeOK, ThreadStatus, Context
  <2>2. readyList' \in Seq([item : Tid, key : 0 .. 255])
    BY <1>1, <1>3, Zenon DEF GoodList, ReadyCell, Cell
  <2> QED BY <1>1, <1>2, <2>1, <2>2, Zenon DEF ThreadsTypeOK
<1>5. Fits(status, resume)'
  BY <1>1, <1>2, ZenonT(30) DEF Fits, ThreadsTypeOK
<1>6. ReadyListExact'
  <2>1. {u \in Tid : status'[u] = "READY"} =
        {u \in Tid : status[u] = "READY"} \cup {t}
    BY <1>1, <1>2, ZenonT(30) DEF ThreadsTypeOK
  <2> QED BY <1>1, <1>3, <2>1, Zenon DEF ReadyListExact, GoodList, Distinct
<1>7. ReadyListSorted'
  BY <1>1, <1>3, Zenon DEF ReadyListSorted, GoodList, Sorted
<1>8. OneRunning'
  BY <1>1, <1>2, Zenon DEF OneRunning, Running, ThreadsTypeOK
<1>9. CarcassSafe'
  BY <1>1, <1>2, Zenon DEF CarcassSafe, Finished, Running, ThreadsTypeOK
<1>10. NoAssertFails'
  BY <1>1, Zenon DEF NoAssertFails, ThreadsInv
<1> QED BY <1>4, <1>5, <1>6, <1>7, <1>8, <1>9, <1>10, Zenon DEF ThreadsInv

\* Thread::Thread: the first free id becomes JUST_CREATED.
LEMMA NewThreadKeepsInv ==
  ASSUME ThreadsInv, NEW p \in Priorities, NewThread(p)
  PROVE  ThreadsInv'
<1> DEFINE free == {t \in Tid : status[t] = "FREE"}
<1>1. /\ resume' = resume /\ readyList' = readyList
      /\ currentThread' = currentThread
      /\ threadToBeDestroyed' = threadToBeDestroyed /\ level' = level
  BY Zenon DEF NewThread
<1>2. CASE free = {}
  <2>1. mode' = "Exhausted" /\ status' = status /\ priority' = priority
    BY <1>2, Zenon DEF NewThread
  <2> QED BY <1>1, <2>1, Zenon DEF ThreadsInv, ThreadsTypeOK, Fits, ReadyListExact, ReadyListSorted, OneRunning,
     CarcassSafe, NoAssertFails, Finished, Running, MachineStatus
<1>3. CASE free # {}
  <2>1. PICK tid \in Tid :
          /\ status[tid] = "FREE"
          /\ status' = [status EXCEPT ![tid] = "JUST_CREATED"]
          /\ priority' = [priority EXCEPT ![tid] = p]
          /\ mode' = mode
    <3>1. Tid \subseteq Nat
      BY ThreadsAssumption DEF Tid
    <3>2. Min(free) \in free
      BY <1>3, <3>1, MinIsLeast, Zenon
    <3> QED BY <1>3, <3>2, Zenon DEF NewThread
  <2>2. ThreadsTypeOK /\ Fits(status, resume) /\ OneRunning /\ CarcassSafe
    BY Zenon DEF ThreadsInv
  <2>3. ThreadsTypeOK'
    <3>1. p \in 0 .. 255
      BY ThreadsAssumption, Zenon
    <3> QED BY <1>1, <2>1, <2>2, <3>1, Zenon DEF ThreadsTypeOK, ThreadStatus
  <2>4. Fits(status, resume)'
    BY <1>1, <2>1, <2>2, Zenon DEF Fits, ThreadsTypeOK
  <2>5. Items(readyList) = {t \in Tid : status[t] = "READY"}
    BY InvGivesGood, Zenon
  <2>6. ReadyListExact'
    <3>1. {t \in Tid : status'[t] = "READY"} = {t \in Tid : status[t] = "READY"}
      BY <2>1, <2>2, Zenon DEF ThreadsTypeOK
    <3> QED BY <1>1, <3>1, Zenon DEF ThreadsInv, ReadyListExact
  <2>7. ReadyListSorted'
    <3>1. \A i \in 1 .. Len(readyList) :
            readyList[i].item \in Items(readyList)
      BY Zenon DEF Items
    <3>2. \A i \in 1 .. Len(readyList) :
            priority'[readyList[i].item] = priority[readyList[i].item]
      BY <2>1, <2>2, <2>5, <3>1, Zenon DEF ThreadsTypeOK
    <3> QED BY <1>1, <3>2, Zenon DEF ThreadsInv, ReadyListSorted
  <2>8. OneRunning'
    BY <1>1, <2>1, <2>2, Zenon DEF OneRunning, Running, ThreadsTypeOK
  <2>9. CarcassSafe'
    BY <1>1, <2>1, <2>2, Zenon DEF CarcassSafe, Finished, Running, ThreadsTypeOK
  <2> QED BY <2>1, <2>3, <2>4, <2>6, <2>7, <2>8, <2>9, Zenon DEF ThreadsInv, NoAssertFails
<1> QED BY <1>2, <1>3, Zenon

\* Thread::SetPriority: the running thread is not on the ready list, so no
\* cell gets a stale key.
LEMMA SetPriorityKeepsInv ==
  ASSUME ThreadsInv, Running, NEW p \in Priorities, SetPriority(p)
  PROVE  ThreadsInv'
<1>1. /\ priority' = [priority EXCEPT ![currentThread] = p]
      /\ UNCHANGED <<status, resume, readyList, currentThread,
                     threadToBeDestroyed, level, mode>>
  BY Zenon DEF SetPriority
<1>2. ThreadsTypeOK'
  BY <1>1, ThreadsAssumption, Zenon DEF ThreadsInv, ThreadsTypeOK
<1>3. ReadyListSorted'
  <2>1. status[currentThread] = "RUNNING"
    BY Zenon DEF ThreadsInv, OneRunning
  <2>2. \A i \in 1 .. Len(readyList) :
          readyList[i].item \in Tid /\ readyList[i].item # currentThread
    BY <2>1, InvGivesGood, Zenon DEF Items
  <2>3. \A i \in 1 .. Len(readyList) :
          priority'[readyList[i].item] = priority[readyList[i].item]
    BY <1>1, <2>2, Zenon DEF ThreadsInv, ThreadsTypeOK
  <2> QED BY <1>1, <2>3, Zenon DEF ThreadsInv, ReadyListSorted
<1> QED BY <1>1, <1>2, <1>3, Zenon DEF ThreadsInv, Fits, ReadyListExact, OneRunning, CarcassSafe, NoAssertFails, Finished, Running

\* Interrupt::SetLevel and Interrupt::Halt touch no thread.
LEMMA LevelAndModeKeepInv ==
  ASSUME ThreadsInv,
         UNCHANGED <<status, priority, resume, readyList, currentThread,
                     threadToBeDestroyed>>,
         level' \in IntStatus, mode' \in {mode, "Halted"}
  PROVE  ThreadsInv'
BY Zenon DEF ThreadsInv, ThreadsTypeOK, Fits, ReadyListExact, ReadyListSorted, OneRunning, CarcassSafe,
   NoAssertFails, Finished, Running, MachineStatus

\* Thread::Yield calls Run with the running thread on the list behind its
\* equals.
LEMMA YieldSwitches ==
  ASSUME ThreadsInv, Running, readyList # << >>
  PROVE  SwitchPoint(Head(readyList).item,
                     [status EXCEPT ![currentThread] = "READY"],
                     [resume EXCEPT ![currentThread] =
                        IF level = "IntOn" THEN "Yield" ELSE "YieldOff"],
                     ListAfterYield, threadToBeDestroyed)
<1> DEFINE next == Head(readyList).item
           st == [status EXCEPT ![currentThread] = "READY"]
           ctx == [resume EXCEPT ![currentThread] =
                     IF level = "IntOn" THEN "Yield" ELSE "YieldOff"]
           rest == Tail(readyList)
           list == SortedInsert(rest, currentThread, priority[currentThread])
<1>2. ThreadsTypeOK /\ Fits(status, resume) /\ CarcassSafe
  BY Zenon DEF ThreadsInv
<1>3. /\ currentThread \in Tid
      /\ {t \in Tid : status[t] = "RUNNING"} = {currentThread}
  BY <1>2, Zenon DEF ThreadsInv, OneRunning, ThreadsTypeOK
<1>4. next \in Tid /\ status[next] = "READY" /\ GoodList(rest)
      /\ Items(rest) = {t \in Tid : status[t] = "READY"} \ {next}
  BY NextIsReady, Zenon
<1> HIDE DEF next, rest
<1>5. GoodList(list) /\ Items(list) = Items(rest) \cup {currentThread}
  BY <1>2, <1>3, <1>4, InsertKeepsGood, Zenon DEF ThreadsTypeOK
<1> HIDE DEF list
<1>6. st \in [Tid -> ThreadStatus] /\ ctx \in [Tid -> Context]
  BY <1>2, <1>3, Zenon DEF ThreadsTypeOK, ThreadStatus, Context
<1>7. Fits(st, ctx) /\ \A t \in Tid : st[t] # "RUNNING"
  BY <1>2, <1>3, Zenon DEF Fits, ThreadsTypeOK
<1>8. Items(list) = {t \in Tid : st[t] = "READY"} \ {next}
  BY <1>2, <1>3, <1>4, <1>5, Zenon DEF ThreadsTypeOK
<1>9. /\ threadToBeDestroyed \in Tid \cup {NULL}
      /\ threadToBeDestroyed # NULL =>
           /\ st[threadToBeDestroyed] = "BLOCKED"
           /\ ctx[threadToBeDestroyed] = "Finish"
  BY <1>2, <1>3, Zenon DEF CarcassSafe, Finished, ThreadsTypeOK
<1>10. next \in Tid /\ st[next] = "READY"
  BY <1>2, <1>4, Zenon DEF ThreadsTypeOK
<1> HIDE DEF st, ctx
<1>11. SwitchPoint(next, st, ctx, list, threadToBeDestroyed)
  BY <1>5, <1>6, <1>7, <1>8, <1>9, <1>10, Zenon DEF SwitchPoint, GoodList
<1> QED BY <1>11, Zenon DEF next, st, ctx, list, rest, ListAfterYield

LEMMA YieldKeepsInv ==
  ASSUME ThreadsInv, Running, Yield
  PROVE  ThreadsInv'
<1>1. CASE readyList = << >>
  <2>1. UNCHANGED threadVars
    BY <1>1, Zenon DEF Yield
  <2> QED BY <2>1, Zenon DEF threadVars, ThreadsInv, ThreadsTypeOK, Fits, ReadyListExact, ReadyListSorted,
     OneRunning, CarcassSafe, NoAssertFails, Finished, Running
<1>2. CASE readyList # << >>
  <2>1. priority \in [Tid -> 0 .. 255]
    BY Zenon DEF ThreadsInv, ThreadsTypeOK
  <2> QED BY <1>2, <2>1, YieldSwitches, RunKeepsInv, Zenon DEF Yield
<1> QED BY <1>1, <1>2, Zenon

\* The thread that goes to sleep in Thread::Sleep or Thread::Finish: it is the
\* carcass exactly when it finishes.
LEMMA SleeperFits ==
  ASSUME ThreadsInv, Running, NEW context, NEW carcass,
         \/ context = "Sleep" /\ carcass = threadToBeDestroyed
         \/ context = "Finish" /\ carcass = currentThread
  PROVE  LET ctx == [resume EXCEPT ![currentThread] = context] IN
         /\ Blocked \in [Tid -> ThreadStatus] /\ ctx \in [Tid -> Context]
         /\ Fits(Blocked, ctx) /\ \A t \in Tid : Blocked[t] # "RUNNING"
         /\ {t \in Tid : Blocked[t] = "READY"} = {t \in Tid : status[t] = "READY"}
         /\ carcass \in Tid \cup {NULL}
         /\ carcass # NULL => Blocked[carcass] = "BLOCKED" /\ ctx[carcass] = "Finish"
<1> DEFINE ctx == [resume EXCEPT ![currentThread] = context]
<1>1. ThreadsTypeOK /\ Fits(status, resume) /\ CarcassSafe
  BY Zenon DEF ThreadsInv
<1>2. /\ currentThread \in Tid
      /\ {t \in Tid : status[t] = "RUNNING"} = {currentThread}
  BY <1>1, Zenon DEF ThreadsInv, OneRunning, ThreadsTypeOK
<1>3. Blocked \in [Tid -> ThreadStatus] /\ ctx \in [Tid -> Context]
  BY <1>1, <1>2, Zenon DEF Blocked, ThreadsTypeOK, ThreadStatus, Context
<1>4. Fits(Blocked, ctx) /\ \A t \in Tid : Blocked[t] # "RUNNING"
  BY <1>1, <1>2, Zenon DEF Blocked, Fits, ThreadsTypeOK
<1>5. {t \in Tid : Blocked[t] = "READY"} = {t \in Tid : status[t] = "READY"}
  BY <1>1, <1>2, Zenon DEF Blocked, ThreadsTypeOK
<1>6. /\ carcass \in Tid \cup {NULL}
      /\ carcass # NULL => Blocked[carcass] = "BLOCKED" /\ ctx[carcass] = "Finish"
  BY <1>1, <1>2, ZenonT(30) DEF Blocked, CarcassSafe, Finished, ThreadsTypeOK
<1> QED BY <1>3, <1>4, <1>5, <1>6, Zenon

\* It calls Run with itself blocked.
LEMMA SleepSwitches ==
  ASSUME ThreadsInv, Running, readyList # << >>, NEW context, NEW carcass,
         \/ context = "Sleep" /\ carcass = threadToBeDestroyed
         \/ context = "Finish" /\ carcass = currentThread
  PROVE  SwitchPoint(Head(readyList).item, Blocked,
                     [resume EXCEPT ![currentThread] = context],
                     Tail(readyList), carcass)
<1> DEFINE next == Head(readyList).item
           list == Tail(readyList)
           ctx == [resume EXCEPT ![currentThread] = context]
<1>1. next \in Tid /\ status[next] = "READY" /\ GoodList(list)
      /\ Items(list) = {t \in Tid : status[t] = "READY"} \ {next}
  BY NextIsReady, Zenon
<1>2. /\ Blocked \in [Tid -> ThreadStatus] /\ ctx \in [Tid -> Context]
      /\ Fits(Blocked, ctx) /\ \A t \in Tid : Blocked[t] # "RUNNING"
      /\ {t \in Tid : Blocked[t] = "READY"} = {t \in Tid : status[t] = "READY"}
      /\ carcass \in Tid \cup {NULL}
      /\ carcass # NULL => Blocked[carcass] = "BLOCKED" /\ ctx[carcass] = "Finish"
  BY SleeperFits, Zenon
<1> HIDE DEF next, list, ctx
<1>3. Blocked[next] = "READY"
  BY <1>1, <1>2, Zenon
<1>4. SwitchPoint(next, Blocked, ctx, list, carcass)
  BY <1>1, <1>2, <1>3, Zenon DEF SwitchPoint, GoodList
<1> QED BY <1>4, Zenon DEF next, list, ctx

\* Thread::Sleep and Thread::Finish.
LEMMA SleepAsKeepsInv ==
  ASSUME ThreadsInv, Running, NEW context, NEW carcass,
         SleepAs(context, carcass),
         \/ context = "Sleep" /\ carcass = threadToBeDestroyed
         \/ context = "Finish" /\ carcass = currentThread
  PROVE  ThreadsInv'
<1> DEFINE ctx == [resume EXCEPT ![currentThread] = context]
<1>1. ThreadsTypeOK
  BY Zenon DEF ThreadsInv
<1>2. CASE readyList # << >>
  BY <1>1, <1>2, SleepSwitches, RunKeepsInv, Zenon DEF SleepAs, ThreadsTypeOK
<1>3. CASE readyList = << >>
  <2>1. /\ status' = Blocked /\ resume' = ctx
        /\ threadToBeDestroyed' = carcass
        /\ mode' = "IdleMode" /\ level' = "IntOff"
        /\ UNCHANGED <<priority, readyList, currentThread>>
    BY <1>3, Zenon DEF SleepAs
  <2>2. /\ Blocked \in [Tid -> ThreadStatus] /\ ctx \in [Tid -> Context]
        /\ Fits(Blocked, ctx) /\ \A t \in Tid : Blocked[t] # "RUNNING"
        /\ {t \in Tid : Blocked[t] = "READY"} = {t \in Tid : status[t] = "READY"}
        /\ carcass \in Tid \cup {NULL}
        /\ carcass # NULL => Blocked[carcass] = "BLOCKED" /\ ctx[carcass] = "Finish"
    BY SleeperFits, Zenon
  <2> HIDE DEF ctx
  <2>3. ThreadsTypeOK'
    BY <1>1, <2>1, <2>2, Zenon DEF ThreadsTypeOK, IntStatus, MachineStatus
  <2>4. ReadyListExact'
    BY <2>1, <2>2, Zenon DEF ThreadsInv, ReadyListExact
  <2>5. Fits(status, resume)'
    BY <2>1, <2>2, Zenon
  <2>6. OneRunning'
    BY <2>1, <2>2, Zenon DEF OneRunning, Running
  <2>7. CarcassSafe'
    BY <2>1, <2>2, Zenon DEF CarcassSafe, Finished, Running
  <2> QED BY <2>1, <2>3, <2>4, <2>5, <2>6, <2>7, Zenon DEF ThreadsInv, ReadyListSorted, NoAssertFails
<1> QED BY <1>2, <1>3, Zenon

\* The loop of Thread::Sleep after Interrupt::Idle calls Run.
LEMMA DispatchSwitches ==
  ASSUME ThreadsInv, Dispatch
  PROVE  SwitchPoint(Head(readyList).item, status, resume, Tail(readyList),
                     threadToBeDestroyed)
<1> DEFINE next == Head(readyList).item
           list == Tail(readyList)
<1>1. ThreadsTypeOK /\ Fits(status, resume) /\ CarcassSafe
  BY Zenon DEF ThreadsInv
<1>2. \A t \in Tid : status[t] # "RUNNING"
  BY Zenon DEF ThreadsInv, OneRunning, Dispatch
<1>3. next \in Tid /\ status[next] = "READY" /\ GoodList(list)
      /\ Items(list) = {t \in Tid : status[t] = "READY"} \ {next}
  BY NextIsReady, Zenon DEF Dispatch
<1> HIDE DEF next, list
<1>4. SwitchPoint(next, status, resume, list, threadToBeDestroyed)
  BY <1>1, <1>2, <1>3, Zenon DEF SwitchPoint, GoodList, CarcassSafe, Finished, ThreadsTypeOK
<1> QED BY <1>4, Zenon DEF next, list

LEMMA DispatchKeepsInv ==
  ASSUME ThreadsInv, Dispatch
  PROVE  ThreadsInv'
BY DispatchSwitches, RunKeepsInv, Zenon DEF Dispatch, ThreadsInv, ThreadsTypeOK

\* The main thread alone is a consistent state.
LEMMA InitInv == ThreadsInit => ThreadsInv
<1> SUFFICES ASSUME ThreadsInit PROVE ThreadsInv
  OBVIOUS
<1>1. 0 \in Tid /\ NULL \notin Tid
  BY ThreadsAssumption DEF Tid
<1>2. readyList = << >> /\ Len(readyList) = 0
  BY Zenon DEF ThreadsInit
<1>3. ThreadsTypeOK
  BY <1>1 DEF ThreadsInit, ThreadsTypeOK, ThreadStatus, Context, IntStatus, MachineStatus, DefaultPriority
<1>4. ReadyListExact
  BY <1>2 DEF ThreadsInit, ReadyListExact, Items
<1>5. ReadyListSorted
  BY <1>2 DEF ReadyListSorted
<1> QED BY <1>1, <1>3, <1>4, <1>5, Zenon DEF ThreadsInit, ThreadsInv, Fits, OneRunning, CarcassSafe, NoAssertFails, Running

\* Every operation of the thread package keeps it consistent.
LEMMA NextInv == ThreadsInv /\ [ThreadsNext]_threadVars => ThreadsInv'
<1> SUFFICES ASSUME ThreadsInv, [ThreadsNext]_threadVars
             PROVE  ThreadsInv'
  OBVIOUS
<1>1. ASSUME NEW p \in Priorities, NewThread(p) PROVE ThreadsInv'
  BY <1>1, NewThreadKeepsInv, Zenon
<1>2. ASSUME NEW t \in Tid, Fork(t) PROVE ThreadsInv'
  <2>1. resume[t] # "Finish"
    BY <1>2, Zenon DEF Fork, ThreadsInv, Fits
  <2> QED BY <1>2, <2>1, ReadyToRunKeepsInv, Zenon DEF Fork
<1>3. ASSUME NEW p \in Priorities, Running, SetPriority(p) PROVE ThreadsInv'
  BY <1>3, SetPriorityKeepsInv, Zenon
<1>4. ASSUME SetLevel("IntOff") \/ Enable PROVE ThreadsInv'
  BY <1>4, LevelAndModeKeepInv, Zenon DEF SetLevel, Enable, IntStatus
<1>5. ASSUME Running, Yield PROVE ThreadsInv'
  BY <1>5, YieldKeepsInv, Zenon
<1>6. ASSUME Running, level = "IntOff", Sleep PROVE ThreadsInv'
  BY <1>6, SleepAsKeepsInv, Zenon DEF Sleep
<1>7. ASSUME Running, Finish PROVE ThreadsInv'
  BY <1>7, SleepAsKeepsInv, Zenon DEF Finish
<1>8. ASSUME NEW t \in Tid, Wake(t) PROVE ThreadsInv'
  BY <1>8, ReadyToRunKeepsInv, Zenon DEF Wake, Asleep
<1>9. ASSUME Dispatch PROVE ThreadsInv'
  BY <1>9, DispatchKeepsInv, Zenon
<1>10. ASSUME Halt PROVE ThreadsInv'
  BY <1>10, LevelAndModeKeepInv, Zenon DEF Halt, ThreadsInv, ThreadsTypeOK
<1>11. ASSUME UNCHANGED threadVars PROVE ThreadsInv'
  BY <1>11, LevelAndModeKeepInv, Zenon DEF threadVars, ThreadsInv, ThreadsTypeOK
<1> QED BY <1>1, <1>2, <1>3, <1>4, <1>5, <1>6, <1>7, <1>8, <1>9, <1>10, <1>11, ZenonT(30) DEF ThreadsNext, TimerYield, Stopped

\* In every behaviour of the thread package the ready list holds exactly the
\* READY threads in priority order, one thread runs, and the carcass pointer
\* is safe to delete: no ASSERT of thread.cc fails.
THEOREM ThreadsInvariant == ThreadsSpec => []ThreadsInv
BY InitInv, NextInv, PTL DEF ThreadsSpec

\* Type correctness of the thread package.
THEOREM ThreadsTypeCorrect == ThreadsSpec => []ThreadsTypeOK
<1>1. ThreadsInv => ThreadsTypeOK
  BY Zenon DEF ThreadsInv
<1> QED BY <1>1, ThreadsInvariant, PTL

\* No READY thread is lost from the ready list or on it twice (scheduler.cc).
THEOREM ThreadsReadyListExact == ThreadsSpec => []ReadyListExact
<1>1. ThreadsInv => ReadyListExact
  BY Zenon DEF ThreadsInv
<1> QED BY <1>1, ThreadsInvariant, PTL

\* Neither the ASSERT of the destructor nor that of Sleep fails (thread.cc).
THEOREM ThreadsNoAssertFails == ThreadsSpec => []NoAssertFails
<1>1. ThreadsInv => NoAssertFails
  BY Zenon DEF ThreadsInv
<1> QED BY <1>1, ThreadsInvariant, PTL

\* The tail of Scheduler::Run frees the carcass only, and not the thread it
\* runs on, since the ASSERT of the destructor would have stopped it.
LEMMA RunFrees ==
  ASSUME NEW next, NEW st, NEW ctx, NEW list, NEW carcass,
         Run(next, st, ctx, list, carcass), NoAssertFails',
         NEW t \in Tid, st[t] # "FREE", status'[t] = "FREE"
  PROVE  t = carcass /\ currentThread' # t
<1>1. NULL \notin Tid
  BY ThreadsAssumption, Zenon
<1> QED BY <1>1, Zenon DEF Run, NoAssertFails

\* A thread id is given back only after Finish, and never under the thread
\* that has the processor (thread.cc, Finish; scheduler.cc, Run).
THEOREM ThreadsOnlyFinishedFreed == ThreadsSpec => OnlyFinishedFreed
<1> DEFINE Freed == \A t \in Tid :
                      status[t] # "FREE" /\ status'[t] = "FREE" =>
                        /\ Finished(t) \/ t = currentThread
                        /\ currentThread' # t
<1>1. ThreadsInv /\ [ThreadsNext]_threadVars => [Freed]_threadVars
  <2> SUFFICES ASSUME ThreadsInv, ThreadsNext,
                      NEW t \in Tid, status[t] # "FREE", status'[t] = "FREE"
               PROVE  (Finished(t) \/ t = currentThread) /\ currentThread' # t
    OBVIOUS
  <2>1. status \in [Tid -> ThreadStatus] /\ CarcassSafe
    BY Zenon DEF ThreadsInv, ThreadsTypeOK
  <2>2. ThreadsInv' /\ NoAssertFails'
    BY NextInv, Zenon DEF ThreadsInv
  <2>3. NULL \notin Tid
    BY ThreadsAssumption, Zenon
  <2>4. ASSUME NEW p, NewThread(p) PROVE FALSE
    BY <2>1, <2>4, Zenon DEF NewThread
  <2>5. ASSUME NEW u, ReadyToRun(u) PROVE FALSE
    BY <2>1, <2>5, Zenon DEF ReadyToRun
  <2>6. status' # status
    OBVIOUS
  <2>7. CASE Yield
    <3> DEFINE st == [status EXCEPT ![currentThread] = "READY"]
               ctx == [resume EXCEPT ![currentThread] =
                         IF level = "IntOn" THEN "Yield" ELSE "YieldOff"]
    <3>1. Run(Head(readyList).item, st, ctx, ListAfterYield,
              threadToBeDestroyed)
      BY <2>6, <2>7, Zenon DEF Yield, threadVars
    <3>2. st[t] # "FREE"
      BY <2>1, Zenon
    <3> HIDE DEF st, ctx
    <3>3. t = threadToBeDestroyed /\ currentThread' # t
      BY <2>2, <3>1, <3>2, RunFrees, ZenonT(30)
    <3> QED BY <2>1, <2>3, <3>3, Zenon DEF CarcassSafe
  <2>8. ASSUME NEW context, NEW carcass, SleepAs(context, carcass)
        PROVE  t = carcass /\ currentThread' # t
    <3> DEFINE ctx == [resume EXCEPT ![currentThread] = context]
    <3>1. Blocked[t] # "FREE"
      BY <2>1, Zenon DEF Blocked
    <3>2. Run(Head(readyList).item, Blocked, ctx, Tail(readyList), carcass)
      BY <2>8, <3>1, Zenon DEF SleepAs
    <3> HIDE DEF ctx
    <3> QED BY <2>2, <3>1, <3>2, RunFrees, ZenonT(30)
  <2>9. CASE Finish
    BY <2>8, <2>9 DEF Finish
  <2>11. CASE Running /\ level = "IntOff" /\ Sleep
    <3>1. t = threadToBeDestroyed /\ currentThread' # t
      BY <2>8, <2>11, Zenon DEF Sleep
    <3> QED BY <2>1, <2>3, <3>1, Zenon DEF CarcassSafe
  <2>10. CASE Dispatch
    <3>1. t = threadToBeDestroyed /\ currentThread' # t
      BY <2>1, <2>2, <2>10, RunFrees, Zenon DEF Dispatch
    <3> QED BY <2>1, <2>3, <3>1, Zenon DEF CarcassSafe
  <2> QED BY <2>4, <2>5, <2>6, <2>7, <2>9, <2>10, <2>11, Zenon DEF ThreadsNext, Fork, Wake, SetPriority,
     SetLevel, Enable, TimerYield, Halt, Stopped, threadVars
<1> QED BY <1>1, ThreadsInvariant, PTL DEF ThreadsSpec, OnlyFinishedFreed

\* The first cell of the ready list has the smallest key.
LEMMA HeadIsBest ==
  ASSUME ThreadsInv, readyList # << >>
  PROVE  \A i \in 1 .. Len(Tail(readyList)) :
           priority[Head(readyList).item] <= Tail(readyList)[i].key
<1>1. readyList \in Seq(Cell(Tid, 0 .. 255)) /\ 0 .. 255 \in SUBSET Int
  BY DEF ThreadsInv, ThreadsTypeOK, Cell
<1>2. /\ Head(readyList) = readyList[1] /\ 1 \in 1 .. Len(readyList)
      /\ \A i \in 1 .. Len(Tail(readyList)) :
           i + 1 \in 1 .. Len(readyList) /\ Tail(readyList)[i] = readyList[i + 1]
  BY <1>1, TakeFirst
<1>3. ASSUME NEW i \in 1 .. Len(Tail(readyList))
      PROVE  priority[Head(readyList).item] <= Tail(readyList)[i].key
  <2>1. i + 1 \in 1 .. Len(readyList) /\ 1 < i + 1
    BY <1>2
  <2>2. readyList[1].key <= readyList[i + 1].key
    BY <1>2, <2>1, Zenon DEF ThreadsInv, ReadyListSorted
  <2>3. readyList[1].key = priority[readyList[1].item]
    BY <1>2, Zenon DEF ThreadsInv, ReadyListSorted
  <2> QED BY <1>2, <2>2, <2>3, Zenon
<1> QED BY <1>3, Zenon

\* The processor always goes to a thread with the smallest priority number
\* among those that were waiting for it (scheduler.cc, FindNextToRun).
THEOREM ThreadsDispatchesBest == ThreadsSpec => DispatchesBest
<1> DEFINE Best == currentThread' # currentThread =>
                     \A i \in 1 .. Len(readyList') :
                       readyList'[i].item # currentThread =>
                         priority[currentThread'] <= readyList'[i].key
<1>1. ThreadsInv /\ [ThreadsNext]_threadVars => [Best]_threadVars
  <2> SUFFICES ASSUME ThreadsInv, ThreadsNext, currentThread' # currentThread,
                      NEW i \in 1 .. Len(readyList'),
                      readyList'[i].item # currentThread
               PROVE  priority[currentThread'] <= readyList'[i].key
    OBVIOUS
  <2>1. CASE Running /\ Yield
    <3> DEFINE rest == Tail(readyList)
               k == priority[currentThread]
               K == 0 .. 255
    <3>1. /\ readyList # << >>
          /\ currentThread' = Head(readyList).item
          /\ readyList' = SortedInsert(rest, currentThread, k)
      BY <2>1, Zenon DEF Yield, Run, threadVars, ListAfterYield
    <3>2. /\ rest \in Seq(Cell(Tid, K)) /\ K \in SUBSET Int
          /\ currentThread \in Tid /\ k \in K
      BY <3>1, NextIsReady, SMTT(30) DEF GoodList, ReadyCell, ThreadsInv, ThreadsTypeOK
    <3>3. \A j \in 1 .. Len(rest) : priority[Head(readyList).item] <= rest[j].key
      BY <3>1, HeadIsBest, Zenon
    <3> HIDE DEF rest, k, K
    <3>4. \/ readyList'[i] = ListElement(currentThread, k)
          \/ \E j \in 1 .. Len(rest) : readyList'[i] = rest[j]
      BY <3>1, <3>2, SortedInsertCells, SMTT(30)
    <3> QED BY <3>1, <3>3, <3>4 DEF ListElement
  <2>2. ASSUME NEW context, NEW carcass, SleepAs(context, carcass)
        PROVE  priority[currentThread'] <= readyList'[i].key
    <3>1. /\ readyList # << >>
          /\ currentThread' = Head(readyList).item
          /\ readyList' = Tail(readyList)
      BY <2>2, Zenon DEF SleepAs, Run
    <3> QED BY <3>1, HeadIsBest, Zenon
  <2>3. CASE Dispatch
    <3>1. /\ readyList # << >>
          /\ currentThread' = Head(readyList).item
          /\ readyList' = Tail(readyList)
      BY <2>3, Zenon DEF Dispatch, Run
    <3> QED BY <3>1, HeadIsBest, Zenon
  <2> QED BY <2>1, <2>2, <2>3, Zenon
          DEF ThreadsNext, NewThread, Fork, Wake, ReadyToRun, SetPriority,
              SetLevel, Enable, TimerYield, Sleep, Finish, Halt, Stopped,
              threadVars
<1> QED BY <1>1, ThreadsInvariant, PTL DEF ThreadsSpec, DispatchesBest
=============================================================================
