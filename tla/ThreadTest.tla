------------------------------ MODULE ThreadTest ------------------------------
(***************************************************************************)
(* The synchronization programs of threads/threadtest.cc: readers and      *)
(* writers, the barrier, and producers and consumers, which poll under a   *)
(* lock or wait on condition variables.  Each thread runs one of them;     *)
(* test 7 falls through to 8 and 9, so all may run beside each other.      *)
(*                                                                         *)
(* A step is a call that takes or gives up a lock, with the tests and      *)
(* assignments that follow it under that lock.  Products are alike, so the *)
(* list of them is modelled by its length.                                 *)
(***************************************************************************)
EXTENDS FiniteSets, Monitor

CONSTANTS
  Tests,        \* the function each thread is forked with, for each test
  Rounds,       \* the iterations of each function's loop
  MAX_PRODUCT,
  barrierSize

VARIABLES
  program,      \* the test that was chosen: program[t] is t's function, or "none"
  round,        \* iterations each thread has completed
  readerCount, content,
  barrierCnt,
  ProductList,  \* the length of the pool
  product_num

readWriteVars == <<readerCount, content>>
productVars == <<ProductList, product_num>>
testVars ==
  <<holder, waitingQueue, pc, program, round, readerCount, content, barrierCnt,
    ProductList, product_num>>

Locks == {"rcLock", "writeLock", "conditionLock", "lock"}
Conditions == {"barrierCondition", "consumeCondition", "produceCondition"}
Programs == {"read", "write", "barrierRun", "produce_withLock",
             "consume_withLock", "produce_withCondition", "consume_withCondition"}

ASSUME ThreadTestAssumption ==
  /\ Lock = Locks /\ Condition = Conditions
  /\ Tests \subseteq [Thread -> Programs \cup {"none"}]
  /\ Rounds \in [Programs -> Nat \ {0}]
  /\ MAX_PRODUCT \in Nat \ {0} /\ barrierSize \in Nat \ {0}

\* ThreadTest8 forks barrierSize threads, and barrierRun has no loop.
ASSUME BarrierAssumption ==
  /\ IsFiniteSet(Thread) /\ Rounds["barrierRun"] = 1
  /\ \A test \in Tests : Cardinality({t \in Thread : test[t] = "barrierRun"}) <= barrierSize

Runners(function) == {t \in Thread : program[t] = function}

TestInit ==
  /\ program \in Tests
  /\ MonitorInit([t \in Thread |-> IF program[t] = "none" THEN "done"
                                   ELSE program[t]])
  /\ round = [t \in Thread |-> 0]
  /\ readerCount = 0 /\ content = 0
  /\ barrierCnt = 0
  /\ ProductList = 0 /\ product_num = 0

NextRound(t) == IF round[t] + 1 < Rounds[program[t]] THEN program[t] ELSE "done"

\* The end of a loop's body: release the lock and start again.
EndRound(t, l) ==
  /\ Release(t, l, NextRound(t))
  /\ round' = [round EXCEPT ![t] = @ + 1]

-----------------------------------------------------------------------------
(* Readers and writers                                                     *)

ReadEnter(t) ==
  /\ program[t] = "read" /\ At(t, "read")
  /\ Acquire(t, "rcLock", IF readerCount = 0 THEN "first" ELSE "counted")
  /\ readerCount' = readerCount + 1
  /\ UNCHANGED <<round, content, barrierCnt, productVars>>

\* The first reader waits for the writers with rcLock held.
ReadFirst(t) ==
  /\ At(t, "first")
  /\ Acquire(t, "writeLock", "counted")
  /\ UNCHANGED <<round, readWriteVars, barrierCnt, productVars>>

ReadStart(t) ==
  /\ At(t, "counted")
  /\ Release(t, "rcLock", "reading")
  /\ UNCHANGED <<round, readWriteVars, barrierCnt, productVars>>

LastAtOne(count) == count <= 1    \* mutant: tests the count before it is decremented
LastReader(count) == count = 0

\* The reader has printed content and counts itself out.
ReadLeave(t) ==
  /\ At(t, "reading")
  /\ Acquire(t, "rcLock", IF LastReader(readerCount - 1) THEN "last" ELSE "left")
  /\ readerCount' = readerCount - 1
  /\ UNCHANGED <<round, content, barrierCnt, productVars>>

\* The last reader releases the lock the first one acquired.
ReadLast(t) ==
  /\ At(t, "last")
  /\ Release(t, "writeLock", "left")
  /\ UNCHANGED <<round, readWriteVars, barrierCnt, productVars>>

ReadEnd(t) ==
  /\ At(t, "left")
  /\ EndRound(t, "rcLock")
  /\ UNCHANGED <<readWriteVars, barrierCnt, productVars>>

Write(t) ==
  /\ program[t] = "write" /\ At(t, "write")
  /\ Acquire(t, "writeLock", "written")
  /\ content' = content + 1
  /\ UNCHANGED <<round, readerCount, barrierCnt, productVars>>

WriteEnd(t) ==
  /\ At(t, "written")
  /\ EndRound(t, "writeLock")
  /\ UNCHANGED <<readWriteVars, barrierCnt, productVars>>

-----------------------------------------------------------------------------
(* The barrier                                                             *)

AllButOne == barrierCnt + 2 = barrierSize  \* mutant: off by one
AllGathered == barrierCnt + 1 = barrierSize

BarrierArrive(t) ==
  /\ program[t] = "barrierRun" /\ At(t, "barrierRun")
  /\ Acquire(t, "conditionLock", IF AllGathered THEN "broadcast" ELSE "await")
  /\ barrierCnt' = barrierCnt + 1
  /\ UNCHANGED <<round, readWriteVars, productVars>>

BarrierWait(t) ==
  /\ At(t, "await")
  /\ Wait(t, "barrierCondition", "conditionLock")
  /\ UNCHANGED <<round, readWriteVars, barrierCnt, productVars>>

OneWoken(t) ==  \* mutant: Signal instead of Broadcast
  Signal(t, "barrierCondition", "conditionLock", "passing")
AllWoken(t) == Broadcast(t, "barrierCondition", "conditionLock", "passing")

BarrierBroadcast(t) ==
  /\ At(t, "broadcast")
  /\ AllWoken(t)
  /\ UNCHANGED <<round, readWriteVars, barrierCnt, productVars>>

BarrierWoken(t) ==
  /\ program[t] = "barrierRun"
  /\ EndOfWait(t, "conditionLock", "passing")
  /\ UNCHANGED <<round, readWriteVars, barrierCnt, productVars>>

BarrierPass(t) ==
  /\ At(t, "passing")
  /\ EndRound(t, "conditionLock")
  /\ UNCHANGED <<readWriteVars, barrierCnt, productVars>>

-----------------------------------------------------------------------------
(* Producers and consumers that poll                                       *)

Full == product_num = MAX_PRODUCT

NeverEmpty == FALSE  \* mutant: the test is missing
IsEmpty == ProductList = 0

AddProduct ==
  /\ ProductList' = ProductList + 1
  /\ product_num' = product_num + 1

\* Remove returns NULL from an empty list, which delete accepts.
TakeProduct ==
  /\ ProductList' = IF ProductList = 0 THEN 0 ELSE ProductList - 1
  /\ product_num' = product_num - 1

LockProduce(t) ==
  /\ At(t, "produce_withLock")
  /\ IF Full
     THEN Acquire(t, "lock", "later") /\ UNCHANGED productVars
     ELSE Acquire(t, "lock", "taken") /\ AddProduct
  /\ UNCHANGED <<round, readWriteVars, barrierCnt>>

LockConsume(t) ==
  /\ At(t, "consume_withLock")
  /\ IF IsEmpty
     THEN Acquire(t, "lock", "later") /\ UNCHANGED productVars
     ELSE Acquire(t, "lock", "taken") /\ TakeProduct
  /\ UNCHANGED <<round, readWriteVars, barrierCnt>>

\* The round does not count (--i).
LockLater(t) ==
  /\ At(t, "later")
  /\ Release(t, "lock", program[t])
  /\ UNCHANGED <<round, readWriteVars, barrierCnt, productVars>>

ProductEnd(t) ==
  /\ At(t, "taken")
  /\ EndRound(t, "lock")
  /\ UNCHANGED <<readWriteVars, barrierCnt, productVars>>

-----------------------------------------------------------------------------
(* Producers and consumers that wait                                       *)

\* Acquire, at the start of the body or at the end of a Wait: the loop's test
\* comes next in both cases.
ConditionLock(t) ==
  /\ program[t] \in {"produce_withCondition", "consume_withCondition"}
  /\ At(t, program[t]) \/ At(t, "woken")
  /\ Acquire(t, "lock", "test")
  /\ UNCHANGED <<round, readWriteVars, barrierCnt, productVars>>

ProduceWait(t) ==
  /\ program[t] = "produce_withCondition" /\ At(t, "test")
  /\ product_num >= MAX_PRODUCT
  /\ Wait(t, "produceCondition", "lock")
  /\ UNCHANGED <<round, readWriteVars, barrierCnt, productVars>>

Produce(t) ==
  /\ program[t] = "produce_withCondition" /\ At(t, "test")
  /\ product_num < MAX_PRODUCT
  /\ AddProduct
  /\ Signal(t, "consumeCondition", "lock", "taken")
  /\ UNCHANGED <<round, readWriteVars, barrierCnt>>

ConsumeWait(t) ==
  /\ program[t] = "consume_withCondition" /\ At(t, "test")
  /\ IsEmpty
  /\ Wait(t, "consumeCondition", "lock")
  /\ UNCHANGED <<round, readWriteVars, barrierCnt, productVars>>

Signalled(t) == Signal(t, "produceCondition", "lock", "taken")

Consume(t) ==
  /\ program[t] = "consume_withCondition" /\ At(t, "test")
  /\ ~IsEmpty
  /\ TakeProduct
  /\ Signalled(t)
  /\ UNCHANGED <<round, readWriteVars, barrierCnt>>

-----------------------------------------------------------------------------
TestStep(t) ==
  \/ ReadEnter(t) \/ ReadFirst(t) \/ ReadStart(t)
  \/ ReadLeave(t) \/ ReadLast(t) \/ ReadEnd(t)
  \/ Write(t) \/ WriteEnd(t)
  \/ BarrierArrive(t) \/ BarrierWait(t) \/ BarrierBroadcast(t)
  \/ BarrierWoken(t) \/ BarrierPass(t)
  \/ LockProduce(t) \/ LockConsume(t) \/ LockLater(t) \/ ProductEnd(t)
  \/ ConditionLock(t) \/ ProduceWait(t) \/ Produce(t)
  \/ ConsumeWait(t) \/ Consume(t)

AllDone == \A t \in Thread : At(t, "done")

TestNext ==
  \/ (\E t \in Thread : TestStep(t)) /\ UNCHANGED program
  \/ AllDone /\ UNCHANGED testVars

TestSpec == TestInit /\ [][TestNext]_testVars

\* A thread that can go on does so in the end; nothing is assumed of the order
\* in which threads get a lock.
TestFairSpec ==
  TestSpec /\ \A t \in Thread : WF_testVars(TestStep(t) /\ UNCHANGED program)

-----------------------------------------------------------------------------
(* Properties                                                              *)

\* read and write: while a reader prints content no writer is between its
\* Acquire and its Release, and writers exclude each other, although the
\* reader that releases writeLock need not be the one that acquired it.
ReadersExcludeWriters ==
  LET writing == {t \in Thread : pc[t] = "written"}
      reading == {t \in Thread : pc[t] = "reading"}
  IN  Cardinality(writing) <= 1 /\ (writing = {} \/ reading = {})

\* barrierRun: no thread passes the savepoint before all have reached it.
NobodyPassesEarly ==
  (\E t \in Runners("barrierRun") : pc[t] \in {"passing", "done"}) =>
    \A t \in Runners("barrierRun") : pc[t] # "barrierRun"

\* The producers and consumers keep product_num equal to the length of the
\* list, within 0 and MAX_PRODUCT.
PoolWithinBounds ==
  product_num = ProductList /\ product_num \in 0 .. MAX_PRODUCT

\* The programs end: every reader and writer completes its rounds, every thread
\* leaves the barrier, and producers and consumers whose rounds add up do not
\* wait for each other for ever.  The ones that poll under a lock are excepted:
\* they may keep the lock from each other.
Terminates ==
  Runners("produce_withLock") \cup Runners("consume_withLock") = {} => <>AllDone

=============================================================================
