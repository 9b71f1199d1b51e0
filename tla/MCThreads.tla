------------------------------ MODULE MCThreads ------------------------------
(***************************************************************************)
(* The kernel's threads, with a few ids and two priorities; or the threads *)
(* of ThreadTest6 to ThreadTest9, with fewer rounds.                       *)
(***************************************************************************)
EXTENDS Threads, ThreadTest

TwoPriorities == {0, 255}

OnePriority == {255}

TheThreads == {"Alice", "Bob", "Carol", "David", "producer", "consumer1",
               "consumer2"}
TheLocks == {"rcLock", "writeLock", "conditionLock", "lock"}
TheConditions == {"barrierCondition", "consumeCondition", "produceCondition"}

\* ThreadTest9.
ReadWrite ==
  [t \in TheThreads |->
     CASE t \in {"Alice", "Bob"} -> "read"
       [] t \in {"Carol", "David"} -> "write"
       [] OTHER -> "none"]

\* ThreadTest8 and, beside it, producers and consumers that run f and g.
BarrierAnd(f, g) ==
  [t \in TheThreads |->
     CASE t \in {"Alice", "Bob", "Carol", "David"} -> "barrierRun"
       [] t = "producer" -> f
       [] OTHER -> g]

\* No test is run.
NoTest == [t \in TheThreads |-> "none"]

TheTests == {NoTest, ReadWrite,
             BarrierAnd("produce_withLock", "consume_withLock"),
             BarrierAnd("produce_withCondition", "consume_withCondition")}

\* The producer makes as many products as the two consumers take.
TheRounds ==
  [p \in Programs |->
     CASE p = "barrierRun" -> 1
       [] p \in {"produce_withLock", "produce_withCondition"} -> 4
       [] OTHER -> 2]

-----------------------------------------------------------------------------
vars == <<threadVars, testVars>>

MCInit == ThreadsInit /\ TestInit

\* The kernel is looked at if there is no test.
Kernel == program = NoTest /\ UNCHANGED testVars
Test == program # NoTest /\ UNCHANGED <<threadVars, program>>

MCNext ==
  \/ Kernel /\ ThreadsNext
  \/ Test /\ TestNext

\* The fairness of ThreadsFairSpec and of TestFairSpec.
MCSpec ==
  /\ MCInit /\ [][MCNext]_vars
  /\ WF_vars(Kernel /\ Enable) /\ SF_vars(Kernel /\ TimerYield) /\ WF_vars(Kernel /\ Dispatch)
  /\ \A t \in Thread : WF_vars(Test /\ TestStep(t))
=============================================================================
