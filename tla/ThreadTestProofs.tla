--------------------------- MODULE ThreadTestProofs ---------------------------
(***************************************************************************)
(* Proofs about the synchronization programs of threads/threadtest.cc, for *)
(* any number of threads, rounds and products.  TestInv is inductive: where *)
(* the threads are and which queues they sleep in (PlaceInv), whom the     *)
(* locks of the readers and writers are held for (ReadersInv), whom the    *)
(* barrier has counted (BarrierInv), and the pool.                         *)
(***************************************************************************)
EXTENDS ThreadTest, SequenceTheorems, FiniteSetTheorems, TLAPS

Labels == Programs \cup
  {"first", "counted", "reading", "last", "left", "written", "await", "broadcast", "asleep", "woken",
   "passing", "later", "taken", "test", "done"}

\* The statements of each function.
Places(p) ==
  CASE p = "read" -> {"read", "first", "counted", "reading", "last", "left", "done"}
    [] p = "write" -> {"write", "written", "done"}
    [] p = "barrierRun" -> {"barrierRun", "await", "broadcast", "asleep", "woken", "passing", "done"}
    [] p \in {"produce_withLock", "consume_withLock"} -> {p, "later", "taken", "done"}
    [] p \in {"produce_withCondition", "consume_withCondition"} -> {p, "test", "asleep", "woken", "taken", "done"}
    [] OTHER -> {"done"}

\* The function whose threads wait on a condition variable.
Sleeps(p, c) ==
  \/ c = "barrierCondition" /\ p = "barrierRun"
  \/ c = "produceCondition" /\ p = "produce_withCondition"
  \/ c = "consumeCondition" /\ p = "consume_withCondition"

TestTypeOK ==
  /\ program \in [Thread -> Programs \cup {"none"}]
  /\ pc \in [Thread -> Labels]
  /\ round \in [Thread -> Nat]
  /\ holder \in [Lock -> Thread \cup {None}]
  /\ waitingQueue \in [Condition -> Seq(Thread)]

PlacesOK == \A t \in Thread : pc[t] \in Places(program[t])

\* The threads in the queue of a condition variable sleep, and are there once.
QueuesOK ==
  \A c \in Condition :
    /\ \A i \in 1 .. Len(waitingQueue[c]) :
         pc[waitingQueue[c][i]] = "asleep" /\ Sleeps(program[waitingQueue[c][i]], c)
    /\ \A i, j \in 1 .. Len(waitingQueue[c]) : waitingQueue[c][i] = waitingQueue[c][j] => i = j

PlaceInv == TestTypeOK /\ PlacesOK /\ QueuesOK

\* The readers that readerCount counts.
Inside == {t \in Thread : pc[t] \in {"first", "counted", "reading"}}

\* writeLock is held for a writer, or by a reader for all readers that are
\* counted: from the first one's Acquire to the last one's Release, whoever
\* that is.  rcLock orders the two.
ReadersInv ==
  /\ readerCount = Cardinality(Inside)
  /\ \A t \in Thread :
       /\ pc[t] \in {"first", "counted", "last", "left"} => holder["rcLock"] = t
       /\ pc[t] = "written" => holder["writeLock"] = t
       /\ pc[t] \in {"counted", "reading", "last"} =>
            holder["writeLock"] \in Thread /\ program[holder["writeLock"]] = "read"
       /\ pc[t] = "first" => Inside = {t}
       /\ pc[t] = "last" => Inside = {}

\* barrierCnt counts the threads that have arrived, and the barrier opens for
\* the last one.
Arrived == {t \in Thread : program[t] = "barrierRun" /\ pc[t] # "barrierRun"}
BarrierInv ==
  /\ barrierCnt = Cardinality(Arrived)
  /\ program \in Tests
  /\ (\E t \in Thread : program[t] = "barrierRun" /\ pc[t] \in {"broadcast", "woken", "passing", "done"}) =>
       \A t \in Thread : program[t] = "barrierRun" => pc[t] # "barrierRun"

TestInv == PlaceInv /\ ReadersInv /\ BarrierInv /\ PoolWithinBounds

-----------------------------------------------------------------------------
(* The places of the threads                                               *)

\* A function's label tells its threads apart from the others'.
LEMMA PlacesApart ==
  ASSUME NEW p \in Programs \cup {"none"}, NEW x \in Places(p)
  PROVE  /\ x \in Labels
         /\ x \in {"read", "first", "counted", "reading", "last", "left"} => p = "read"
         /\ x \in {"write", "written"} => p = "write"
         /\ x \in {"barrierRun", "await", "broadcast", "passing"} => p = "barrierRun"
         /\ x = "produce_withLock" => p = "produce_withLock"
         /\ x = "consume_withLock" => p = "consume_withLock"
         /\ x = "later" => p \in {"produce_withLock", "consume_withLock"}
         /\ x = "taken" => p \in {"produce_withLock", "consume_withLock", "produce_withCondition", "consume_withCondition"}
BY Zenon DEF Places, Programs, Labels

\* What each function may be at.
LEMMA PlacesOf ==
  ASSUME NEW p \in Programs
  PROVE  /\ p \in Places(p) /\ "done" \in Places(p)
         /\ p = "read" => {"first", "counted", "reading", "last", "left"} \subseteq Places(p)
         /\ p = "write" => "written" \in Places(p)
         /\ p = "barrierRun" => {"await", "broadcast", "asleep", "woken", "passing"} \subseteq Places(p)
         /\ p \in {"produce_withLock", "consume_withLock"} => {"later", "taken"} \subseteq Places(p)
         /\ p \in {"produce_withCondition", "consume_withCondition"} =>
              {"test", "asleep", "woken", "taken"} \subseteq Places(p)
BY Zenon DEF Places, Programs

\* A thread that is not asleep goes to another statement of its function.
LEMMA Move ==
  ASSUME PlaceInv, NEW t \in Thread, pc[t] # "asleep", NEW x \in Places(program[t]),
         pc' = [pc EXCEPT ![t] = x], UNCHANGED <<waitingQueue, program>>,
         round' \in [Thread -> Nat], holder' \in [Lock -> Thread \cup {None}]
  PROVE  PlaceInv'
<1>1. TestTypeOK /\ PlacesOK /\ QueuesOK
  BY Zenon DEF PlaceInv
<1>2. x \in Labels
  BY <1>1, PlacesApart, Zenon DEF TestTypeOK
<1>3. TestTypeOK'
  BY <1>1, <1>2, Zenon DEF TestTypeOK
<1>4. PlacesOK'
  BY <1>1, Zenon DEF TestTypeOK, PlacesOK
<1>5. QueuesOK'
  <2>1. ASSUME NEW c \in Condition, NEW i \in 1 .. Len(waitingQueue[c])
        PROVE  pc'[waitingQueue[c][i]] = pc[waitingQueue[c][i]]
    <3>1. waitingQueue[c][i] \in Thread /\ waitingQueue[c][i] # t
      BY <1>1, <2>1, ElementOfSeq, Zenon DEF TestTypeOK, QueuesOK
    <3> QED BY <1>1, <3>1, Zenon DEF TestTypeOK
  <2> QED BY <1>1, <2>1 DEF QueuesOK
<1> QED BY <1>3, <1>4, <1>5, Zenon DEF PlaceInv

\* A thread goes to sleep in the queue of its condition variable.
LEMMA FallAsleep ==
  ASSUME PlaceInv, NEW t \in Thread, NEW c \in Condition, NEW l \in Lock, pc[t] # "asleep",
         Sleeps(program[t], c), Wait(t, c, l), UNCHANGED <<program, round>>
  PROVE  PlaceInv'
<1>1. TestTypeOK /\ PlacesOK /\ QueuesOK
  BY Zenon DEF PlaceInv
<1>2. /\ holder' = [holder EXCEPT ![l] = None]
      /\ waitingQueue' = [waitingQueue EXCEPT ![c] = Append(@, t)]
      /\ pc' = [pc EXCEPT ![t] = "asleep"]
  BY Zenon DEF Wait
<1>3. program[t] \in Programs /\ "asleep" \in Labels /\ "asleep" \in Places(program[t])
  BY PlacesOf, Zenon DEF Sleeps, Programs, Labels
<1>4. ASSUME NEW d \in Condition
      PROVE  /\ waitingQueue[d] \in Seq(Thread) /\ Len(waitingQueue[d]) \in Nat
             /\ \A i \in 1 .. Len(waitingQueue[d]) : waitingQueue[d][i] \in Thread /\ waitingQueue[d][i] # t
  BY <1>1, ElementOfSeq, LenProperties, Zenon DEF TestTypeOK, QueuesOK
<1>5. /\ waitingQueue'[c] \in Seq(Thread) /\ Len(waitingQueue'[c]) = Len(waitingQueue[c]) + 1
      /\ \A i \in 1 .. Len(waitingQueue[c]) : waitingQueue'[c][i] = waitingQueue[c][i]
      /\ waitingQueue'[c][Len(waitingQueue[c]) + 1] = t
  <2>1. waitingQueue'[c] = Append(waitingQueue[c], t)
    BY <1>1, <1>2, Zenon DEF TestTypeOK
  <2> QED BY <1>4, <2>1, AppendProperties
<1>6. TestTypeOK'
  BY <1>1, <1>2, <1>3, <1>5, Zenon DEF TestTypeOK
<1>7. PlacesOK'
  BY <1>1, <1>2, <1>3, Zenon DEF TestTypeOK, PlacesOK
<1>8. ASSUME NEW d \in Condition
      PROVE  /\ \A i \in 1 .. Len(waitingQueue'[d]) :
                  pc'[waitingQueue'[d][i]] = "asleep" /\ Sleeps(program[waitingQueue'[d][i]], d)
             /\ \A i, j \in 1 .. Len(waitingQueue'[d]) : waitingQueue'[d][i] = waitingQueue'[d][j] => i = j
  <2>1. \A i \in 1 .. Len(waitingQueue[d]) :
          pc'[waitingQueue[d][i]] = "asleep" /\ Sleeps(program[waitingQueue[d][i]], d)
    BY <1>1, <1>2, <1>4, Zenon DEF TestTypeOK, QueuesOK
  <2>2. CASE d # c
    <3>1. waitingQueue'[d] = waitingQueue[d]
      BY <1>1, <1>2, <2>2, Zenon DEF TestTypeOK
    <3> QED BY <1>1, <2>1, <3>1, Zenon DEF QueuesOK
  <2>3. CASE d = c
    <3>0. Len(waitingQueue[c]) \in Nat /\ pc'[t] = "asleep"
      BY <1>1, <1>2, <1>4, Zenon DEF TestTypeOK
    <3>1. \A i \in 1 .. Len(waitingQueue'[c]) : i \in 1 .. Len(waitingQueue[c]) \/ i = Len(waitingQueue[c]) + 1
      BY <1>5, <3>0
    <3>2. \A i \in 1 .. Len(waitingQueue'[c]) :
            pc'[waitingQueue'[c][i]] = "asleep" /\ Sleeps(program[waitingQueue'[c][i]], c)
      BY <1>5, <2>1, <2>3, <3>0, <3>1, Zenon
    <3>3. \A i, j \in 1 .. Len(waitingQueue'[c]) : waitingQueue'[c][i] = waitingQueue'[c][j] => i = j
      <4>1. \A i, j \in 1 .. Len(waitingQueue[c]) : waitingQueue[c][i] = waitingQueue[c][j] => i = j
        BY <1>1, Zenon DEF QueuesOK
      <4>2. SUFFICES ASSUME NEW i \in 1 .. Len(waitingQueue'[c]), NEW j \in 1 .. Len(waitingQueue'[c]),
                            waitingQueue'[c][i] = waitingQueue'[c][j]
                     PROVE  i = j
        OBVIOUS
      <4>3. \A k \in 1 .. Len(waitingQueue[c]) : waitingQueue[c][k] # t
        BY <1>4, Zenon
      <4> QED BY <1>5, <3>1, <4>1, <4>2, <4>3, Zenon
    <3> QED BY <2>3, <3>2, <3>3, Zenon
  <2> QED BY <2>2, <2>3, Zenon
<1>9. QueuesOK'
  BY <1>8, Zenon DEF QueuesOK
<1> QED BY <1>6, <1>7, <1>9, Zenon DEF PlaceInv

\* A thread signals, and goes to another statement of its function: the thread
\* at the head of the queue is woken, and no other.
LEMMA WakeOne ==
  ASSUME PlaceInv, NEW t \in Thread, NEW c \in Condition, NEW l \in Lock, pc[t] # "asleep",
         NEW x \in Places(program[t]), Signal(t, c, l, x), UNCHANGED <<program, round>>
  PROVE  /\ PlaceInv' /\ holder' = holder /\ pc'[t] = x
         /\ \A u \in Thread : u # t /\ pc'[u] # pc[u] => Sleeps(program[u], c) /\ pc[u] = "asleep" /\ pc'[u] = "woken"
<1>1. TestTypeOK /\ PlacesOK /\ QueuesOK
  BY Zenon DEF PlaceInv
<1>2. CASE ~(holder[l] = t /\ waitingQueue[c] # << >>)
  <2>1. pc' = [pc EXCEPT ![t] = x] /\ UNCHANGED <<holder, waitingQueue>>
    BY <1>2, Zenon DEF Signal, Goto
  <2>2. PlaceInv'
    BY <1>1, <2>1, Move, Zenon DEF TestTypeOK
  <2> QED BY <1>1, <2>1, <2>2, Zenon DEF TestTypeOK
<1>3. CASE holder[l] = t /\ waitingQueue[c] # << >>
  <2> DEFINE q == waitingQueue[c]
             w == Head(q)
  <2>1. /\ waitingQueue' = [waitingQueue EXCEPT ![c] = Tail(@)]
        /\ pc' = [pc EXCEPT ![w] = "woken", ![t] = x]
        /\ UNCHANGED holder
    BY <1>3, Zenon DEF Signal
  <2>2. \A d \in Condition : waitingQueue[d] \in Seq(Thread) /\ Len(waitingQueue[d]) \in Nat
    BY <1>1, LenProperties, Zenon DEF TestTypeOK
  <2>3. /\ Tail(q) \in Seq(Thread) /\ Len(Tail(q)) = Len(q) - 1 /\ w = q[1] /\ Len(q) # 0
        /\ \A i \in 1 .. Len(Tail(q)) : Tail(q)[i] = q[i + 1]
    BY <1>3, <2>2, HeadTailProperties, EmptySeq
  <2>4. w \in Thread /\ pc[w] = "asleep" /\ Sleeps(program[w], c) /\ w # t
    <3>1. 1 \in 1 .. Len(q)
      BY <2>2, <2>3
    <3> QED BY <1>1, <2>2, <2>3, <3>1, ElementOfSeq DEF QueuesOK
  <2>5. program[w] \in Programs /\ "woken" \in Places(program[w]) /\ "woken" \in Labels /\ x \in Labels
    BY <1>1, <2>4, PlacesOf, PlacesApart, Zenon DEF Sleeps, Programs, Labels, TestTypeOK
  <2>6. pc'[w] = "woken" /\ pc'[t] = x /\ \A u \in Thread : u # w /\ u # t => pc'[u] = pc[u]
    BY <1>1, <2>1, <2>4, Zenon DEF TestTypeOK
  <2>7. TestTypeOK'
    BY <1>1, <2>1, <2>3, <2>5, Zenon DEF TestTypeOK
  <2>8. PlacesOK'
    BY <1>1, <2>4, <2>5, <2>6, Zenon DEF PlacesOK
  <2>9. ASSUME NEW d \in Condition
        PROVE  /\ \A i \in 1 .. Len(waitingQueue'[d]) :
                    pc'[waitingQueue'[d][i]] = "asleep" /\ Sleeps(program[waitingQueue'[d][i]], d)
               /\ \A i, j \in 1 .. Len(waitingQueue'[d]) : waitingQueue'[d][i] = waitingQueue'[d][j] => i = j
    <3>1. \A i \in 1 .. Len(waitingQueue[d]) :
            /\ waitingQueue[d][i] \in Thread /\ waitingQueue[d][i] # t
            /\ pc[waitingQueue[d][i]] = "asleep" /\ Sleeps(program[waitingQueue[d][i]], d)
      BY <1>1, <2>2, ElementOfSeq, Zenon DEF QueuesOK
    <3>2. \A i, j \in 1 .. Len(waitingQueue[d]) : waitingQueue[d][i] = waitingQueue[d][j] => i = j
      BY <1>1, Zenon DEF QueuesOK
    <3>3. CASE d # c
      <4>1. waitingQueue'[d] = waitingQueue[d]
        BY <1>1, <2>1, <3>3, Zenon DEF TestTypeOK
      <4>2. \A i \in 1 .. Len(waitingQueue[d]) : waitingQueue[d][i] # w
        BY <2>4, <3>1, <3>3, Zenon DEF Sleeps
      <4> QED BY <2>6, <3>1, <3>2, <4>1, <4>2, Zenon
    <3>4. CASE d = c
      <4>1. waitingQueue'[d] = Tail(q)
        BY <1>1, <2>1, <3>4, Zenon DEF TestTypeOK
      <4>2. \A i \in 1 .. Len(Tail(q)) : i + 1 \in 1 .. Len(q) /\ i + 1 # 1
        BY <2>2, <2>3
      <4>3. \A i \in 1 .. Len(Tail(q)) : Tail(q)[i] # w /\ Tail(q)[i] = q[i + 1]
        BY <2>2, <2>3, <3>2, <3>4, <4>2
      <4>4. \A i \in 1 .. Len(Tail(q)) : pc'[Tail(q)[i]] = "asleep" /\ Sleeps(program[Tail(q)[i]], c)
        BY <2>6, <3>1, <3>4, <4>2, <4>3
      <4>5. \A i, j \in 1 .. Len(Tail(q)) : Tail(q)[i] = Tail(q)[j] => i = j
        <5>1. SUFFICES ASSUME NEW i \in 1 .. Len(Tail(q)), NEW j \in 1 .. Len(Tail(q)), Tail(q)[i] = Tail(q)[j]
                       PROVE  i = j
          OBVIOUS
        <5>2. i + 1 = j + 1
          BY <3>2, <3>4, <4>2, <4>3, <5>1, Zenon
        <5> QED BY <5>2
      <4> QED BY <3>4, <4>1, <4>4, <4>5
    <3> QED BY <3>3, <3>4, Zenon
  <2>10. QueuesOK'
    BY <2>9, Zenon DEF QueuesOK
  <2> QED BY <2>1, <2>4, <2>6, <2>7, <2>8, <2>10, Zenon DEF PlaceInv
<1> QED BY <1>2, <1>3, Zenon

\* A thread broadcasts: threads in the queue are woken, and no other.
LEMMA WakeAll ==
  ASSUME PlaceInv, NEW t \in Thread, NEW c \in Condition, NEW l \in Lock, pc[t] # "asleep",
         NEW x \in Places(program[t]), Broadcast(t, c, l, x), UNCHANGED <<program, round>>
  PROVE  /\ PlaceInv' /\ holder' = holder /\ pc'[t] = x
         /\ \A u \in Thread : u # t /\ pc'[u] # pc[u] => Sleeps(program[u], c) /\ pc[u] = "asleep" /\ pc'[u] = "woken"
<1>1. TestTypeOK /\ PlacesOK /\ QueuesOK
  BY Zenon DEF PlaceInv
<1>2. CASE holder[l] # t
  <2>1. pc' = [pc EXCEPT ![t] = x] /\ UNCHANGED <<holder, waitingQueue>>
    BY <1>2, Zenon DEF Broadcast, Goto
  <2>2. PlaceInv'
    BY <1>1, <2>1, Move, Zenon DEF TestTypeOK
  <2> QED BY <1>1, <2>1, <2>2, Zenon DEF TestTypeOK
<1>3. CASE holder[l] = t
  <2> DEFINE q == waitingQueue[c]
             In(u) == \E i \in 1 .. Len(q) : q[i] = u
  <2>1. /\ waitingQueue' = [waitingQueue EXCEPT ![c] = << >>]
        /\ pc' = [u \in Thread |-> IF u = t THEN x ELSE IF In(u) THEN "woken" ELSE pc[u]]
        /\ UNCHANGED holder
    BY <1>3, Zenon DEF Broadcast
  <2>2. \A u \in Thread : In(u) => pc[u] = "asleep" /\ Sleeps(program[u], c)
    BY <1>1, Zenon DEF QueuesOK
  <2>3. \A u \in Thread : Sleeps(program[u], c) => "woken" \in Places(program[u])
    BY PlacesOf, Zenon DEF Sleeps, Programs
  <2>4. "woken" \in Labels /\ x \in Labels
    BY <1>1, PlacesApart, Zenon DEF Labels, TestTypeOK
  <2> HIDE DEF In
  <2>5. /\ pc'[t] = x
        /\ \A u \in Thread : u # t => (In(u) /\ pc'[u] = "woken") \/ (~In(u) /\ pc'[u] = pc[u])
    BY <2>1, Zenon
  <2>6. TestTypeOK'
    <3>1. pc' \in [Thread -> Labels]
      BY <1>1, <2>1, <2>4, Zenon DEF TestTypeOK
    <3>2. waitingQueue' \in [Condition -> Seq(Thread)]
      BY <1>1, <2>1 DEF TestTypeOK
    <3> QED BY <1>1, <2>1, <3>1, <3>2, Zenon DEF TestTypeOK
  <2>7. PlacesOK'
    BY <1>1, <2>2, <2>3, <2>5, Zenon DEF PlacesOK
  <2>8. ASSUME NEW d \in Condition
        PROVE  /\ \A i \in 1 .. Len(waitingQueue'[d]) :
                    pc'[waitingQueue'[d][i]] = "asleep" /\ Sleeps(program[waitingQueue'[d][i]], d)
               /\ \A i, j \in 1 .. Len(waitingQueue'[d]) : waitingQueue'[d][i] = waitingQueue'[d][j] => i = j
    <3>1. CASE d # c
      <4>1. waitingQueue'[d] = waitingQueue[d]
        BY <1>1, <2>1, <3>1, Zenon DEF TestTypeOK
      <4>2. \A i \in 1 .. Len(waitingQueue[d]) :
              /\ waitingQueue[d][i] \in Thread
              /\ pc[waitingQueue[d][i]] = "asleep" /\ Sleeps(program[waitingQueue[d][i]], d)
        BY <1>1, ElementOfSeq, Zenon DEF QueuesOK, TestTypeOK
      <4>3. \A i \in 1 .. Len(waitingQueue[d]) : ~In(waitingQueue[d][i])
        BY <2>2, <3>1, <4>2, Zenon DEF Sleeps
      <4>4. \A i \in 1 .. Len(waitingQueue[d]) : pc'[waitingQueue[d][i]] = "asleep"
        BY <2>5, <4>2, <4>3, Zenon
      <4>5. \A i, j \in 1 .. Len(waitingQueue[d]) : waitingQueue[d][i] = waitingQueue[d][j] => i = j
        BY <1>1, Zenon DEF QueuesOK
      <4> QED BY <4>1, <4>2, <4>4, <4>5, Zenon
    <3>2. CASE d = c
      BY <1>1, <2>1, <3>2 DEF TestTypeOK
    <3> QED BY <3>1, <3>2, Zenon
  <2>9. QueuesOK'
    BY <2>8, Zenon DEF QueuesOK
  <2> QED BY <2>1, <2>2, <2>5, <2>6, <2>7, <2>9, Zenon DEF PlaceInv
<1> QED BY <1>2, <1>3, Zenon

\* Releasing a lock at the end of a round, a thread starts the next one.
LEMMA NextRoundPlace ==
  ASSUME PlaceInv, NEW t \in Thread, program[t] # "none"
  PROVE  NextRound(t) \in Places(program[t])
<1>1. program[t] \in Programs
  BY Zenon DEF PlaceInv, TestTypeOK
<1> QED BY <1>1, PlacesOf, Zenon DEF NextRound

\* Every step keeps threads within their functions, and sleepers in the queues.
LEMMA PlaceStep ==
  ASSUME PlaceInv, NEW t \in Thread, TestStep(t), UNCHANGED program
  PROVE  PlaceInv'
<1>0. /\ program \in [Thread -> Programs \cup {"none"}] /\ pc[t] \in Places(program[t])
      /\ round \in [Thread -> Nat] /\ holder \in [Lock -> Thread \cup {None}]
  BY Zenon DEF PlaceInv, TestTypeOK, PlacesOK
<1> DEFINE p == program[t]
<1>1. p \in Programs \cup {"none"}
  BY <1>0, Zenon
<1>a. /\ pc[t] \in {"read", "first", "counted", "reading", "last", "left"} => p = "read"
      /\ pc[t] \in {"write", "written"} => p = "write"
      /\ pc[t] \in {"barrierRun", "await", "broadcast", "passing"} => p = "barrierRun"
      /\ pc[t] = "produce_withLock" => p = "produce_withLock"
      /\ pc[t] = "consume_withLock" => p = "consume_withLock"
      /\ pc[t] = "later" => p \in {"produce_withLock", "consume_withLock"}
      /\ pc[t] = "taken" => p \in {"produce_withLock", "consume_withLock", "produce_withCondition", "consume_withCondition"}
  BY <1>0, <1>1, PlacesApart, Zenon
<1>b. /\ p \in Programs => p \in Places(p) /\ "done" \in Places(p)
      /\ p = "read" => {"first", "counted", "reading", "last", "left"} \subseteq Places(p)
      /\ p = "write" => "written" \in Places(p)
      /\ p = "barrierRun" => {"await", "broadcast", "asleep", "woken", "passing"} \subseteq Places(p)
      /\ p \in {"produce_withLock", "consume_withLock"} => {"later", "taken"} \subseteq Places(p)
      /\ p \in {"produce_withCondition", "consume_withCondition"} =>
           {"test", "asleep", "woken", "taken"} \subseteq Places(p)
  BY PlacesOf, Zenon DEF Programs
<1>c. ASSUME NEW l \in Lock, NEW x \in Places(p), pc[t] # "asleep",
             Acquire(t, l, x) \/ Release(t, l, x), UNCHANGED round
      PROVE  PlaceInv'
  <2>1. pc' = [pc EXCEPT ![t] = x] /\ UNCHANGED waitingQueue /\ holder' \in [Lock -> Thread \cup {None}]
    BY <1>0, <1>c, Zenon DEF Acquire, Release
  <2> QED BY <1>0, <1>c, <2>1, Move, Zenon
<1>d. ASSUME NEW l \in Lock, p # "none", pc[t] # "asleep", EndRound(t, l)
      PROVE  PlaceInv'
  <2>1. /\ pc' = [pc EXCEPT ![t] = NextRound(t)] /\ UNCHANGED waitingQueue
        /\ holder' \in [Lock -> Thread \cup {None}] /\ round' \in [Thread -> Nat]
    BY <1>0, <1>d DEF EndRound, Release
  <2>2. NextRound(t) \in Places(program[t])
    BY <1>d, NextRoundPlace, Zenon
  <2> QED BY <1>d, <2>1, <2>2, Move, Zenon
<1>e. /\ "rcLock" \in Lock /\ "writeLock" \in Lock /\ "conditionLock" \in Lock /\ "lock" \in Lock
      /\ "barrierCondition" \in Condition /\ "produceCondition" \in Condition /\ "consumeCondition" \in Condition
  BY ThreadTestAssumption, Zenon DEF Locks, Conditions
<1> HIDE DEF p
<1>2. CASE ReadEnter(t)
  BY <1>2, <1>a, <1>b, <1>c, <1>e, Zenon DEF ReadEnter, At
<1>3. CASE ReadFirst(t)
  BY <1>3, <1>a, <1>b, <1>c, <1>e, Zenon DEF ReadFirst, At
<1>4. CASE ReadStart(t)
  BY <1>4, <1>a, <1>b, <1>c, <1>e, Zenon DEF ReadStart, At
<1>5. CASE ReadLeave(t)
  BY <1>5, <1>a, <1>b, <1>c, <1>e, Zenon DEF ReadLeave, At
<1>6. CASE ReadLast(t)
  BY <1>6, <1>a, <1>b, <1>c, <1>e, Zenon DEF ReadLast, At
<1>7. CASE ReadEnd(t)
  BY <1>7, <1>a, <1>d, <1>e, Zenon DEF ReadEnd, At
<1>8. CASE Write(t)
  BY <1>8, <1>a, <1>b, <1>c, <1>e, Zenon DEF Write, At
<1>9. CASE WriteEnd(t)
  BY <1>9, <1>a, <1>d, <1>e, Zenon DEF WriteEnd, At
<1>10. CASE BarrierArrive(t)
  BY <1>10, <1>a, <1>b, <1>c, <1>e, Zenon DEF BarrierArrive, At
<1>11. CASE BarrierWait(t)
  BY <1>11, <1>a, <1>e, FallAsleep, Zenon DEF BarrierWait, At, Sleeps, p
<1>12. CASE BarrierBroadcast(t)
  BY <1>12, <1>a, <1>b, <1>e, WakeAll, Zenon DEF BarrierBroadcast, AllWoken, At, p
<1>13. CASE BarrierWoken(t)
  BY <1>13, <1>b, <1>c, <1>e, Zenon DEF BarrierWoken, EndOfWait, At, p
<1>14. CASE BarrierPass(t)
  BY <1>14, <1>a, <1>d, <1>e, Zenon DEF BarrierPass, At
<1>15. CASE LockProduce(t)
  BY <1>15, <1>a, <1>b, <1>c, <1>e, Zenon DEF LockProduce, At
<1>16. CASE LockConsume(t)
  BY <1>16, <1>a, <1>b, <1>c, <1>e, Zenon DEF LockConsume, At
<1>17. CASE LockLater(t)
  BY <1>17, <1>a, <1>b, <1>c, <1>e, Zenon DEF LockLater, At, Programs, p
<1>18. CASE ProductEnd(t)
  BY <1>18, <1>a, <1>d, <1>e, Zenon DEF ProductEnd, At
<1>19. CASE ConditionLock(t)
  BY <1>19, <1>b, <1>c, <1>e, Zenon DEF ConditionLock, At, p
<1>20. CASE ProduceWait(t)
  BY <1>20, <1>e, FallAsleep, Zenon DEF ProduceWait, At, Sleeps
<1>21. CASE Produce(t)
  BY <1>21, <1>b, <1>e, WakeOne, Zenon DEF Produce, At, p
<1>22. CASE ConsumeWait(t)
  BY <1>22, <1>e, FallAsleep, Zenon DEF ConsumeWait, At, Sleeps
<1>23. CASE Consume(t)
  BY <1>23, <1>b, <1>e, WakeOne, Zenon DEF Consume, Signalled, At, p
<1> QED
  BY <1>2, <1>3, <1>4, <1>5, <1>6, <1>7, <1>8, <1>9, <1>10, <1>11, <1>12, <1>13, <1>14, <1>15, <1>16,
     <1>17, <1>18, <1>19, <1>20, <1>21, <1>22, <1>23 DEF TestStep

\* What a step leaves alone: it moves its own thread, and threads of its own
\* test that it wakes; only readers and writers touch readerCount and its
\* locks, and only barrierRun touches barrierCnt.
LEMMA Footprint ==
  ASSUME PlaceInv, NEW t \in Thread, TestStep(t), UNCHANGED program
  PROVE  /\ \A u \in Thread : u # t /\ pc'[u] # pc[u] =>
              /\ pc[u] = "asleep" /\ pc'[u] = "woken"
              /\ program[u] = "barrierRun" => program[t] = "barrierRun"
              /\ program[u] \notin {"read", "write"} /\ program[t] \notin {"read", "write"}
         /\ program[t] \notin {"read", "write"} =>
              readerCount' = readerCount /\ holder'["rcLock"] = holder["rcLock"] /\ holder'["writeLock"] = holder["writeLock"]
         /\ program[t] # "barrierRun" => barrierCnt' = barrierCnt
<1>0. /\ program \in [Thread -> Programs \cup {"none"}] /\ pc[t] \in Places(program[t])
      /\ holder \in [Lock -> Thread \cup {None}] /\ pc \in [Thread -> Labels]
  BY Zenon DEF PlaceInv, TestTypeOK, PlacesOK
<1> DEFINE p == program[t]
<1>1. p \in Programs \cup {"none"}
  BY <1>0, Zenon
<1>a. /\ pc[t] \in {"read", "first", "counted", "reading", "last", "left"} => p = "read"
      /\ pc[t] \in {"write", "written"} => p = "write"
      /\ pc[t] \in {"barrierRun", "await", "broadcast", "passing"} => p = "barrierRun"
  BY <1>0, <1>1, PlacesApart, Zenon
<1>c. ASSUME NEW l \in Lock, NEW x, Acquire(t, l, x) \/ Release(t, l, x)
      PROVE  /\ \A u \in Thread : u # t => pc'[u] = pc[u]
             /\ \A m \in Lock \ {l} : holder'[m] = holder[m]
  BY <1>0, <1>c, Zenon DEF Acquire, Release
<1>d. ASSUME NEW l \in Lock, NEW c \in Condition, Wait(t, c, l)
      PROVE  /\ \A u \in Thread : u # t => pc'[u] = pc[u]
             /\ \A m \in Lock \ {l} : holder'[m] = holder[m]
  BY <1>0, <1>d, Zenon DEF Wait
<1>e. /\ "rcLock" \in Lock /\ "writeLock" \in Lock /\ "conditionLock" \in Lock /\ "lock" \in Lock
      /\ "barrierCondition" \in Condition /\ "produceCondition" \in Condition /\ "consumeCondition" \in Condition
  BY ThreadTestAssumption, Zenon DEF Locks, Conditions
<1>f. ASSUME NEW l \in Lock, EndRound(t, l)
      PROVE  /\ \A u \in Thread : u # t => pc'[u] = pc[u]
             /\ \A m \in Lock \ {l} : holder'[m] = holder[m]
  BY <1>0, <1>f, Zenon DEF EndRound, Release
<1> HIDE DEF p
<1>2. CASE ReadEnter(t) \/ ReadFirst(t) \/ ReadStart(t) \/ ReadLeave(t) \/ ReadLast(t)
  BY <1>2, <1>a, <1>c, <1>e, Zenon DEF ReadEnter, ReadFirst, ReadStart, ReadLeave, ReadLast, At, p
<1>3. CASE ReadEnd(t) \/ WriteEnd(t)
  BY <1>3, <1>a, <1>f, <1>e, Zenon DEF ReadEnd, WriteEnd, At, p
<1>4. CASE Write(t)
  BY <1>4, <1>a, <1>c, <1>e, Zenon DEF Write, At, p
<1>5. CASE BarrierArrive(t) \/ BarrierWoken(t)
  BY <1>5, <1>a, <1>c, <1>e, Zenon DEF BarrierArrive, BarrierWoken, EndOfWait, At, p, readWriteVars
<1>6. CASE BarrierWait(t)
  BY <1>6, <1>a, <1>d, <1>e, Zenon DEF BarrierWait, At, p, readWriteVars
<1>7. CASE BarrierBroadcast(t)
  <2>1. p = "barrierRun" /\ "passing" \in Places(p) /\ pc[t] # "asleep"
    BY <1>7, <1>a, PlacesOf, Zenon DEF BarrierBroadcast, At, Programs
  <2>2. Broadcast(t, "barrierCondition", "conditionLock", "passing") /\ UNCHANGED <<round, readerCount>>
    BY <1>7, Zenon DEF BarrierBroadcast, AllWoken, readWriteVars
  <2>3. /\ holder' = holder
        /\ \A u \in Thread : u # t /\ pc'[u] # pc[u] =>
             Sleeps(program[u], "barrierCondition") /\ pc[u] = "asleep" /\ pc'[u] = "woken"
    BY <1>e, <2>1, <2>2, WakeAll, Zenon DEF p
  <2> QED BY <2>1, <2>2, <2>3, Zenon DEF p, Sleeps
<1>8. CASE BarrierPass(t)
  BY <1>8, <1>a, <1>f, <1>e, Zenon DEF BarrierPass, At, p, readWriteVars
<1>9. CASE LockProduce(t) \/ LockConsume(t) \/ LockLater(t) \/ ConditionLock(t)
  BY <1>9, <1>c, <1>e, Zenon DEF LockProduce, LockConsume, LockLater, ConditionLock, readWriteVars
<1>10. CASE ProductEnd(t)
  BY <1>10, <1>f, <1>e, Zenon DEF ProductEnd, readWriteVars
<1>11. CASE ProduceWait(t) \/ ConsumeWait(t)
  BY <1>11, <1>d, <1>e, Zenon DEF ProduceWait, ConsumeWait, readWriteVars
<1>12. CASE Produce(t) \/ Consume(t)
  <2>1. p \in {"produce_withCondition", "consume_withCondition"} /\ "taken" \in Places(p) /\ pc[t] # "asleep"
    BY <1>12, PlacesOf, Zenon DEF Produce, Consume, At, Programs, p
  <2>2. PICK c \in {"produceCondition", "consumeCondition"} : Signal(t, c, "lock", "taken")
    BY <1>12, Zenon DEF Produce, Consume, Signalled
  <2>3. UNCHANGED <<round, readerCount, barrierCnt>>
    BY <1>12, Zenon DEF Produce, Consume, readWriteVars
  <2>4. /\ holder' = holder
        /\ \A u \in Thread : u # t /\ pc'[u] # pc[u] => Sleeps(program[u], c) /\ pc[u] = "asleep" /\ pc'[u] = "woken"
    BY <1>e, <2>1, <2>2, <2>3, WakeOne, Zenon DEF p
  <2> QED BY <2>1, <2>2, <2>3, <2>4, Zenon DEF p, Sleeps
<1> QED
  BY <1>2, <1>3, <1>4, <1>5, <1>6, <1>7, <1>8, <1>9, <1>10, <1>11, <1>12, Zenon DEF TestStep

-----------------------------------------------------------------------------
(* Readers and writers                                                     *)

\* The invariant of the readers, of a step of one of the other programs.
LEMMA ReadersApart ==
  ASSUME PlaceInv, PlaceInv', ReadersInv, UNCHANGED <<program, readerCount>>,
         holder'["rcLock"] = holder["rcLock"], holder'["writeLock"] = holder["writeLock"],
         \A u \in Thread : program[u] \in {"read", "write"} => pc'[u] = pc[u]
  PROVE  ReadersInv'
<1> DEFINE places == {"first", "counted", "reading", "last", "left", "written"}
<1>1. \A u \in Thread : pc[u] \in places \/ pc'[u] \in places => pc'[u] = pc[u]
  <2>1. \A u \in Thread : pc[u] \in places => program[u] \in {"read", "write"}
    BY PlacesApart, Zenon DEF PlaceInv, TestTypeOK, PlacesOK
  <2>2. \A u \in Thread : pc'[u] \in places => program[u] \in {"read", "write"}
    BY PlacesApart, Zenon DEF PlaceInv, TestTypeOK, PlacesOK
  <2> QED BY <2>1, <2>2, Zenon
<1>2. Inside' = Inside
  BY <1>1, Zenon DEF Inside
<1> QED BY <1>1, <1>2, Zenon DEF ReadersInv

\* The readers that are counted, as a set that steps add to and take from.
LEMMA InsideFinite == Inside \in SUBSET Thread /\ IsFiniteSet(Inside) /\ Cardinality(Inside) \in Nat
<1>1. Inside \in SUBSET Thread
  BY Zenon DEF Inside
<1> QED BY <1>1, BarrierAssumption, FS_Subset, FS_CardinalityType, Zenon

LEMMA ReadersStep ==
  ASSUME PlaceInv, PlaceInv', ReadersInv, NEW t \in Thread, TestStep(t), UNCHANGED program
  PROVE  ReadersInv'
<1>0. /\ program \in [Thread -> Programs \cup {"none"}] /\ pc[t] \in Places(program[t])
      /\ holder \in [Lock -> Thread \cup {None}] /\ pc \in [Thread -> Labels]
      /\ "rcLock" \in Lock /\ "writeLock" \in Lock /\ None \notin Thread
  BY ThreadTestAssumption, MonitorAssumption, Zenon DEF PlaceInv, TestTypeOK, PlacesOK, Locks
<1>a. /\ pc[t] \in {"read", "first", "counted", "reading", "last", "left"} => program[t] = "read"
      /\ pc[t] \in {"write", "written"} => program[t] = "write"
      /\ pc[t] \in {"barrierRun", "await", "broadcast", "passing"} => program[t] = "barrierRun"
  BY <1>0, PlacesApart, Zenon
<1>r. /\ readerCount = Cardinality(Inside)
      /\ \A u \in Thread :
           /\ pc[u] \in {"first", "counted", "last", "left"} => holder["rcLock"] = u
           /\ pc[u] = "written" => holder["writeLock"] = u
           /\ pc[u] \in {"counted", "reading", "last"} =>
                holder["writeLock"] \in Thread /\ program[holder["writeLock"]] = "read"
           /\ pc[u] = "first" => Inside = {u}
           /\ pc[u] = "last" => Inside = {}
  BY Zenon DEF ReadersInv
<1>1. CASE program[t] \notin {"read", "write"}
  BY <1>1, Footprint, ReadersApart, Zenon
<1>2. CASE ReadEnter(t)
  <2> DEFINE x == IF readerCount = 0 THEN "first" ELSE "counted"
  <2>1. /\ program[t] = "read" /\ pc[t] = "read" /\ holder["rcLock"] = None
        /\ pc' = [pc EXCEPT ![t] = x] /\ holder' = [holder EXCEPT !["rcLock"] = t] /\ readerCount' = readerCount + 1
    BY <1>2, Zenon DEF ReadEnter, At, Acquire
  <2>2. t \notin Inside /\ Inside' = Inside \cup {t}
    BY <1>0, <2>1, Zenon DEF Inside
  <2>3. Cardinality(Inside') = Cardinality(Inside) + 1
    BY <2>2, InsideFinite, FS_AddElement, Zenon
  <2>4. \A u \in Thread : u # t => pc'[u] = pc[u] /\ pc[u] \notin {"first", "counted", "last", "left"}
    BY <1>0, <1>r, <2>1, Zenon
  <2>5. holder'["rcLock"] = t /\ holder'["writeLock"] = holder["writeLock"]
    BY <1>0, <2>1, Zenon
  <2>6. CASE readerCount = 0
    <3>1. Inside' = {t} /\ pc'[t] = "first"
      BY <1>0, <1>r, <2>1, <2>2, <2>6, InsideFinite, FS_EmptySet, Zenon
    <3> QED BY <1>r, <2>1, <2>3, <2>4, <2>5, <3>1, Zenon DEF ReadersInv
  <2>7. CASE readerCount # 0
    <3>1. PICK u \in Thread : u \in Inside
      BY <1>r, <2>7, InsideFinite, FS_EmptySet, Zenon DEF Inside
    <3>2. pc[u] = "reading" /\ pc'[t] = "counted"
      BY <1>0, <2>1, <2>2, <2>4, <2>7, <3>1, Zenon DEF Inside
    <3>3. holder'["writeLock"] \in Thread /\ program[holder'["writeLock"]] = "read"
      BY <1>r, <2>5, <3>2, Zenon
    <3> QED BY <1>r, <2>1, <2>3, <2>4, <2>5, <3>2, <3>3 DEF ReadersInv
  <2> QED BY <2>6, <2>7, Zenon
<1>3. CASE ReadFirst(t)
  <2>1. /\ program[t] = "read" /\ pc[t] = "first" /\ holder["writeLock"] = None /\ readerCount' = readerCount
        /\ pc' = [pc EXCEPT ![t] = "counted"] /\ holder' = [holder EXCEPT !["writeLock"] = t]
    BY <1>3, <1>a, Zenon DEF ReadFirst, At, Acquire, readWriteVars
  <2>2. Inside' = Inside
    BY <1>0, <2>1, Zenon DEF Inside
  <2>3. \A u \in Thread : u # t => pc'[u] = pc[u] /\ pc[u] \notin {"counted", "reading", "last", "written", "first", "left"}
    BY <1>0, <1>r, <2>1, Zenon
  <2>4. holder'["rcLock"] = t /\ holder'["writeLock"] = t /\ pc'[t] = "counted"
    BY <1>0, <1>r, <2>1, Zenon
  <2> QED BY <1>r, <2>1, <2>2, <2>3, <2>4, Zenon DEF ReadersInv
<1>4. CASE ReadStart(t)
  <2>1. /\ program[t] = "read" /\ pc[t] = "counted" /\ readerCount' = readerCount
        /\ pc' = [pc EXCEPT ![t] = "reading"] /\ holder' = [holder EXCEPT !["rcLock"] = None]
    BY <1>4, <1>a, Zenon DEF ReadStart, At, Release, readWriteVars
  <2>2. Inside' = Inside
    BY <1>0, <2>1, Zenon DEF Inside
  <2>3. \A u \in Thread : u # t => pc'[u] = pc[u] /\ pc[u] \notin {"first", "counted", "last", "left"}
    BY <1>0, <1>r, <2>1, Zenon
  <2>4. holder'["writeLock"] = holder["writeLock"] /\ pc'[t] = "reading"
    BY <1>0, <2>1, Zenon
  <2> QED BY <1>r, <2>1, <2>2, <2>3, <2>4, Zenon DEF ReadersInv
<1>5. CASE ReadLeave(t)
  <2> DEFINE x == IF LastReader(readerCount - 1) THEN "last" ELSE "left"
  <2>1. /\ program[t] = "read" /\ pc[t] = "reading" /\ holder["rcLock"] = None
        /\ pc' = [pc EXCEPT ![t] = x] /\ holder' = [holder EXCEPT !["rcLock"] = t] /\ readerCount' = readerCount - 1
    BY <1>5, <1>a, Zenon DEF ReadLeave, At, Acquire
  <2>2. t \in Inside /\ Inside' = Inside \ {t}
    BY <1>0, <2>1, Zenon DEF Inside
  <2>3. Cardinality(Inside') = Cardinality(Inside) - 1 /\ IsFiniteSet(Inside')
    BY <2>2, InsideFinite, FS_RemoveElement, Zenon
  <2>4. \A u \in Thread : u # t => pc'[u] = pc[u] /\ pc[u] \notin {"first", "counted", "last", "left"}
    BY <1>0, <1>r, <2>1, Zenon
  <2>5. holder'["rcLock"] = t /\ holder'["writeLock"] = holder["writeLock"]
    BY <1>0, <2>1, Zenon
  <2>6. pc'[t] \in {"last", "left"} /\ (pc'[t] = "last" => Inside' = {})
    BY <1>0, <1>r, <2>1, <2>3, FS_EmptySet, Zenon DEF LastReader
  <2> QED BY <1>r, <2>1, <2>3, <2>4, <2>5, <2>6, Zenon DEF ReadersInv
<1>6. CASE ReadLast(t)
  <2>1. /\ program[t] = "read" /\ pc[t] = "last" /\ readerCount' = readerCount
        /\ pc' = [pc EXCEPT ![t] = "left"] /\ holder' = [holder EXCEPT !["writeLock"] = None]
    BY <1>6, <1>a, Zenon DEF ReadLast, At, Release, readWriteVars
  <2>2. Inside' = Inside /\ Inside = {}
    BY <1>0, <1>r, <2>1, Zenon DEF Inside
  <2>3. \A u \in Thread : u # t => pc'[u] = pc[u] /\ pc[u] \notin {"first", "counted", "last", "left", "reading"}
    BY <1>0, <1>r, <2>1, <2>2, Zenon DEF Inside
  <2>4. \A u \in Thread : pc[u] # "written"
    <3>1. program[holder["writeLock"]] = "read"
      BY <1>r, <2>1, Zenon
    <3>2. \A u \in Thread : pc[u] = "written" => program[u] = "write"
      <4>1. ASSUME NEW u \in Thread PROVE program[u] \in Programs \cup {"none"} /\ pc[u] \in Places(program[u])
        BY Zenon DEF PlaceInv, TestTypeOK, PlacesOK
      <4> QED BY <4>1, PlacesApart, Zenon
    <3> QED BY <1>r, <3>1, <3>2, Zenon
  <2>5. holder'["rcLock"] = t /\ pc'[t] = "left"
    BY <1>0, <1>r, <2>1, Zenon
  <2> QED BY <1>r, <2>1, <2>2, <2>3, <2>4, <2>5, ZenonT(30) DEF ReadersInv
<1>7. CASE ReadEnd(t)
  <2>1. /\ program[t] = "read" /\ pc[t] = "left" /\ readerCount' = readerCount
        /\ pc' = [pc EXCEPT ![t] = NextRound(t)] /\ holder' = [holder EXCEPT !["rcLock"] = None]
    BY <1>7, <1>a, Zenon DEF ReadEnd, EndRound, At, Release, readWriteVars
  <2>2. NextRound(t) \in {"read", "done"}
    BY <2>1, Zenon DEF NextRound
  <2>3. Inside' = Inside
    BY <1>0, <2>1, <2>2, Zenon DEF Inside
  <2>4. \A u \in Thread : u # t => pc'[u] = pc[u] /\ pc[u] \notin {"first", "counted", "last", "left"}
    BY <1>0, <1>r, <2>1, Zenon
  <2>5. holder'["writeLock"] = holder["writeLock"] /\ pc'[t] \in {"read", "done"}
    BY <1>0, <2>1, <2>2, Zenon
  <2> QED BY <1>r, <2>1, <2>3, <2>4, <2>5, Zenon DEF ReadersInv
<1>8. CASE Write(t)
  <2>1. /\ program[t] = "write" /\ pc[t] = "write" /\ holder["writeLock"] = None /\ readerCount' = readerCount
        /\ pc' = [pc EXCEPT ![t] = "written"] /\ holder' = [holder EXCEPT !["writeLock"] = t]
    BY <1>8, Zenon DEF Write, At, Acquire
  <2>2. Inside' = Inside
    BY <1>0, <2>1, Zenon DEF Inside
  <2>3. \A u \in Thread : u # t => pc'[u] = pc[u] /\ pc[u] \notin {"counted", "reading", "last", "written"}
    BY <1>0, <1>r, <2>1, Zenon
  <2>4. holder'["rcLock"] = holder["rcLock"] /\ holder'["writeLock"] = t /\ pc'[t] = "written"
    BY <1>0, <2>1, Zenon
  <2> QED BY <1>r, <2>1, <2>2, <2>3, <2>4, Zenon DEF ReadersInv
<1>9. CASE WriteEnd(t)
  <2>1. /\ program[t] = "write" /\ pc[t] = "written" /\ readerCount' = readerCount
        /\ pc' = [pc EXCEPT ![t] = NextRound(t)] /\ holder' = [holder EXCEPT !["writeLock"] = None]
    BY <1>9, <1>a, Zenon DEF WriteEnd, EndRound, At, Release, readWriteVars
  <2>2. NextRound(t) \in {"write", "done"}
    BY <2>1, Zenon DEF NextRound
  <2>3. Inside' = Inside
    BY <1>0, <2>1, <2>2, Zenon DEF Inside
  <2>4. \A u \in Thread : u # t => pc'[u] = pc[u] /\ pc[u] \notin {"counted", "reading", "last", "written"}
    BY <1>0, <1>r, <2>1, Zenon
  <2>5. holder'["rcLock"] = holder["rcLock"] /\ pc'[t] \in {"write", "done"}
    BY <1>0, <2>1, <2>2, Zenon
  <2> QED BY <1>r, <2>1, <2>3, <2>4, <2>5, Zenon DEF ReadersInv
<1>10. program[t] \in {"read", "write"} =>
         \/ ReadEnter(t) \/ ReadFirst(t) \/ ReadStart(t) \/ ReadLeave(t) \/ ReadLast(t) \/ ReadEnd(t)
         \/ Write(t) \/ WriteEnd(t)
  <2>1. ASSUME program[t] \in {"read", "write"}
        PROVE  pc[t] \in {"read", "first", "counted", "reading", "last", "left", "write", "written", "done"}
    BY <1>0, <2>1, Zenon DEF Places
  <2> QED
    BY <2>1, Zenon DEF TestStep, BarrierArrive, BarrierWait, BarrierBroadcast, BarrierWoken, BarrierPass,
       LockProduce, LockConsume, LockLater, ProductEnd, ConditionLock, ProduceWait, Produce, ConsumeWait,
       Consume, At
<1> QED BY <1>1, <1>2, <1>3, <1>4, <1>5, <1>6, <1>7, <1>8, <1>9, <1>10, Zenon

-----------------------------------------------------------------------------
(* The barrier                                                             *)

LEMMA ArrivedFinite ==
  ASSUME program \in Tests
  PROVE  /\ IsFiniteSet(Arrived) /\ Cardinality(Arrived) \in Nat
         /\ IsFiniteSet(Runners("barrierRun")) /\ Arrived \in SUBSET Runners("barrierRun")
         /\ Cardinality(Runners("barrierRun")) \in Nat /\ Cardinality(Runners("barrierRun")) <= barrierSize
<1>1. Runners("barrierRun") \in SUBSET Thread /\ Arrived \in SUBSET Runners("barrierRun")
  BY Zenon DEF Runners, Arrived
<1>2. IsFiniteSet(Runners("barrierRun")) /\ IsFiniteSet(Arrived)
  BY <1>1, BarrierAssumption, FS_Subset, Zenon
<1>3. Cardinality(Runners("barrierRun")) <= barrierSize
  BY BarrierAssumption, Zenon DEF Runners
<1> QED BY <1>1, <1>2, <1>3, FS_CardinalityType, Zenon

LEMMA BarrierStep ==
  ASSUME PlaceInv, PlaceInv', BarrierInv, NEW t \in Thread, TestStep(t), UNCHANGED program
  PROVE  BarrierInv'
<1> DEFINE past == {"broadcast", "woken", "passing", "done"}
<1>0. /\ program \in [Thread -> Programs \cup {"none"}] /\ pc[t] \in Places(program[t])
      /\ holder \in [Lock -> Thread \cup {None}] /\ pc \in [Thread -> Labels] /\ round \in [Thread -> Nat]
      /\ "conditionLock" \in Lock /\ "barrierCondition" \in Condition
  BY ThreadTestAssumption, Zenon DEF PlaceInv, TestTypeOK, PlacesOK, Locks, Conditions
<1>b. /\ barrierCnt = Cardinality(Arrived) /\ program \in Tests
      /\ (\E u \in Thread : program[u] = "barrierRun" /\ pc[u] \in past) =>
            \A u \in Thread : program[u] = "barrierRun" => pc[u] # "barrierRun"
  BY Zenon DEF BarrierInv
<1>f. /\ \A u \in Thread : u # t /\ pc'[u] # pc[u] =>
           pc[u] = "asleep" /\ pc'[u] = "woken" /\ (program[u] = "barrierRun" => program[t] = "barrierRun")
      /\ program[t] # "barrierRun" => barrierCnt' = barrierCnt
  BY Footprint, Zenon
<1>1. CASE program[t] # "barrierRun"
  <2>1. \A u \in Thread : program[u] = "barrierRun" => pc'[u] = pc[u]
    BY <1>1, <1>f, Zenon
  <2>2. Arrived' = Arrived
    BY <2>1, Zenon DEF Arrived
  <2> QED BY <1>1, <1>b, <1>f, <2>1, <2>2, Zenon DEF BarrierInv
<1>2. CASE BarrierArrive(t)
  <2> DEFINE x == IF AllGathered THEN "broadcast" ELSE "await"
  <2>1. /\ program[t] = "barrierRun" /\ pc[t] = "barrierRun"
        /\ pc' = [pc EXCEPT ![t] = x] /\ barrierCnt' = barrierCnt + 1
    BY <1>2, Zenon DEF BarrierArrive, At, Acquire
  <2>2. pc'[t] = x /\ \A u \in Thread : u # t => pc'[u] = pc[u]
    BY <1>0, <2>1, Zenon
  <2>3. t \notin Arrived /\ Arrived' = Arrived \cup {t}
    BY <2>1, <2>2 DEF Arrived
  <2>4. barrierCnt' = Cardinality(Arrived')
    BY <1>b, <2>1, <2>3, ArrivedFinite, FS_AddElement, Zenon
  <2>5. ~\E u \in Thread : program[u] = "barrierRun" /\ pc[u] \in past
    BY <1>b, <2>1, Zenon
  <2>6. AllGathered => Arrived' = Runners("barrierRun")
    <3>1. Arrived' \in SUBSET Runners("barrierRun")
      BY Zenon DEF Arrived, Runners
    <3>2. IsFiniteSet(Runners("barrierRun")) /\ Cardinality(Runners("barrierRun")) \in Nat
          /\ Cardinality(Runners("barrierRun")) <= barrierSize /\ barrierSize \in Nat
      BY <1>b, ArrivedFinite, ThreadTestAssumption, Zenon
    <3>3. IsFiniteSet(Arrived') /\ Cardinality(Arrived') \in Nat
          /\ Cardinality(Arrived') <= Cardinality(Runners("barrierRun"))
          /\ (Cardinality(Runners("barrierRun")) = Cardinality(Arrived') => Runners("barrierRun") = Arrived')
      BY <3>1, <3>2, FS_Subset, FS_CardinalityType, Zenon
    <3>4. AllGathered => Cardinality(Arrived') = barrierSize
      BY <2>1, <2>4, Zenon DEF AllGathered
    <3> QED BY <3>2, <3>3, <3>4
  <2>7. CASE AllGathered
    <3>1. \A u \in Thread : program[u] = "barrierRun" => pc'[u] # "barrierRun"
      BY <2>6, <2>7, Zenon DEF Arrived, Runners
    <3> QED BY <1>b, <2>4, <3>1, Zenon DEF BarrierInv
  <2>8. CASE ~AllGathered
    <3>1. ~\E u \in Thread : program[u] = "barrierRun" /\ pc'[u] \in past
      BY <2>2, <2>5, <2>8, Zenon
    <3> QED BY <1>b, <2>4, <3>1, Zenon DEF BarrierInv
  <2> QED BY <2>7, <2>8, Zenon
\* In the other steps no thread arrives, and those that go on were let through.
<1>3. ASSUME program[t] = "barrierRun", pc[t] # "barrierRun", pc'[t] # "barrierRun", barrierCnt' = barrierCnt,
             (\E u \in Thread : program[u] = "barrierRun" /\ pc'[u] \in past) =>
                \E u \in Thread : program[u] = "barrierRun" /\ pc[u] \in past
      PROVE  BarrierInv'
  <2>1. \A u \in Thread : program[u] = "barrierRun" => (pc[u] = "barrierRun" <=> pc'[u] = "barrierRun")
    BY <1>3, <1>f, Zenon
  <2>2. Arrived' = Arrived
    BY <2>1, Zenon DEF Arrived
  <2> QED BY <1>b, <1>3, <2>1, <2>2, Zenon DEF BarrierInv
<1>4. CASE BarrierWait(t) /\ program[t] = "barrierRun"
  <2>1. pc[t] = "await" /\ pc' = [pc EXCEPT ![t] = "asleep"] /\ barrierCnt' = barrierCnt
    BY <1>4, Zenon DEF BarrierWait, Wait, At
  <2>2. pc'[t] = "asleep" /\ \A u \in Thread : u # t => pc'[u] = pc[u]
    BY <1>0, <2>1, Zenon
  <2> QED BY <1>3, <1>4, <2>1, <2>2, Zenon
<1>5. CASE BarrierBroadcast(t) /\ program[t] = "barrierRun"
  <2>1. /\ pc[t] = "broadcast" /\ UNCHANGED <<round, barrierCnt>>
        /\ Broadcast(t, "barrierCondition", "conditionLock", "passing")
    BY <1>5, Zenon DEF BarrierBroadcast, AllWoken, At
  <2>2. "passing" \in Places(program[t])
    BY <1>5, PlacesOf, Zenon DEF Programs
  <2>3. pc'[t] = "passing"
    BY <1>0, <2>1, <2>2, WakeAll, Zenon
  <2> QED BY <1>3, <1>5, <2>1, <2>3, Zenon
<1>6. CASE BarrierWoken(t)
  <2>1. /\ program[t] = "barrierRun" /\ pc[t] = "woken" /\ pc' = [pc EXCEPT ![t] = "passing"]
        /\ barrierCnt' = barrierCnt
    BY <1>6, Zenon DEF BarrierWoken, EndOfWait, Acquire, At
  <2> QED BY <1>0, <1>3, <2>1, Zenon
<1>7. CASE BarrierPass(t) /\ program[t] = "barrierRun"
  <2>1. pc[t] = "passing" /\ pc' = [pc EXCEPT ![t] = NextRound(t)] /\ barrierCnt' = barrierCnt
    BY <1>7, Zenon DEF BarrierPass, EndRound, Release, At
  <2>2. NextRound(t) = "done"
    BY <1>0, <1>7, BarrierAssumption DEF NextRound
  <2> QED BY <1>0, <1>3, <1>7, <2>1, <2>2, Zenon
<1>8. program[t] = "barrierRun" =>
        BarrierArrive(t) \/ BarrierWait(t) \/ BarrierBroadcast(t) \/ BarrierWoken(t) \/ BarrierPass(t)
  <2>1. ASSUME program[t] = "barrierRun"
        PROVE  pc[t] \in {"barrierRun", "await", "broadcast", "asleep", "woken", "passing", "done"}
    BY <1>0, <2>1, Zenon DEF Places
  <2> QED
    BY <2>1, Zenon DEF TestStep, ReadEnter, ReadFirst, ReadStart, ReadLeave, ReadLast, ReadEnd, Write, WriteEnd,
       LockProduce, LockConsume, LockLater, ProductEnd, ConditionLock, ProduceWait, Produce, ConsumeWait,
       Consume, At
<1> QED BY <1>1, <1>2, <1>4, <1>5, <1>6, <1>7, <1>8, Zenon

-----------------------------------------------------------------------------
(* The pool, and the theorems                                              *)

LEMMA PoolStep ==
  ASSUME PoolWithinBounds, NEW t \in Thread, TestStep(t)
  PROVE  PoolWithinBounds'
<1>0. MAX_PRODUCT \in Nat /\ product_num = ProductList /\ product_num \in 0 .. MAX_PRODUCT
  BY ThreadTestAssumption, Zenon DEF PoolWithinBounds
<1>1. CASE LockProduce(t)
  BY <1>0, <1>1 DEF LockProduce, Full, AddProduct, PoolWithinBounds, productVars
<1>2. CASE LockConsume(t)
  BY <1>0, <1>2 DEF LockConsume, IsEmpty, TakeProduct, PoolWithinBounds, productVars
<1>3. CASE Produce(t)
  BY <1>0, <1>3 DEF Produce, AddProduct, PoolWithinBounds
<1>4. CASE Consume(t)
  BY <1>0, <1>4 DEF Consume, IsEmpty, TakeProduct, PoolWithinBounds
<1>5. CASE UNCHANGED productVars
  BY <1>0, <1>5, Zenon DEF PoolWithinBounds, productVars
<1>6. \/ LockProduce(t) \/ LockConsume(t) \/ Produce(t) \/ Consume(t) \/ UNCHANGED productVars
  BY Zenon DEF TestStep, ReadEnter, ReadFirst, ReadStart, ReadLeave, ReadLast, ReadEnd, Write, WriteEnd,
     BarrierArrive, BarrierWait, BarrierBroadcast, BarrierWoken, BarrierPass, LockLater, ProductEnd,
     ConditionLock, ProduceWait, ConsumeWait
<1> QED BY <1>1, <1>2, <1>3, <1>4, <1>5, <1>6, Zenon

LEMMA InitTest == TestInit => TestInv
<1> SUFFICES ASSUME TestInit PROVE TestInv
  OBVIOUS
<1>1. program \in [Thread -> Programs \cup {"none"}] /\ program \in Tests
  BY ThreadTestAssumption, Zenon DEF TestInit
<1>2. /\ holder = [l \in Lock |-> None] /\ waitingQueue = [c \in Condition |-> << >>]
      /\ pc = [t \in Thread |-> IF program[t] = "none" THEN "done" ELSE program[t]]
      /\ round = [t \in Thread |-> 0]
      /\ readerCount = 0 /\ barrierCnt = 0 /\ ProductList = 0 /\ product_num = 0
  BY Zenon DEF TestInit, MonitorInit
<1>3. \A t \in Thread : pc[t] \in Programs \cup {"done"} /\ (pc[t] = "done" => program[t] = "none")
                        /\ (program[t] = "barrierRun" => pc[t] = "barrierRun")
  BY <1>1, <1>2, Zenon DEF Programs
<1>4. TestTypeOK
  BY <1>1, <1>2 DEF TestTypeOK, Labels
<1>5. PlacesOK
  BY <1>1, <1>2, Zenon DEF PlacesOK, Places, Programs
<1>6. QueuesOK
  BY <1>2 DEF QueuesOK
<1>7. ReadersInv
  <2>1. Inside = {}
    BY <1>3, Zenon DEF Inside, Programs
  <2> QED BY <1>2, <1>3, <2>1, FS_EmptySet, Zenon DEF ReadersInv, Programs
<1>8. BarrierInv
  <2>1. Arrived = {}
    BY <1>3, Zenon DEF Arrived
  <2> QED BY <1>1, <1>2, <1>3, <2>1, FS_EmptySet, Zenon DEF BarrierInv
<1>9. PoolWithinBounds
  BY <1>2, ThreadTestAssumption DEF PoolWithinBounds
<1> QED BY <1>4, <1>5, <1>6, <1>7, <1>8, <1>9, Zenon DEF TestInv, PlaceInv

LEMMA TestInvStep == TestInv /\ [TestNext]_testVars => TestInv'
<1> SUFFICES ASSUME TestInv, [TestNext]_testVars PROVE TestInv'
  OBVIOUS
<1>1. CASE UNCHANGED testVars
  BY <1>1, Zenon DEF testVars, TestInv, PlaceInv, TestTypeOK, PlacesOK, QueuesOK, ReadersInv, Inside,
     BarrierInv, Arrived, PoolWithinBounds
<1>2. ASSUME NEW t \in Thread, TestStep(t), UNCHANGED program PROVE TestInv'
  <2>1. PlaceInv /\ ReadersInv /\ BarrierInv /\ PoolWithinBounds
    BY Zenon DEF TestInv
  <2>2. PlaceInv'
    BY <1>2, <2>1, PlaceStep, Zenon
  <2>3. ReadersInv'
    BY <1>2, <2>1, <2>2, ReadersStep, Zenon
  <2>4. BarrierInv'
    BY <1>2, <2>1, <2>2, BarrierStep, Zenon
  <2>5. PoolWithinBounds'
    BY <1>2, <2>1, PoolStep, Zenon
  <2> QED BY <2>2, <2>3, <2>4, <2>5, Zenon DEF TestInv
<1> QED BY <1>1, <1>2, Zenon DEF TestNext

\* The functions of threadtest.cc keep TestInv, whatever the threads, the
\* number of rounds and the size of the pool.
THEOREM TestInvariant == TestSpec => []TestInv
<1>1. TestInit => TestInv
  BY InitTest, Zenon
<1>2. TestInv /\ [TestNext]_testVars => TestInv'
  BY TestInvStep, Zenon
<1> QED BY <1>1, <1>2, PTL DEF TestSpec

\* While a reader prints content no writer is between its Acquire and its
\* Release, and writers exclude each other (read and write of threadtest.cc),
\* for any number of readers and writers, although the reader that releases
\* writeLock need not be the one that acquired it.
THEOREM ReadersAndWriters == TestSpec => []ReadersExcludeWriters
<1>1. TestInv => ReadersExcludeWriters
  <2> SUFFICES ASSUME TestInv PROVE ReadersExcludeWriters
    OBVIOUS
  <2> DEFINE writing == {t \in Thread : pc[t] = "written"}
             reading == {t \in Thread : pc[t] = "reading"}
  <2>1. \A t \in writing : t = holder["writeLock"] /\ program[t] = "write"
    BY PlacesApart DEF TestInv, ReadersInv, PlaceInv, TestTypeOK, PlacesOK
  <2>2. \A t \in reading : program[holder["writeLock"]] = "read"
    BY Zenon DEF TestInv, ReadersInv
  <2>3. writing = {} \/ reading = {}
    BY <2>1, <2>2, Zenon
  <2>4. writing \in SUBSET {holder["writeLock"]}
    BY <2>1, Zenon
  <2>5. Cardinality(writing) <= 1
    <3>1. IsFiniteSet({holder["writeLock"]}) /\ Cardinality({holder["writeLock"]}) = 1
      BY FS_Singleton, Zenon
    <3> QED BY <2>4, <3>1, FS_Subset, Zenon
  <2> QED BY <2>3, <2>5, Zenon DEF ReadersExcludeWriters
<1> QED BY <1>1, TestInvariant, PTL

\* No thread passes the savepoint of barrierRun before all have reached it, for
\* any barrierSize that at most that many threads are forked for.
THEOREM BarrierHolds == TestSpec => []NobodyPassesEarly
<1>1. TestInv => NobodyPassesEarly
  BY Zenon DEF TestInv, BarrierInv, NobodyPassesEarly, Runners
<1> QED BY <1>1, TestInvariant, PTL

\* The producers and consumers keep product_num equal to the length of the
\* list, within 0 and MAX_PRODUCT, for any number of them.
THEOREM PoolBounded == TestSpec => []PoolWithinBounds
<1>1. TestInv => PoolWithinBounds
  BY Zenon DEF TestInv
<1> QED BY <1>1, TestInvariant, PTL

=============================================================================
