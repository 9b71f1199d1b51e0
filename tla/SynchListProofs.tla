---------------------------- MODULE SynchListProofs ----------------------------
(***************************************************************************)
(* Proofs about synchronized lists, as the post office and other clients   *)
(* use them: every step in a call keeps ListInv, which says where threads  *)
(* are, whom the locks and queues hold, and what the lists contain.  Then  *)
(* what ForBox selects.                                                    *)
(***************************************************************************)
EXTENDS PostOffice, SequenceTheorems, FiniteSetTheorems, WellFoundedInduction, TLAPS

ListPlaces == {"Append", "append", "Remove", "test", "asleep", "woken", "release", "mapcar"}
MailLabels == ListPlaces \cup {"idle", "receive", "transmit", "sent", "unlock"}

ListTypeOK ==
  /\ pc \in [Thread -> MailLabels]
  /\ holder \in [Lock -> Thread \cup {None}]
  /\ waitingQueue \in [List -> Seq(Thread)]
  /\ list \in [List -> Seq(Item)] /\ removed \in [List -> Seq(Item)] /\ appended \in [List -> Seq(Item)]
  /\ target \in [Thread -> List \cup {None}] /\ argument \in [Thread -> Item \cup {None}]

\* A thread has a target while it is in a call, an argument until it has
\* appended it, and the lock of the list from its Acquire to its Release.
InCall ==
  \A t \in Thread :
    /\ target[t] # None <=> pc[t] \in ListPlaces
    /\ argument[t] # None <=> pc[t] \in {"Append", "append"}
    /\ pc[t] \in {"append", "test", "release", "mapcar"} => holder[target[t]] = t

\* The threads in the queue of a list sleep in its Remove, and are there once.
SleepersQueued ==
  \A l \in List :
    /\ \A i \in 1 .. Len(waitingQueue[l]) :
         pc[waitingQueue[l][i]] = "asleep" /\ target[waitingQueue[l][i]] = l
    /\ \A i, j \in 1 .. Len(waitingQueue[l]) : waitingQueue[l][i] = waitingQueue[l][j] => i = j

Takers(l) == {t \in Thread : target[t] = l /\ pc[t] \in {"Remove", "test", "woken"}}

ListInv == ListTypeOK /\ InCall /\ SleepersQueued /\ FirstInFirstOut /\ EveryItemHasTaker

\* The part of PostAssumption that is not about calls.
LEMMA NamesOK ==
  /\ IsFiniteSet(Thread) /\ MaxItems \in Nat
  /\ Condition = List /\ Machine \X Box \subseteq List
  /\ List \cup Machine \subseteq Lock /\ List \cap Machine = {}
  /\ None \notin List \cup Machine \cup Item
BY PostAssumption, Zenon

LEMMA TakersFinite ==
  ASSUME NEW S \in SUBSET Thread
  PROVE  IsFiniteSet(S) /\ Cardinality(S) \in Nat
BY NamesOK, FS_Subset, FS_CardinalityType, Zenon

\* A step of t that leaves the lists and the queues alone, and after which t
\* still looks for an item if it did before.
LEMMA ListQuiet ==
  ASSUME ListInv, NEW t \in Thread, pc[t] # "asleep",
         UNCHANGED <<waitingQueue, list, removed, appended>>,
         \A u \in Thread \ {t} : pc'[u] = pc[u] /\ target'[u] = target[u],
         pc[t] \in {"Remove", "test", "woken"} => pc'[t] \in {"Remove", "test", "woken"} /\ target'[t] = target[t]
  PROVE  SleepersQueued' /\ FirstInFirstOut' /\ EveryItemHasTaker'
<1>0. ListTypeOK /\ SleepersQueued /\ FirstInFirstOut /\ EveryItemHasTaker
  BY Zenon DEF ListInv
<1>1. SleepersQueued'
  <2>1. ASSUME NEW l \in List, NEW i \in 1 .. Len(waitingQueue[l])
        PROVE  waitingQueue[l][i] \in Thread \ {t}
    BY <1>0, <2>1, ElementOfSeq DEF ListTypeOK, SleepersQueued
  <2> QED BY <1>0, <2>1 DEF SleepersQueued
<1>2. FirstInFirstOut'
  BY <1>0, Zenon DEF FirstInFirstOut
<1>3. EveryItemHasTaker'
  <2>1. ASSUME NEW l \in List, waitingQueue'[l] # << >> PROVE Len(list'[l]) <= Cardinality(Takers(l)')
    <3>1. Takers(l) \in SUBSET Takers(l)'
      BY Zenon DEF Takers
    <3>2. /\ Takers(l) \in SUBSET Thread /\ IsFiniteSet(Takers(l)) /\ Cardinality(Takers(l)) \in Nat
          /\ Takers(l)' \in SUBSET Thread /\ IsFiniteSet(Takers(l)') /\ Cardinality(Takers(l)') \in Nat
      <4>1. Takers(l) \in SUBSET Thread /\ Takers(l)' \in SUBSET Thread
        BY Zenon DEF Takers
      <4> QED BY <4>1, TakersFinite, Zenon
    <3>3. Cardinality(Takers(l)) <= Cardinality(Takers(l)')
      BY <3>1, <3>2, FS_Subset, Zenon
    <3>4. Len(list[l]) <= Cardinality(Takers(l)) /\ Len(list[l]) \in Nat
      BY <1>0, <2>1, LenProperties, Zenon DEF EveryItemHasTaker, Takers, ListTypeOK
    <3> QED BY <3>2, <3>3, <3>4
  <2> QED BY <2>1, Zenon DEF EveryItemHasTaker, Takers
<1> QED BY <1>1, <1>2, <1>3, Zenon

\* The steps that are none of a list's.
LEMMA ListApart ==
  ASSUME ListInv, NEW t \in Thread, pc[t] \notin ListPlaces, NEW x \in MailLabels \ ListPlaces,
         pc' = [pc EXCEPT ![t] = x], UNCHANGED <<waitingQueue, listVars>>,
         holder' \in [Lock -> Thread \cup {None}], \A l \in List : holder'[l] = holder[l]
  PROVE  ListInv'
<1>0. ListTypeOK /\ InCall
  BY Zenon DEF ListInv
<1>1. /\ UNCHANGED <<list, target, argument, removed, appended>> /\ pc'[t] = x
      /\ \A u \in Thread \ {t} : pc'[u] = pc[u]
  BY <1>0, Zenon DEF listVars, ListTypeOK
<1>2. ListTypeOK'
  BY <1>0, <1>1, Zenon DEF ListTypeOK
<1>3. InCall'
  <2>1. \A u \in Thread : target[u] # None => target[u] \in List
    BY <1>0, Zenon DEF ListTypeOK
  <2> QED BY <1>0, <1>1, <2>1 DEF InCall, ListPlaces
<1>4. SleepersQueued' /\ FirstInFirstOut' /\ EveryItemHasTaker'
  BY <1>1, ListQuiet, Zenon DEF ListPlaces
<1> QED BY <1>2, <1>3, <1>4, Zenon DEF ListInv

LEMMA CallAppendStep ==
  ASSUME ListInv, NEW t \in Thread, pc[t] \notin ListPlaces, NEW l \in List, NEW item \in Item, CallAppend(t, l, item)
  PROVE  ListInv'
<1>0. ListTypeOK /\ InCall /\ None \notin List /\ None \notin Item
  BY NamesOK, Zenon DEF ListInv
<1>1. /\ target' = [target EXCEPT ![t] = l] /\ argument' = [argument EXCEPT ![t] = item]
      /\ pc' = [pc EXCEPT ![t] = "Append"] /\ UNCHANGED <<holder, waitingQueue, list, removed, appended>>
  BY Zenon DEF CallAppend, Goto
<1>2. /\ pc'[t] = "Append" /\ target'[t] = l /\ argument'[t] = item
      /\ \A u \in Thread \ {t} : pc'[u] = pc[u] /\ target'[u] = target[u] /\ argument'[u] = argument[u]
  BY <1>0, <1>1, Zenon DEF ListTypeOK
<1>3. ListTypeOK'
  BY <1>0, <1>1, Zenon DEF ListTypeOK, MailLabels, ListPlaces
<1>4. InCall'
  BY <1>0, <1>1, <1>2 DEF InCall, ListPlaces
<1>5. SleepersQueued' /\ FirstInFirstOut' /\ EveryItemHasTaker'
  BY <1>1, <1>2, ListQuiet, Zenon DEF ListPlaces
<1> QED BY <1>3, <1>4, <1>5, Zenon DEF ListInv

LEMMA CallRemoveStep ==
  ASSUME ListInv, NEW t \in Thread, pc[t] \notin ListPlaces, NEW l \in List, CallRemove(t, l)
  PROVE  ListInv'
<1>0. ListTypeOK /\ InCall /\ None \notin List
  BY NamesOK, Zenon DEF ListInv
<1>1. /\ target' = [target EXCEPT ![t] = l] /\ pc' = [pc EXCEPT ![t] = "Remove"]
      /\ UNCHANGED <<holder, waitingQueue, list, argument, removed, appended>>
  BY Zenon DEF CallRemove, Goto
<1>2. /\ pc'[t] = "Remove" /\ target'[t] = l
      /\ \A u \in Thread \ {t} : pc'[u] = pc[u] /\ target'[u] = target[u]
  BY <1>0, <1>1, Zenon DEF ListTypeOK
<1>3. ListTypeOK'
  BY <1>0, <1>1, Zenon DEF ListTypeOK, MailLabels, ListPlaces
<1>4. InCall'
  BY <1>0, <1>1, <1>2 DEF InCall, ListPlaces
<1>5. SleepersQueued' /\ FirstInFirstOut' /\ EveryItemHasTaker'
  BY <1>1, <1>2, ListQuiet, Zenon DEF ListPlaces
<1> QED BY <1>3, <1>4, <1>5, Zenon DEF ListInv

\* The steps that only take the lock of the thread's list.
LEMMA ListAcquireStep ==
  ASSUME ListInv, NEW t \in Thread, AppendLock(t) \/ RemoveLock(t) \/ RemoveWoken(t)
  PROVE  ListInv'
<1> DEFINE l == target[t]
           x == IF pc[t] = "Append" THEN "append" ELSE "test"
<1>0. ListTypeOK /\ InCall /\ None \notin Thread
  BY MonitorAssumption, Zenon DEF ListInv
<1>1. /\ pc[t] \in {"Append", "Remove", "woken"} /\ holder[l] = None
      /\ holder' = [holder EXCEPT ![l] = t] /\ pc' = [pc EXCEPT ![t] = x]
      /\ UNCHANGED <<waitingQueue, list, target, argument, removed, appended>>
  BY Zenon DEF AppendLock, RemoveLock, RemoveWoken, EndOfWait, Acquire, At, listVars
<1>2. l \in List /\ l \in Lock
  BY <1>0, <1>1, NamesOK DEF InCall, ListPlaces, ListTypeOK
<1>3. pc'[t] = x /\ holder'[l] = t /\ (\A u \in Thread \ {t} : pc'[u] = pc[u]) /\ \A k \in Lock \ {l} : holder'[k] = holder[k]
  BY <1>0, <1>1, <1>2, Zenon DEF ListTypeOK
<1>4. ListTypeOK'
  BY <1>0, <1>1, <1>2, Zenon DEF ListTypeOK, MailLabels, ListPlaces
<1>5. InCall'
  <2>1. ASSUME NEW u \in Thread \ {t}, pc'[u] \in {"append", "test", "release", "mapcar"}
        PROVE  holder'[target'[u]] = u
    <3>1. holder[target[u]] = u /\ target[u] \in List /\ target[u] \in Lock
      BY <1>0, <1>3, <2>1, NamesOK DEF InCall, ListPlaces, ListTypeOK
    <3> QED BY <1>0, <1>1, <1>3, <3>1, Zenon
  <2>2. \A u \in Thread \ {t} : /\ target'[u] # None <=> pc'[u] \in ListPlaces
                                /\ argument'[u] # None <=> pc'[u] \in {"Append", "append"}
    BY <1>0, <1>1, <1>3, Zenon DEF InCall
  <2>3. /\ target'[t] # None <=> pc'[t] \in ListPlaces
        /\ argument'[t] # None <=> pc'[t] \in {"Append", "append"}
        /\ holder'[target'[t]] = t
    BY <1>0, <1>1, <1>3 DEF InCall, ListPlaces
  <2> QED BY <2>1, <2>2, <2>3, Zenon DEF InCall
<1>6. SleepersQueued' /\ FirstInFirstOut' /\ EveryItemHasTaker'
  BY <1>1, <1>3, ListQuiet, Zenon
<1> QED BY <1>4, <1>5, <1>6, Zenon DEF ListInv

LEMMA MapcarStep ==
  ASSUME ListInv, NEW t \in Thread, pc[t] \notin ListPlaces, NEW l \in List, MapcarLock(t, l)
  PROVE  ListInv'
<1>0. ListTypeOK /\ InCall /\ None \notin Thread /\ l \in Lock /\ None \notin List
  BY MonitorAssumption, NamesOK, Zenon DEF ListInv
<1>1. /\ holder[l] = None /\ holder' = [holder EXCEPT ![l] = t] /\ pc' = [pc EXCEPT ![t] = "mapcar"]
      /\ target' = [target EXCEPT ![t] = l]
      /\ UNCHANGED <<waitingQueue, list, argument, removed, appended>>
  BY Zenon DEF MapcarLock, Acquire
<1>2. /\ pc'[t] = "mapcar" /\ target'[t] = l /\ holder'[l] = t /\ \A k \in Lock \ {l} : holder'[k] = holder[k]
      /\ \A u \in Thread \ {t} : pc'[u] = pc[u] /\ target'[u] = target[u]
  BY <1>0, <1>1, Zenon DEF ListTypeOK
<1>3. ListTypeOK'
  BY <1>0, <1>1, Zenon DEF ListTypeOK, MailLabels, ListPlaces
<1>4. InCall'
  <2>1. ASSUME NEW u \in Thread \ {t}, pc'[u] \in {"append", "test", "release", "mapcar"}
        PROVE  holder'[target'[u]] = u
    <3>1. holder[target[u]] = u /\ target[u] \in List /\ target[u] \in Lock
      BY <1>0, <1>2, <2>1, NamesOK DEF InCall, ListPlaces, ListTypeOK
    <3> QED BY <1>0, <1>1, <1>2, <3>1, Zenon
  <2>2. \A u \in Thread \ {t} : /\ target'[u] # None <=> pc'[u] \in ListPlaces
                                /\ argument'[u] # None <=> pc'[u] \in {"Append", "append"}
    BY <1>0, <1>1, <1>2, ZenonT(30) DEF InCall
  <2>3. /\ target'[t] # None <=> pc'[t] \in ListPlaces
        /\ argument'[t] # None <=> pc'[t] \in {"Append", "append"}
        /\ holder'[target'[t]] = t
    BY <1>0, <1>1, <1>2, ZenonT(30) DEF InCall, ListPlaces
  <2> QED BY <2>1, <2>2, <2>3, Zenon DEF InCall
<1>5. SleepersQueued' /\ FirstInFirstOut' /\ EveryItemHasTaker'
  BY <1>1, <1>2, ListQuiet, Zenon DEF ListPlaces
<1> QED BY <1>3, <1>4, <1>5, Zenon DEF ListInv

LEMMA ListReleaseStep ==
  ASSUME ListInv, NEW t \in Thread, ListRelease(t)
  PROVE  ListInv'
<1> DEFINE l == target[t]
<1>0. ListTypeOK /\ InCall /\ None \notin Thread
  BY MonitorAssumption, Zenon DEF ListInv
<1>1. /\ pc[t] \in {"release", "mapcar"}
      /\ holder' = [holder EXCEPT ![l] = None] /\ pc' = [pc EXCEPT ![t] = "idle"]
      /\ target' = [target EXCEPT ![t] = None]
      /\ UNCHANGED <<waitingQueue, list, argument, removed, appended>>
  BY Zenon DEF ListRelease, Release, At
<1>2. l \in List /\ l \in Lock /\ holder[l] = t
  BY <1>0, <1>1, NamesOK DEF InCall, ListPlaces, ListTypeOK
<1>3. /\ pc'[t] = "idle" /\ target'[t] = None /\ \A k \in Lock \ {l} : holder'[k] = holder[k]
      /\ \A u \in Thread \ {t} : pc'[u] = pc[u] /\ target'[u] = target[u]
  BY <1>0, <1>1, <1>2, Zenon DEF ListTypeOK
<1>4. ListTypeOK'
  BY <1>0, <1>1, <1>2, Zenon DEF ListTypeOK, MailLabels, ListPlaces
<1>5. InCall'
  <2>1. ASSUME NEW u \in Thread \ {t}, pc'[u] \in {"append", "test", "release", "mapcar"}
        PROVE  holder'[target'[u]] = u
    <3>1. holder[target[u]] = u /\ target[u] \in List /\ target[u] \in Lock
      BY <1>0, <1>3, <2>1, NamesOK DEF InCall, ListPlaces, ListTypeOK
    <3> QED BY <1>2, <1>3, <3>1, Zenon
  <2>2. \A u \in Thread \ {t} : /\ target'[u] # None <=> pc'[u] \in ListPlaces
                                /\ argument'[u] # None <=> pc'[u] \in {"Append", "append"}
    BY <1>0, <1>1, <1>3, Zenon DEF InCall
  <2>3. target'[t] = None /\ argument'[t] = None
    BY <1>0, <1>1, <1>3, Zenon DEF InCall
  <2> QED BY <1>3, <2>1, <2>2, <2>3, Zenon DEF InCall, ListPlaces
<1>6. SleepersQueued' /\ FirstInFirstOut' /\ EveryItemHasTaker'
  BY <1>1, <1>3, ListQuiet, Zenon
<1> QED BY <1>4, <1>5, <1>6, Zenon DEF ListInv

\* An item that is appended to the second of two sequences, and one that goes
\* from the second to the first.
LEMMA AppendToBoth ==
  ASSUME NEW S, NEW r \in Seq(S), NEW s \in Seq(S), NEW x \in S
  PROVE  r \o Append(s, x) = Append(r \o s, x)
<1>1. <<x>> \in Seq(S) /\ r \o s \in Seq(S)
  BY ConcatProperties
<1>2. (r \o s) \o <<x>> = r \o (s \o <<x>>)
  BY <1>1, ConcatAssociative
<1>3. Append(s, x) = s \o <<x>> /\ Append(r \o s, x) = (r \o s) \o <<x>>
  BY <1>1, AppendIsConcat, Zenon
<1> QED BY <1>2, <1>3, Zenon

LEMMA HeadGoesOver ==
  ASSUME NEW S, NEW r \in Seq(S), NEW s \in Seq(S), s # << >>
  PROVE  Append(r, Head(s)) \o Tail(s) = r \o s
<1>1. Head(s) \in S /\ Tail(s) \in Seq(S) /\ <<Head(s)>> \in Seq(S)
  BY HeadTailProperties
<1>2. <<Head(s)>> \o Tail(s) = s
  OBVIOUS
<1>3. (r \o <<Head(s)>>) \o Tail(s) = r \o (<<Head(s)>> \o Tail(s))
  BY <1>1, ConcatAssociative
<1>4. Append(r, Head(s)) = r \o <<Head(s)>>
  BY <1>1, AppendIsConcat, Zenon
<1> QED BY <1>2, <1>3, <1>4, Zenon

\* A Remove that finds the list empty: there is no item to look for.
LEMMA RemoveWaitStep ==
  ASSUME ListInv, NEW t \in Thread, RemoveWait(t)
  PROVE  ListInv'
<1> DEFINE l == target[t]
           q == waitingQueue[l]
<1>0. ListTypeOK /\ InCall /\ SleepersQueued /\ FirstInFirstOut /\ EveryItemHasTaker /\ None \notin Thread
  BY MonitorAssumption, Zenon DEF ListInv
<1>1. /\ pc[t] = "test" /\ list[l] = << >>
      /\ holder' = [holder EXCEPT ![l] = None] /\ pc' = [pc EXCEPT ![t] = "asleep"]
      /\ waitingQueue' = [waitingQueue EXCEPT ![l] = Append(q, t)]
      /\ UNCHANGED <<list, target, argument, removed, appended>>
  BY Zenon DEF RemoveWait, Wait, At, listVars
<1>2. l \in List /\ l \in Lock /\ holder[l] = t
  BY <1>0, <1>1, NamesOK DEF InCall, ListPlaces, ListTypeOK
<1>3. /\ pc'[t] = "asleep" /\ \A k \in Lock \ {l} : holder'[k] = holder[k]
      /\ \A u \in Thread \ {t} : pc'[u] = pc[u]
      /\ waitingQueue'[l] = Append(q, t) /\ \A k \in List \ {l} : waitingQueue'[k] = waitingQueue[k]
  BY <1>0, <1>1, <1>2, Zenon DEF ListTypeOK
<1>4. /\ q \in Seq(Thread) /\ Len(q) \in Nat /\ Append(q, t) \in Seq(Thread) /\ Len(Append(q, t)) = Len(q) + 1
      /\ \A i \in 1 .. Len(q) : Append(q, t)[i] = q[i]
      /\ Append(q, t)[Len(q) + 1] = t
  BY <1>0, <1>2, AppendProperties, LenProperties DEF ListTypeOK
<1>5. ListTypeOK'
  BY <1>0, <1>1, <1>2, <1>4, Zenon DEF ListTypeOK, MailLabels, ListPlaces
<1>6. InCall'
  <2>1. ASSUME NEW u \in Thread \ {t}, pc'[u] \in {"append", "test", "release", "mapcar"}
        PROVE  holder'[target'[u]] = u
    <3>1. holder[target[u]] = u /\ target[u] \in List /\ target[u] \in Lock
      BY <1>0, <1>3, <2>1, NamesOK DEF InCall, ListPlaces, ListTypeOK
    <3> QED BY <1>1, <1>2, <1>3, <3>1, Zenon
  <2>2. \A u \in Thread \ {t} : /\ target'[u] # None <=> pc'[u] \in ListPlaces
                                /\ argument'[u] # None <=> pc'[u] \in {"Append", "append"}
    BY <1>0, <1>1, <1>3, Zenon DEF InCall
  <2>3. target'[t] # None /\ argument'[t] = None
    BY <1>0, <1>1, Zenon DEF InCall, ListPlaces
  <2> QED BY <1>3, <2>1, <2>2, <2>3, Zenon DEF InCall, ListPlaces
<1>7. SleepersQueued'
  <2>1. ASSUME NEW k \in List, NEW i \in 1 .. Len(waitingQueue[k])
        PROVE  waitingQueue[k][i] \in Thread \ {t} /\ pc'[waitingQueue[k][i]] = "asleep" /\ target'[waitingQueue[k][i]] = k
    BY <1>0, <1>1, <1>3, <2>1, ElementOfSeq, ZenonT(30) DEF ListTypeOK, SleepersQueued
  <2>2. \A k \in List : \A i, j \in 1 .. Len(waitingQueue[k]) : waitingQueue[k][i] = waitingQueue[k][j] => i = j
    BY <1>0, Zenon DEF SleepersQueued
  <2>3. \A i \in 1 .. Len(Append(q, t)) : i \in 1 .. Len(q) \/ i = Len(q) + 1
    BY <1>4
  <2>4. \A i \in 1 .. Len(Append(q, t)) : pc'[Append(q, t)[i]] = "asleep" /\ target'[Append(q, t)[i]] = l
    BY <1>1, <1>2, <1>3, <1>4, <2>1, <2>3
  <2>5. \A i, j \in 1 .. Len(Append(q, t)) : Append(q, t)[i] = Append(q, t)[j] => i = j
    <3>1. \A i \in 1 .. Len(q) : q[i] # t
      BY <1>2, <2>1, Zenon
    <3>2. \A i, j \in 1 .. Len(q) : q[i] = q[j] => i = j
      BY <1>2, <2>2, Zenon
    <3> QED BY <1>4, <2>3, <3>1, <3>2, Zenon
  <2>6. ASSUME NEW k \in List
        PROVE  /\ \A i \in 1 .. Len(waitingQueue'[k]) :
                    pc'[waitingQueue'[k][i]] = "asleep" /\ target'[waitingQueue'[k][i]] = k
               /\ \A i, j \in 1 .. Len(waitingQueue'[k]) : waitingQueue'[k][i] = waitingQueue'[k][j] => i = j
    <3>1. CASE k = l
      BY <1>3, <2>4, <2>5, <3>1, ZenonT(30)
    <3>2. CASE k # l
      BY <1>3, <2>1, <2>2, <3>2
    <3> QED BY <3>1, <3>2, Zenon
  <2> QED BY <2>6, Zenon DEF SleepersQueued
<1>8. FirstInFirstOut'
  BY <1>0, <1>1, Zenon DEF FirstInFirstOut
<1>9. EveryItemHasTaker'
  <2>1. ASSUME NEW k \in List, waitingQueue'[k] # << >> PROVE Len(list'[k]) <= Cardinality(Takers(k)')
    <3>1. CASE k = l
      <4>1. Takers(k)' \in SUBSET Thread
        BY Zenon DEF Takers
      <4>2. Len(list'[k]) = 0
        BY <1>1, <3>1, Zenon
      <4> QED BY <4>1, <4>2, TakersFinite
    <3>2. CASE k # l
      <4>1. Takers(k)' = Takers(k)
        BY <1>1, <1>3, <3>2, Zenon DEF Takers
      <4> QED BY <1>0, <1>1, <1>3, <2>1, <3>2, <4>1, Zenon DEF EveryItemHasTaker, Takers
    <3> QED BY <3>1, <3>2, Zenon
  <2> QED BY <2>1, Zenon DEF EveryItemHasTaker, Takers
<1> QED BY <1>5, <1>6, <1>7, <1>8, <1>9, Zenon DEF ListInv

\* The item enters the list, and the first thread that sleeps is woken for it.
LEMMA AppendItemStep ==
  ASSUME ListInv, NEW t \in Thread, AppendItem(t)
  PROVE  /\ ListInv' /\ pc'[t] = "release"
         /\ \A u \in Thread \ {t} :
              pc'[u] = pc[u] \/ (pc[u] = "asleep" /\ pc'[u] = "woken" /\ target[u] = target[t])
<1> DEFINE l == target[t]
           q == waitingQueue[l]
           w == Head(q)
           a == argument[t]
<1>0. ListTypeOK /\ InCall /\ SleepersQueued /\ FirstInFirstOut /\ EveryItemHasTaker /\ None \notin Thread
  BY MonitorAssumption, Zenon DEF ListInv
<1>1. /\ pc[t] = "append" /\ list' = [list EXCEPT ![l] = Append(@, a)]
      /\ appended' = [appended EXCEPT ![l] = Append(@, a)] /\ argument' = [argument EXCEPT ![t] = None]
      /\ UNCHANGED <<target, removed>> /\ Signal(t, l, l, "release")
  BY Zenon DEF AppendItem, Signalled, At
<1>2. l \in List /\ l \in Lock /\ holder[l] = t /\ a \in Item
  BY <1>0, <1>1, NamesOK DEF InCall, ListPlaces, ListTypeOK
<1>3. q \in Seq(Thread) /\ Len(q) \in Nat
  BY <1>0, <1>2, LenProperties, Zenon DEF ListTypeOK
<1>4. /\ list'[l] = Append(list[l], a) /\ appended'[l] = Append(appended[l], a) /\ argument'[t] = None
      /\ \A k \in List \ {l} : list'[k] = list[k] /\ appended'[k] = appended[k]
      /\ \A u \in Thread \ {t} : argument'[u] = argument[u]
  BY <1>0, <1>1, <1>2, Zenon DEF ListTypeOK
<1>5. list'[l] \in Seq(Item) /\ appended'[l] \in Seq(Item) /\ Len(list'[l]) = Len(list[l]) + 1 /\ Len(list[l]) \in Nat
  BY <1>0, <1>2, <1>4, AppendProperties, LenProperties DEF ListTypeOK
<1>6. FirstInFirstOut'
  <2>1. \A k \in List : removed[k] \o list[k] = appended[k]
    BY <1>0, Zenon DEF FirstInFirstOut
  <2>2. removed[l] \in Seq(Item) /\ list[l] \in Seq(Item) /\ appended[l] \in Seq(Item)
    BY <1>0, <1>2, Zenon DEF ListTypeOK
  <2>3. removed[l] \o Append(list[l], a) = Append(removed[l] \o list[l], a)
    <3>1. a \in Item
      BY <1>2, Zenon
    <3>2. \A r, s \in Seq(Item), x \in Item : r \o Append(s, x) = Append(r \o s, x)
      BY AppendToBoth
    <3> HIDE DEF a, l
    <3> QED BY <2>2, <3>1, <3>2, Zenon
  <2>4. removed[l] \o list'[l] = appended'[l]
    BY <1>2, <1>4, <2>1, <2>3, Zenon
  <2> QED BY <1>1, <1>4, <2>1, <2>4, Zenon DEF FirstInFirstOut
<1>7. CASE q = << >>
  <2>1. pc' = [pc EXCEPT ![t] = "release"] /\ UNCHANGED <<holder, waitingQueue>>
    BY <1>1, <1>7, Zenon DEF Signal, Goto
  <2>2. pc'[t] = "release" /\ \A u \in Thread \ {t} : pc'[u] = pc[u]
    BY <1>0, <2>1, Zenon DEF ListTypeOK
  <2>3. ListTypeOK'
    BY <1>0, <1>1, <1>2, <1>4, <1>5, <2>1, Zenon DEF ListTypeOK, MailLabels, ListPlaces
  <2>4. InCall'
    <3>1. \A u \in Thread \ {t} : /\ target'[u] # None <=> pc'[u] \in ListPlaces
                                  /\ argument'[u] # None <=> pc'[u] \in {"Append", "append"}
                                  /\ pc'[u] \in {"append", "test", "release", "mapcar"} => holder'[target'[u]] = u
      BY <1>0, <1>1, <1>4, <2>1, <2>2, ZenonT(30) DEF InCall
    <3>2. target'[t] # None /\ argument'[t] = None /\ holder'[target'[t]] = t
      BY <1>0, <1>1, <1>2, <1>4, <2>1, Zenon DEF InCall, ListPlaces
    <3> QED BY <2>2, <3>1, <3>2, Zenon DEF InCall, ListPlaces
  <2>5. SleepersQueued'
    <3>1. ASSUME NEW k \in List, NEW i \in 1 .. Len(waitingQueue[k])
          PROVE  waitingQueue[k][i] \in Thread \ {t}
      BY <1>0, <1>1, <3>1, ElementOfSeq, Zenon DEF ListTypeOK, SleepersQueued
    <3> QED BY <1>0, <1>1, <2>1, <2>2, <3>1 DEF SleepersQueued
  <2>6. EveryItemHasTaker'
    <3>1. ASSUME NEW k \in List, waitingQueue'[k] # << >> PROVE Len(list'[k]) <= Cardinality(Takers(k)')
      <4>1. k # l /\ list'[k] = list[k]
        BY <1>4, <1>7, <2>1, <3>1, Zenon
      <4>2. Takers(k)' = Takers(k)
        BY <1>1, <2>2, <4>1, Zenon DEF Takers
      <4> QED BY <1>0, <2>1, <3>1, <4>1, <4>2, Zenon DEF EveryItemHasTaker, Takers
    <3> QED BY <3>1, Zenon DEF EveryItemHasTaker, Takers
  <2> QED BY <1>6, <2>2, <2>3, <2>4, <2>5, <2>6, Zenon DEF ListInv
<1>8. CASE q # << >>
  <2>1. /\ waitingQueue' = [waitingQueue EXCEPT ![l] = Tail(q)]
        /\ pc' = [pc EXCEPT ![w] = "woken", ![t] = "release"] /\ UNCHANGED holder
    BY <1>1, <1>2, <1>8, Zenon DEF Signal
  <2>2. /\ Tail(q) \in Seq(Thread) /\ Len(Tail(q)) = Len(q) - 1 /\ w = q[1] /\ Len(q) # 0
        /\ \A i \in 1 .. Len(Tail(q)) : Tail(q)[i] = q[i + 1]
    BY <1>3, <1>8, HeadTailProperties, EmptySeq
  <2>3. w \in Thread /\ pc[w] = "asleep" /\ target[w] = l /\ w # t
    <3>1. 1 \in 1 .. Len(q)
      BY <1>3, <2>2
    <3> QED BY <1>0, <1>1, <1>2, <1>3, <2>2, <3>1, ElementOfSeq DEF SleepersQueued
  <2>4. /\ pc'[w] = "woken" /\ pc'[t] = "release" /\ \A u \in Thread \ {t, w} : pc'[u] = pc[u]
        /\ waitingQueue'[l] = Tail(q) /\ \A k \in List \ {l} : waitingQueue'[k] = waitingQueue[k]
    BY <1>0, <1>2, <2>1, <2>3, Zenon DEF ListTypeOK
  <2>5. ListTypeOK'
    <3>1. pc' \in [Thread -> MailLabels]
      BY <1>0, <2>1, Zenon DEF ListTypeOK, MailLabels, ListPlaces
    <3> QED BY <1>0, <1>1, <1>2, <1>4, <1>5, <2>1, <2>2, <3>1, Zenon DEF ListTypeOK
  <2>6. InCall'
    <3>1. \A u \in Thread \ {t, w} : /\ target'[u] # None <=> pc'[u] \in ListPlaces
                                     /\ argument'[u] # None <=> pc'[u] \in {"Append", "append"}
                                     /\ pc'[u] \in {"append", "test", "release", "mapcar"} => holder'[target'[u]] = u
      BY <1>0, <1>1, <1>4, <2>1, <2>4, ZenonT(30) DEF InCall
    <3>2. target'[t] # None /\ argument'[t] = None /\ holder'[target'[t]] = t
      BY <1>0, <1>1, <1>2, <1>4, <2>1, Zenon DEF InCall, ListPlaces
    <3>3. target'[w] # None /\ argument'[w] = None
      BY <1>0, <1>1, <1>4, <2>3, Zenon DEF InCall, ListPlaces
    <3> QED BY <2>3, <2>4, <3>1, <3>2, <3>3, Zenon DEF InCall, ListPlaces
  <2>7. SleepersQueued'
    <3>1. ASSUME NEW k \in List, NEW i \in 1 .. Len(waitingQueue[k])
          PROVE  waitingQueue[k][i] \in Thread \ {t} /\ pc[waitingQueue[k][i]] = "asleep" /\ target[waitingQueue[k][i]] = k
      BY <1>0, <1>1, <3>1, ElementOfSeq, Zenon DEF ListTypeOK, SleepersQueued
    <3>2. \A k \in List : \A i, j \in 1 .. Len(waitingQueue[k]) : waitingQueue[k][i] = waitingQueue[k][j] => i = j
      BY <1>0, Zenon DEF SleepersQueued
    <3>3. ASSUME NEW k \in List \ {l}, NEW i \in 1 .. Len(waitingQueue[k])
          PROVE  pc'[waitingQueue[k][i]] = "asleep"
      BY <2>3, <2>4, <3>1, <3>3
    <3>4. \A i \in 1 .. Len(Tail(q)) : i + 1 \in 1 .. Len(q) /\ i + 1 # 1
      BY <1>3, <2>2
    <3>5. 1 \in 1 .. Len(q)
      BY <1>3, <2>2
    <3>6. \A i \in 1 .. Len(Tail(q)) : Tail(q)[i] # w /\ Tail(q)[i] = q[i + 1]
      BY <1>2, <2>2, <3>2, <3>4, <3>5, Zenon
    <3>7. \A i \in 1 .. Len(Tail(q)) : pc'[Tail(q)[i]] = "asleep" /\ target[Tail(q)[i]] = l
      BY <1>2, <2>4, <3>1, <3>4, <3>6
    <3>8. \A i, j \in 1 .. Len(Tail(q)) : Tail(q)[i] = Tail(q)[j] => i = j
      <4>1. SUFFICES ASSUME NEW i \in 1 .. Len(Tail(q)), NEW j \in 1 .. Len(Tail(q)), Tail(q)[i] = Tail(q)[j]
                     PROVE  i = j
        OBVIOUS
      <4>2. i + 1 = j + 1
        BY <1>2, <3>2, <3>4, <3>6, <4>1, Zenon
      <4> QED BY <4>2
    <3>9. ASSUME NEW k \in List
          PROVE  /\ \A i \in 1 .. Len(waitingQueue'[k]) :
                      pc'[waitingQueue'[k][i]] = "asleep" /\ target'[waitingQueue'[k][i]] = k
                 /\ \A i, j \in 1 .. Len(waitingQueue'[k]) : waitingQueue'[k][i] = waitingQueue'[k][j] => i = j
      <4>1. CASE k = l
        <5>1. waitingQueue'[k] = Tail(q) /\ target' = target
          BY <1>1, <2>4, <4>1, Zenon
        <5> QED BY <3>7, <3>8, <4>1, <5>1, Zenon
      <4>2. CASE k # l
        BY <1>1, <2>4, <3>1, <3>2, <3>3, <4>2
      <4> QED BY <4>1, <4>2, Zenon
    <3> QED BY <3>9, Zenon DEF SleepersQueued
  <2>8. EveryItemHasTaker'
    <3>1. ASSUME NEW k \in List, waitingQueue'[k] # << >> PROVE Len(list'[k]) <= Cardinality(Takers(k)')
      <4>1. CASE k = l
        <5>1. w \notin Takers(k) /\ Takers(k)' = Takers(k) \cup {w}
          BY <1>1, <2>3, <2>4, <4>1, Zenon DEF Takers
        <5>2. Takers(k) \in SUBSET Thread
          BY Zenon DEF Takers
        <5>3. Cardinality(Takers(k)') = Cardinality(Takers(k)) + 1 /\ Cardinality(Takers(k)) \in Nat
          BY <5>1, <5>2, TakersFinite, FS_AddElement, Zenon
        <5>4. Len(list[k]) <= Cardinality(Takers(k))
          BY <1>0, <1>2, <1>8, <4>1, Zenon DEF EveryItemHasTaker, Takers
        <5> QED BY <1>5, <4>1, <5>3, <5>4
      <4>2. CASE k # l
        <5>1. Takers(k)' = Takers(k)
          BY <1>1, <2>3, <2>4, <4>2, Zenon DEF Takers
        <5> QED BY <1>0, <1>4, <2>4, <3>1, <4>2, <5>1, ZenonT(30) DEF EveryItemHasTaker, Takers
      <4> QED BY <4>1, <4>2, Zenon
    <3> QED BY <3>1, Zenon DEF EveryItemHasTaker, Takers
  <2> QED BY <1>6, <2>3, <2>4, <2>5, <2>6, <2>7, <2>8, Zenon DEF ListInv
<1> QED BY <1>7, <1>8, Zenon

\* A thread takes the first item, and one thread fewer looks for one.
LEMMA RemoveItemStep ==
  ASSUME ListInv, NEW t \in Thread, RemoveItem(t)
  PROVE  ListInv'
<1> DEFINE l == target[t]
           h == Head(list[l])
<1>0. ListTypeOK /\ InCall /\ SleepersQueued /\ FirstInFirstOut /\ EveryItemHasTaker /\ None \notin Item
  BY NamesOK, Zenon DEF ListInv
<1>1. pc[t] = "test" /\ list[l] # << >> /\ TakeFirst(t) /\ pc' = [pc EXCEPT ![t] = "release"]
      /\ UNCHANGED <<holder, waitingQueue>>
  BY Zenon DEF RemoveItem, Goto, At
<1>2. l \in List
  BY <1>0, <1>1 DEF InCall, ListPlaces, ListTypeOK
<1>3. list[l] \in Seq(Item) /\ h \in Item /\ Tail(list[l]) \in Seq(Item) /\ Len(Tail(list[l])) = Len(list[l]) - 1
      /\ Len(list[l]) \in Nat /\ removed[l] \in Seq(Item)
  <2>1. list[l] \in Seq(Item) /\ removed[l] \in Seq(Item)
    BY <1>0, <1>2, Zenon DEF ListTypeOK
  <2>2. h \in Item /\ Tail(list[l]) \in Seq(Item) /\ Len(Tail(list[l])) = Len(list[l]) - 1 /\ Len(list[l]) \in Nat
    BY <1>1, <2>1, HeadTailProperties, LenProperties, Zenon
  <2> QED BY <2>1, <2>2, Zenon
<1>4. removed' = [removed EXCEPT ![l] = Append(@, h)] /\ list' = [list EXCEPT ![l] = Tail(@)]
      /\ UNCHANGED <<target, argument, appended>>
  BY <1>0, <1>1, <1>3, Zenon DEF TakeFirst
<1>5. /\ list'[l] = Tail(list[l]) /\ removed'[l] = Append(removed[l], h) /\ pc'[t] = "release"
      /\ \A k \in List \ {l} : list'[k] = list[k] /\ removed'[k] = removed[k]
      /\ \A u \in Thread \ {t} : pc'[u] = pc[u]
  BY <1>0, <1>1, <1>2, <1>4, Zenon DEF ListTypeOK
<1>6. ListTypeOK'
  <2>1. Append(removed[l], h) \in Seq(Item)
    BY <1>3, AppendProperties, Zenon
  <2> QED BY <1>0, <1>1, <1>2, <1>3, <1>4, <2>1, Zenon DEF ListTypeOK, MailLabels, ListPlaces
<1>7. InCall'
  <2>1. holder[l] = t
    BY <1>0, <1>1, Zenon DEF InCall
  <2> QED BY <1>0, <1>1, <1>4, <1>5, <2>1, Zenon DEF InCall, ListPlaces
<1>8. SleepersQueued'
  <2>1. ASSUME NEW k \in List, NEW i \in 1 .. Len(waitingQueue[k])
        PROVE  waitingQueue[k][i] \in Thread \ {t}
    BY <1>0, <1>1, <2>1, ElementOfSeq, Zenon DEF ListTypeOK, SleepersQueued
  <2> QED BY <1>0, <1>1, <1>4, <1>5, <2>1 DEF SleepersQueued
<1>9. FirstInFirstOut'
  <2>1. \A k \in List : removed[k] \o list[k] = appended[k]
    BY <1>0, Zenon DEF FirstInFirstOut
  <2>2. Append(removed[l], h) \o Tail(list[l]) = removed[l] \o list[l]
    BY <1>1, <1>3, HeadGoesOver, Zenon
  <2>3. removed'[l] \o list'[l] = appended[l]
    BY <1>2, <1>5, <2>1, <2>2, Zenon
  <2> QED BY <1>4, <1>5, <2>1, <2>3, Zenon DEF FirstInFirstOut
<1>10. EveryItemHasTaker'
  <2>1. ASSUME NEW k \in List, waitingQueue'[k] # << >> PROVE Len(list'[k]) <= Cardinality(Takers(k)')
    <3>1. CASE k = l
      <4>1. t \in Takers(k) /\ Takers(k)' = Takers(k) \ {t}
        BY <1>1, <1>4, <1>5, <3>1, Zenon DEF Takers
      <4>2. Takers(k) \in SUBSET Thread
        BY Zenon DEF Takers
      <4>3. Cardinality(Takers(k)') = Cardinality(Takers(k)) - 1 /\ Cardinality(Takers(k)) \in Nat
        BY <4>1, <4>2, TakersFinite, FS_RemoveElement, Zenon
      <4>4. Len(list[k]) <= Cardinality(Takers(k))
        BY <1>0, <1>1, <1>2, <2>1, <3>1, Zenon DEF EveryItemHasTaker, Takers
      <4>5. Len(list'[k]) = Len(list[k]) - 1 /\ Len(list[k]) \in Nat
        BY <1>3, <1>5, <3>1, Zenon
      <4> QED BY <4>3, <4>4, <4>5
    <3>2. CASE k # l
      <4>1. Takers(k)' = Takers(k)
        BY <1>4, <1>5, <3>2, Zenon DEF Takers
      <4> QED BY <1>0, <1>1, <1>5, <2>1, <3>2, <4>1, Zenon DEF EveryItemHasTaker, Takers
    <3> QED BY <3>1, <3>2, Zenon
  <2> QED BY <2>1, Zenon DEF EveryItemHasTaker, Takers
<1> QED BY <1>6, <1>7, <1>8, <1>9, <1>10, Zenon DEF ListInv

-----------------------------------------------------------------------------
(* ForBox                                                                  *)

LEMMA LeastNat ==
  ASSUME NEW S \in SUBSET Nat, S # {}
  PROVE  \E x \in S : \A y \in S : x <= y
<1>1. PICK x \in S : \A y \in S : <<y, x>> \notin OpToRel(<, Nat)
  BY WFMin, NatLessThanWellFounded, Zenon
<1>2. ASSUME NEW y \in S PROVE x <= y
  <2>1. SUFFICES ASSUME y < x PROVE FALSE
    OBVIOUS
  <2>2. <<y, x>> \in Nat \X Nat /\ <<y, x>>[1] < <<y, x>>[2]
    BY <2>1, Zenon
  <2>3. <<y, x>> \in OpToRel(<, Nat)
    BY <2>2, Zenon DEF OpToRel
  <2> QED BY <1>1, <2>3, Zenon
<1> QED BY <1>2, Zenon

\* The packets kept so far, and one more if it is for box b.
Keep(kept, p, b) == IF p.box = b THEN Append(kept, p) ELSE kept

LEMMA KeepType ==
  ASSUME NEW kept \in Seq(Packet), NEW p \in Packet, NEW b
  PROVE  Keep(kept, p, b) \in Seq(Packet)
BY AppendProperties, Zenon DEF Keep

\* f[i] is what is kept of the first i packets, for i up to n.
Keeps(f, n, s, b) == f[0] = << >> /\ \A i \in 1 .. n : f[i] = Keep(f[i - 1], s[i], b)

\* The recursion has one solution.
LEMMA KeepUnique ==
  ASSUME NEW n \in Nat, NEW b, NEW r, NEW s, NEW f, NEW g,
         Keeps(f, n, r, b), Keeps(g, n, s, b), \A i \in 1 .. n : r[i] = s[i]
  PROVE  \A i \in 0 .. n : f[i] = g[i]
<1> DEFINE Bad == {i \in Nat : i <= n /\ f[i] # g[i]}
<1>1. SUFFICES ASSUME Bad # {} PROVE FALSE
  OBVIOUS
<1>2. PICK k \in Bad : \A j \in Bad : k <= j
  BY <1>1, LeastNat, Zenon
<1>3. k \in 1 .. n
  BY <1>2 DEF Keeps
<1>4. k - 1 \in Nat /\ k - 1 <= n /\ k - 1 \notin Bad
  BY <1>2, <1>3
<1>5. f[k - 1] = g[k - 1]
  BY <1>4, Zenon
<1> QED BY <1>2, <1>3, <1>5, Zenon DEF Keeps

\* The recursion has a solution for the first n packets.
LEMMA KeepExists ==
  ASSUME NEW s \in Seq(Packet), NEW b
  PROVE  \E g \in [0 .. Len(s) -> Seq(Packet)] :
           g[0] = << >> /\ \A i \in 1 .. Len(s) : g[i] = Keep(g[i - 1], s[i], b)
<1> DEFINE Part(n) == \E g \in [0 .. n -> Seq(Packet)] :
                         g[0] = << >> /\ \A i \in 1 .. n : g[i] = Keep(g[i - 1], s[i], b)
           Bad == {n \in Nat : n <= Len(s) /\ ~Part(n)}
<1>0. Len(s) \in Nat
  BY LenProperties, Zenon
<1> SUFFICES Part(Len(s))
  OBVIOUS
<1> HIDE DEF Part
<1>1. SUFFICES ASSUME Bad # {} PROVE FALSE
  BY <1>0
<1>2. PICK n \in Bad : \A j \in Bad : n <= j
  BY <1>1, LeastNat, Zenon
<1>3. n \in Nat /\ n <= Len(s) /\ ~Part(n)
  BY <1>2, Zenon
<1>4. CASE n = 0
  <2> DEFINE g == [i \in 0 .. 0 |-> << >>]
  <2>1. g \in [0 .. 0 -> Seq(Packet)] /\ g[0] = << >> /\ \A i \in 1 .. 0 : g[i] = Keep(g[i - 1], s[i], b)
    <3>1. << >> \in Seq(Packet)
      OBVIOUS
    <3> QED BY <3>1
  <2>2. Part(0)
    <3> HIDE DEF g
    <3> QED BY <2>1, Zenon DEF Part
  <2> QED BY <1>3, <1>4, <2>2, Zenon
<1>5. CASE n # 0
  <2>1. n - 1 \in Nat /\ n - 1 <= Len(s) /\ n \in 1 .. Len(s)
    BY <1>0, <1>3, <1>5
  <2>2. Part(n - 1)
    <3>1. n - 1 \notin Bad
      BY <1>2, <1>3, <2>1
    <3> QED BY <2>1, <3>1, Zenon
  <2>3. PICK h \in [0 .. n - 1 -> Seq(Packet)] :
          h[0] = << >> /\ \A i \in 1 .. n - 1 : h[i] = Keep(h[i - 1], s[i], b)
    BY <2>2, Zenon DEF Part
  <2> DEFINE g == [i \in 0 .. n |-> IF i = n THEN Keep(h[n - 1], s[n], b) ELSE h[i]]
  <2>4. h[n - 1] \in Seq(Packet) /\ s[n] \in Packet
    BY <2>1, <2>3, ElementOfSeq
  <2>5. Keep(h[n - 1], s[n], b) \in Seq(Packet)
    BY <2>4, KeepType, Zenon
  <2>6. ASSUME NEW i \in 0 .. n, i # n PROVE i \in 0 .. n - 1
    BY <1>3, <2>6
  <2>7. g \in [0 .. n -> Seq(Packet)]
    BY <2>3, <2>5, <2>6, Zenon
  <2>8. g[0] = << >>
    BY <1>3, <1>5, <2>3
  <2>9. ASSUME NEW i \in 1 .. n PROVE g[i] = Keep(g[i - 1], s[i], b)
    <3>1. i - 1 \in 0 .. n /\ i - 1 # n /\ i \in 0 .. n
      BY <1>3, <2>9
    <3>2. g[i - 1] = h[i - 1]
      BY <3>1, Zenon
    <3>3. CASE i = n
      BY <3>1, <3>2, <3>3, Zenon
    <3>4. CASE i # n
      <4>1. i \in 1 .. n - 1
        BY <1>3, <2>9, <3>4
      <4> QED BY <2>3, <3>1, <3>2, <3>4, <4>1, Zenon
    <3> QED BY <3>3, <3>4, Zenon
  <2>10. Part(n)
    <3> HIDE DEF g
    <3> QED BY <2>7, <2>8, <2>9, Zenon DEF Part
  <2> QED BY <1>3, <2>10, Zenon
<1> QED BY <1>4, <1>5, Zenon

\* ForBox computes it.
LEMMA ForBoxKeeps ==
  ASSUME NEW s \in Seq(Packet), NEW b
  PROVE  \E g \in [0 .. Len(s) -> Seq(Packet)] :
           /\ g[0] = << >> /\ \A i \in 1 .. Len(s) : g[i] = Keep(g[i - 1], s[i], b)
           /\ ForBox(s, b) = g[Len(s)]
<1> DEFINE Solves(g) == g = [n \in 0 .. Len(s) |->
                               IF n = 0 THEN << >>
                               ELSE IF s[n].box = b THEN Append(g[n - 1], s[n]) ELSE g[n - 1]]
<1>0. Len(s) \in Nat
  BY LenProperties, Zenon
<1>1. PICK g \in [0 .. Len(s) -> Seq(Packet)] :
        g[0] = << >> /\ \A i \in 1 .. Len(s) : g[i] = Keep(g[i - 1], s[i], b)
  BY KeepExists, Zenon
<1>2. Solves(g)
  <2> DEFINE h == [n \in 0 .. Len(s) |-> IF n = 0 THEN << >>
                                         ELSE IF s[n].box = b THEN Append(g[n - 1], s[n]) ELSE g[n - 1]]
  <2>1. ASSUME NEW n \in 0 .. Len(s) PROVE g[n] = h[n]
    <3>1. CASE n = 0
      BY <1>1, <3>1, Zenon
    <3>2. CASE n # 0
      <4>1. n \in 1 .. Len(s)
        BY <1>0, <2>1, <3>2
      <4> QED BY <1>1, <3>2, <4>1, Zenon DEF Keep
    <3> QED BY <3>1, <3>2, Zenon
  <2>2. g = h
    BY <2>1, Zenon
  <2> QED BY <2>2, Zenon
<1>3. PICK f : Solves(f) /\ ForBox(s, b) = f[Len(s)]
  BY <1>2, Zenon DEF ForBox
<1>4. f[0] = << >> /\ \A i \in 1 .. Len(s) : f[i] = Keep(f[i - 1], s[i], b)
  <2>1. ASSUME NEW n \in 0 .. Len(s)
        PROVE  f[n] = IF n = 0 THEN << >> ELSE IF s[n].box = b THEN Append(f[n - 1], s[n]) ELSE f[n - 1]
    BY <1>3, Zenon
  <2>2. 0 \in 0 .. Len(s) /\ \A i \in 1 .. Len(s) : i \in 0 .. Len(s) /\ i # 0
    BY <1>0
  <2> QED BY <2>1, <2>2, Zenon DEF Keep
<1>5. \A i \in 0 .. Len(s) : f[i] = g[i]
  <2>1. Keeps(f, Len(s), s, b) /\ Keeps(g, Len(s), s, b)
    BY <1>1, <1>4, Zenon DEF Keeps
  <2> QED BY <1>0, <2>1, KeepUnique
<1>6. Len(s) \in 0 .. Len(s)
  BY <1>0
<1> QED BY <1>1, <1>3, <1>5, <1>6, Zenon

LEMMA ForBoxType ==
  ASSUME NEW s \in Seq(Packet), NEW b
  PROVE  ForBox(s, b) \in Seq(Packet)
<1>1. PICK g \in [0 .. Len(s) -> Seq(Packet)] : ForBox(s, b) = g[Len(s)]
  BY ForBoxKeeps, Zenon
<1>2. Len(s) \in 0 .. Len(s)
  BY LenProperties
<1> QED BY <1>1, <1>2, Zenon

LEMMA ForBoxEmpty ==
  ASSUME NEW b
  PROVE  ForBox(<< >>, b) = << >>
<1>1. << >> \in Seq(Packet) /\ Len(<< >>) = 0
  OBVIOUS
<1>2. PICK g \in [0 .. Len(<< >>) -> Seq(Packet)] : g[0] = << >> /\ ForBox(<< >>, b) = g[Len(<< >>)]
  BY <1>1, ForBoxKeeps, Zenon
<1> QED BY <1>1, <1>2, Zenon

\* A packet behind the others.
LEMMA ForBoxAppend ==
  ASSUME NEW s \in Seq(Packet), NEW p \in Packet, NEW b
  PROVE  ForBox(Append(s, p), b) = Keep(ForBox(s, b), p, b)
<1> DEFINE n == Len(s)
           r == Append(s, p)
<1>1. n \in Nat /\ r \in Seq(Packet) /\ Len(r) = n + 1 /\ (\A i \in 1 .. n : r[i] = s[i]) /\ r[n + 1] = p
  BY AppendProperties, LenProperties
<1>2. PICK g : g[0] = << >> /\ (\A i \in 1 .. n : g[i] = Keep(g[i - 1], s[i], b)) /\ ForBox(s, b) = g[n]
  BY ForBoxKeeps, Zenon
<1>3. PICK f : f[0] = << >> /\ (\A i \in 1 .. Len(r) : f[i] = Keep(f[i - 1], r[i], b)) /\ ForBox(r, b) = f[Len(r)]
  BY <1>1, ForBoxKeeps, Zenon
<1> HIDE DEF n, r
<1>4. \A i \in 1 .. n : i \in 1 .. Len(r)
  BY <1>1
<1>5. \A i \in 0 .. n : f[i] = g[i]
  <2>1. Keeps(f, n, r, b) /\ Keeps(g, n, s, b)
    BY <1>2, <1>3, <1>4, Zenon DEF Keeps
  <2> QED BY <1>1, <2>1, KeepUnique
<1>6. f[n + 1] = Keep(f[n], p, b)
  <2>1. n + 1 \in 1 .. Len(r) /\ (n + 1) - 1 = n
    BY <1>1
  <2> QED BY <1>1, <1>3, <2>1, Zenon
<1>7. n \in 0 .. n
  BY <1>1
<1>8. ForBox(r, b) = Keep(ForBox(s, b), p, b)
  BY <1>1, <1>2, <1>3, <1>5, <1>6, <1>7, Zenon
<1> QED BY <1>8, Zenon DEF r

\* A packet before the others.
LEMMA ForBoxCons ==
  ASSUME NEW p \in Packet, NEW b
  PROVE  \A s \in Seq(Packet) : ForBox(<<p>> \o s, b) = Keep(<< >>, p, b) \o ForBox(s, b)
<1> DEFINE Eq(s) == ForBox(<<p>> \o s, b) = Keep(<< >>, p, b) \o ForBox(s, b)
           Bad == {n \in Nat : \E s \in Seq(Packet) : Len(s) = n /\ ~Eq(s)}
<1>0. /\ Keep(<< >>, p, b) \in Seq(Packet) /\ <<p>> \in Seq(Packet)
      /\ \A s \in Seq(Packet) : Len(s) \in Nat
  <2>1. << >> \in Seq(Packet) /\ <<p>> \in Seq(Packet)
    OBVIOUS
  <2> QED BY <2>1, KeepType, LenProperties, Zenon
<1>1. SUFFICES ASSUME Bad # {} PROVE FALSE
  BY <1>0, Zenon
<1> HIDE DEF Eq
<1>2. PICK n \in Bad : \A j \in Bad : n <= j
  BY <1>1, LeastNat, Zenon
<1>3. PICK s \in Seq(Packet) : Len(s) = n /\ ~Eq(s)
  BY <1>2, Zenon
<1>4. CASE n = 0
  <2>1. s = << >>
    BY <1>3, <1>4, EmptySeq, Zenon
  <2>2. <<p>> \o << >> = Append(<< >>, p)
    OBVIOUS
  <2>3. << >> \in Seq(Packet)
    OBVIOUS
  <2>4. ForBox(<<p>> \o << >>, b) = Keep(<< >>, p, b)
    BY <2>2, <2>3, ForBoxAppend, ForBoxEmpty, Zenon
  <2>5. Keep(<< >>, p, b) \o << >> = Keep(<< >>, p, b)
    BY <1>0
  <2>6. Eq(s)
    BY <2>1, <2>4, <2>5, ForBoxEmpty, Zenon DEF Eq
  <2> QED BY <1>3, <2>6, Zenon
<1>5. CASE n # 0
  <2> DEFINE r == SubSeq(s, 1, n - 1)
             q == s[n]
  <2>0. n \in Nat /\ n - 1 \in Nat /\ n \in 1 .. Len(s) /\ n - 1 < n
    BY <1>2, <1>3, <1>5
  <2>1. q \in Packet /\ r \in Seq(Packet) /\ Len(r) = n - 1 /\ \A i \in 1 .. n - 1 : r[i] = s[i]
    <3>1. \A i \in 1 .. Len(s) : s[i] \in Packet
      BY ElementOfSeq, Zenon
    <3>2. \A i \in 1 .. n - 1 : i \in 1 .. Len(s)
      BY <1>3, <2>0
    <3> QED BY <1>3, <2>0, <3>1, <3>2, SubSeqProperties
  <2>2. s = Append(r, q)
    <3> HIDE DEF r, q
    <3>1. Append(r, q) \in Seq(Packet) /\ Len(Append(r, q)) = n /\ (\A i \in 1 .. n - 1 : Append(r, q)[i] = r[i])
          /\ Append(r, q)[n] = q
      BY <2>0, <2>1, AppendProperties
    <3>2. \A i \in 1 .. n : i \in 1 .. n - 1 \/ i = n
      BY <2>0
    <3>3. \A i \in 1 .. n : Append(r, q)[i] = s[i]
      BY <2>1, <3>1, <3>2, Zenon DEF q
    <3> QED BY <1>3, <3>1, <3>3, SeqEqual, Zenon
  <2>3. Eq(r)
    <3> HIDE DEF r
    <3> QED BY <1>2, <2>0, <2>1
  <2> HIDE DEF r, q
  <2>4. <<p>> \o r \in Seq(Packet) /\ ForBox(r, b) \in Seq(Packet)
    BY <1>0, <2>1, ConcatProperties, ForBoxType, Zenon
  <2>5. <<p>> \o s = Append(<<p>> \o r, q)
    <3>1. \A x, y \in Seq(Packet), z \in Packet : x \o Append(y, z) = Append(x \o y, z)
      BY AppendToBoth
    <3> QED BY <1>0, <2>1, <2>2, <3>1, Zenon
  <2>6. ForBox(<<p>> \o s, b) = Keep(Keep(<< >>, p, b) \o ForBox(r, b), q, b)
    <3>1. ForBox(Append(<<p>> \o r, q), b) = Keep(ForBox(<<p>> \o r, b), q, b)
      BY <2>1, <2>4, ForBoxAppend, Zenon
    <3> QED BY <2>3, <2>5, <3>1, Zenon DEF Eq
  <2>7. ForBox(s, b) = Keep(ForBox(r, b), q, b)
    BY <2>1, <2>2, ForBoxAppend, Zenon
  <2>8. Keep(Keep(<< >>, p, b) \o ForBox(r, b), q, b) = Keep(<< >>, p, b) \o Keep(ForBox(r, b), q, b)
    <3> DEFINE k == Keep(<< >>, p, b)
               f == ForBox(r, b)
    <3>1. k \in Seq(Packet) /\ f \in Seq(Packet)
      BY <1>0, <2>4, Zenon
    <3> HIDE DEF k, f
    <3>2. k \o Append(f, q) = Append(k \o f, q)
      BY <2>1, <3>1, AppendToBoth
    <3>3. Keep(k \o f, q, b) = k \o Keep(f, q, b)
      BY <3>2, Zenon DEF Keep
    <3> QED BY <3>3, Zenon DEF k, f
  <2>9. Eq(s)
    BY <2>6, <2>7, <2>8, Zenon DEF Eq
  <2> QED BY <1>3, <2>9, Zenon
<1> QED BY <1>4, <1>5, Zenon

=============================================================================
