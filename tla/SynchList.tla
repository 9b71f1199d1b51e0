------------------------------ MODULE SynchList ------------------------------
(***************************************************************************)
(* The synchronized lists (threads/synchlist.cc), used by any number of    *)
(* threads.  Every list has a lock and a condition, which have its name.   *)
(***************************************************************************)
EXTENDS FiniteSets, Monitor

CONSTANT List

VARIABLES
  list,      \* SynchList::list
  target,    \* the list of each thread's call
  argument,  \* the item of each thread's Append
  removed,   \* history: the items that Remove returned, in order
  appended   \* history: the items that entered the list, in order

listVars == <<list, target, argument, removed, appended>>

SynchListInit ==
  /\ list = [l \in List |-> << >>]
  /\ target = [t \in Thread |-> None]
  /\ argument = [t \in Thread |-> None]
  /\ removed = [l \in List |-> << >>]
  /\ appended = [l \in List |-> << >>]

-----------------------------------------------------------------------------
(* Append                                                                  *)

CallAppend(t, l, item) ==
  /\ target' = [target EXCEPT ![t] = l]
  /\ argument' = [argument EXCEPT ![t] = item]
  /\ Goto(t, "Append")
  /\ UNCHANGED <<list, removed, appended>>

AppendLock(t) ==
  /\ At(t, "Append")
  /\ Acquire(t, target[t], "append")
  /\ UNCHANGED listVars

NotSignalled(t) == Goto(t, "release")  \* mutant: Append does not signal
Signalled(t) == Signal(t, target[t], target[t], "release")

AppendItem(t) ==
  /\ At(t, "append")
  /\ list' = [list EXCEPT ![target[t]] = Append(@, argument[t])]
  /\ appended' = [appended EXCEPT ![target[t]] = Append(@, argument[t])]
  /\ argument' = [argument EXCEPT ![t] = None]
  /\ Signalled(t)
  /\ UNCHANGED <<target, removed>>

-----------------------------------------------------------------------------
(* Remove                                                                  *)

CallRemove(t, l) ==
  /\ target' = [target EXCEPT ![t] = l]
  /\ Goto(t, "Remove")
  /\ UNCHANGED <<list, argument, removed, appended>>

RemoveLock(t) ==
  /\ At(t, "Remove")
  /\ Acquire(t, target[t], "test")
  /\ UNCHANGED listVars

RemoveWait(t) ==
  /\ At(t, "test")
  /\ list[target[t]] = << >>
  /\ Wait(t, target[t], target[t])
  /\ UNCHANGED listVars

\* list->Remove(), which returns NULL if the list is empty.
TakeFirst(t) ==
  LET l == target[t]
      item == IF list[l] = << >> THEN None ELSE Head(list[l])
  IN  /\ removed' = [removed EXCEPT ![l] = Append(@, item)]
      /\ list' = IF item = None THEN list ELSE [list EXCEPT ![l] = Tail(@)]
      /\ UNCHANGED <<target, argument, appended>>

RemoveWokenNoTest(t) ==  \* mutant: if instead of while
  At(t, "woken") /\ EndOfWait(t, target[t], "release") /\ TakeFirst(t)
RemoveWoken(t) ==
  /\ At(t, "woken")
  /\ EndOfWait(t, target[t], "test")
  /\ UNCHANGED listVars

RemoveItem(t) ==
  /\ At(t, "test")
  /\ list[target[t]] # << >>
  /\ TakeFirst(t)
  /\ Goto(t, "release")

\* Back to the caller.
ListRelease(t) ==
  /\ At(t, "release") \/ At(t, "mapcar")
  /\ Release(t, target[t], "idle")
  /\ target' = [target EXCEPT ![t] = None]
  /\ UNCHANGED <<list, argument, removed, appended>>

\* Mapcar: the function it applies leaves the list alone.
MapcarLock(t, l) ==
  /\ Acquire(t, l, "mapcar")
  /\ target' = [target EXCEPT ![t] = l]
  /\ UNCHANGED <<list, argument, removed, appended>>

\* The steps within a call, but for RemoveItem, whose item is the caller's.
ListStep(t) ==
  \/ AppendLock(t) \/ AppendItem(t)
  \/ RemoveLock(t) \/ RemoveWait(t) \/ RemoveWoken(t) \/ ListRelease(t)

-----------------------------------------------------------------------------
(* Properties                                                              *)

\* Every list is a queue: the items that Remove returned, followed by those
\* that are still in the list, are the items appended, in that order.  None is
\* lost, returned twice or overtaken, and Remove never returns NULL, although a
\* thread that was signalled may find that another thread took its item.
FirstInFirstOut == \A l \in List : removed[l] \o list[l] = appended[l]

\* No wakeup is lost: as long as threads sleep in Remove, every item in the
\* list has a thread that is awake and will look for it.
EveryItemHasTaker ==
  \A l \in List : waitingQueue[l] # << >> =>
    Len(list[l]) <= Cardinality({t \in Thread : target[t] = l /\ pc[t] \in {"Remove", "test", "woken"}})

=============================================================================
