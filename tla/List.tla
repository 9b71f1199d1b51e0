-------------------------------- MODULE List --------------------------------
(***************************************************************************)
(* The kernel's singly linked List (threads/list.cc) as a value: a         *)
(* sequence whose first element is the list's "first" cell.                *)
(*                                                                         *)
(* A list that is only used first-in first-out holds its items themselves; *)
(* Append and Remove are Append and Head/Tail.  A sorted list holds        *)
(* ListElements, because the key is copied into the cell when the item is  *)
(* inserted and is not looked up again.                                    *)
(***************************************************************************)
EXTENDS Integers, Sequences, FiniteSetsExt, SequencesExt

ListElement(item, key) == [item |-> item, key |-> key]

\* Mutant of CellsAfter: a new cell goes before its equals.
CellsAfterOrEqual(list, sortKey) ==
  {i \in 1..Len(list) : sortKey <= list[i].key}

\* The cells whose key is greater than sortKey: the new cell goes just
\* before the first of them, hence after every cell with an equal key.
CellsAfter(list, sortKey) == {i \in 1..Len(list) : sortKey < list[i].key}

\* The place the walk of SortedInsert stops at.
InsertPosition(list, sortKey) ==
  IF CellsAfter(list, sortKey) = {} THEN Len(list) + 1
  ELSE Min(CellsAfter(list, sortKey))

\* Mutant of SortedInsert: the plain Append of the original scheduler.
SortedInsertAppends(list, item, sortKey) ==
  Append(list, ListElement(item, sortKey))

SortedInsert(list, item, sortKey) ==
  InsertAt(list, InsertPosition(list, sortKey), ListElement(item, sortKey))

\* The items of a sorted list.
Items(list) == {list[i].item : i \in 1..Len(list)}

=============================================================================
