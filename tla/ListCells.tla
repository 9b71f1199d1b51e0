------------------------------ MODULE ListCells ------------------------------
(***************************************************************************)
(* The List of threads/list.cc as it is in memory: cells linked by "next", *)
(* with a pointer to the first and one to the last.  Module List has the   *)
(* sequences that the other modules use instead; the history variable      *)
(* contents is the list as such a sequence.                                *)
(***************************************************************************)
EXTENDS List

CONSTANTS Item, Key,
          Address    \* the addresses that new may return; numbers, none of them 0

Nil == 0             \* the null pointer

ASSUME ListCellsAssumption == IsFiniteSet(Address) /\ Nil \notin Address /\ Key \subseteq Int

VARIABLES
  heap,              \* the ListElements; garbage where none is allocated
  allocated,         \* the addresses in use
  first, last,
  contents           \* history: the list as a sequence

cellVars == <<heap, allocated, first, last, contents>>

\* What is at an address before new and after delete.
Freed(c) == [item |-> Nil, key |-> 0, next |-> c]

CellsInit ==
  /\ heap = [c \in Address |-> Freed(c)]
  /\ allocated = {}
  /\ first = Nil /\ last = Nil
  /\ contents = << >>

IsEmpty == first = Nil

\* The ListElement that the constructor makes at c, in front of the cell n.
Element(item, key, n) == [item |-> item, key |-> key, next |-> n]

\* The cell after c, once the loop of SortedInsert has come to c.
Goes(c, sortKey) == heap[c].next # Nil /\ sortKey >= heap[heap[c].next].key

\* The cells on the way from the first to the end, as long as they are in on.
Way(on) ==
  LET way[n \in 1 .. Cardinality(Address)] ==
        IF n = 1 THEN <<first>>
        ELSE LET w == way[n - 1] IN
             IF w[Len(w)] \in on THEN Append(w, heap[w[Len(w)]].next) ELSE w
  IN  way[Cardinality(Address)]

\* Links the new cell c in behind the last one.
LastForgotten(c) == last  \* mutant: last is not moved
LastMoved(c) == c

PutLast(c, item, key) ==
  /\ heap' = IF IsEmpty THEN [heap EXCEPT ![c] = Element(item, key, Nil)]
             ELSE [heap EXCEPT ![c] = Element(item, key, Nil), ![last].next = c]
  /\ first' = IF IsEmpty THEN c ELSE first
  /\ last' = IF IsEmpty THEN c ELSE LastMoved(c)

\* Links the new cell c in before the first one.
PutFirst(c, item, key) ==
  /\ heap' = [heap EXCEPT ![c] = Element(item, key, first)]
  /\ first' = c
  /\ last' = IF IsEmpty THEN c ELSE last

ListAppend(c, item) ==
  /\ PutLast(c, item, 0)
  /\ contents' = Append(contents, ListElement(item, 0))

Prepend(c, item) ==
  /\ PutFirst(c, item, 0)
  /\ contents' = <<ListElement(item, 0)>> \o contents

\* SortedInsert: at the front, behind the cell where the loop stops, or at the end.
CellInsert(c, item, sortKey) ==
  LET way == Way({p \in allocated : Goes(p, sortKey)})
      ptr == way[Len(way)]
  IN  /\ IF ~IsEmpty /\ sortKey < heap[first].key THEN PutFirst(c, item, sortKey)
         ELSE IF IsEmpty \/ heap[ptr].next = Nil THEN PutLast(c, item, sortKey)
         ELSE /\ heap' = [heap EXCEPT ![c] = Element(item, sortKey, heap[ptr].next), ![ptr].next = c]
              /\ UNCHANGED <<first, last>>
      /\ contents' = SortedInsert(contents, item, sortKey)

\* new ListElement, then one of the three.
Insert ==
  \E c \in Address \ allocated, item \in Item :
    /\ allocated' = allocated \cup {c}
    /\ \/ ListAppend(c, item) \/ Prepend(c, item)
       \/ \E key \in Key : CellInsert(c, item, key)

\* SortedRemove and Remove, which do nothing to an empty list; the cell of the
\* item that they return is deleted.
SortedRemove ==
  /\ ~IsEmpty
  /\ IF first = last THEN first' = Nil /\ last' = Nil
     ELSE first' = heap[first].next /\ UNCHANGED last
  /\ allocated' = allocated \ {first}
  /\ heap' = [heap EXCEPT ![first] = Freed(first)]
  /\ contents' = Tail(contents)

CellsNext == Insert \/ SortedRemove

CellsSpec == CellsInit /\ [][CellsNext]_cellVars

-----------------------------------------------------------------------------
\* The cells are the list: what Mapcar meets on its way from first along next
\* are the elements of the sequence, the way ends at last, and the cells on it
\* are all that is allocated.  None is lost by an insertion in the middle, met
\* twice or kept after its removal, in whatever order the sorted and the plain
\* operations are mixed.
CellsAreList ==
  LET way == Way({p \in Address : heap[p].next # Nil}) IN
  IF IsEmpty THEN contents = << >> /\ allocated = {}
  ELSE /\ [n \in DOMAIN way |-> ListElement(heap[way[n]].item, heap[way[n]].key)] = contents
       /\ way[Len(way)] = last
       /\ {way[n] : n \in DOMAIN way} = allocated

=============================================================================
