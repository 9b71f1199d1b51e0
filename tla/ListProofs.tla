----------------------------- MODULE ListProofs -----------------------------
(***************************************************************************)
(* What SortedInsert does to a list, for every list, item and key.         *)
(***************************************************************************)
EXTENDS List, SequenceTheorems, WellFoundedInduction, TLAPS

\* The cells of a list of elements of I with keys in K.
Cell(I, K) == [item : I, key : K]

\* A nonempty set of naturals has a least element, and Min is it.
LEMMA MinIsLeast ==
  ASSUME NEW S \in SUBSET Nat, S # {}
  PROVE  Min(S) \in S /\ \A y \in S : Min(S) <= y
<1>1. PICK x \in S : \A y \in S : <<y, x>> \notin OpToRel(<, Nat)
  BY WFMin, NatLessThanWellFounded, Zenon
<1>2. ASSUME NEW y \in S PROVE x <= y
  <2>1. SUFFICES ASSUME y < x PROVE FALSE
    OBVIOUS
  <2>2. <<y, x>> \in Nat \X Nat /\ <<y, x>>[1] < <<y, x>>[2]
    BY <2>1, Zenon
  <2>3. <<y, x>> \in OpToRel(<, Nat)
    BY <2>2, Zenon DEF OpToRel
  <2> QED BY <1>1, <2>3, Zenon
<1> QED BY <1>2, Zenon DEF Min

\* The walk of SortedInsert (list.cc) stops behind the last cell it may not
\* overtake: every cell before that place has a key that is not greater, if
\* the list is sorted, and the cell at that place has a greater one.
LEMMA InsertPositionSplits ==
  ASSUME NEW I, NEW K \in SUBSET Int, NEW list \in Seq(Cell(I, K)), NEW k \in K
  PROVE  /\ InsertPosition(list, k) \in 1 .. Len(list) + 1
         /\ \A i \in 1 .. InsertPosition(list, k) - 1 : list[i].key <= k
         /\ InsertPosition(list, k) <= Len(list) =>
              k < list[InsertPosition(list, k)].key
<1> DEFINE A == CellsAfter(list, k)
<1>1. Len(list) \in Nat /\ \A i \in 1 .. Len(list) : list[i] \in Cell(I, K)
  BY LenProperties, ElementOfSeq, Zenon
<1>0. k \in Int /\ \A i \in 1 .. Len(list) : list[i].key \in Int
  BY <1>1, Zenon DEF Cell
<1>2. A \subseteq Nat /\ A = {i \in 1 .. Len(list) : k < list[i].key}
  BY <1>1 DEF CellsAfter
<1>3. CASE A = {}
  <2>1. InsertPosition(list, k) = Len(list) + 1
    BY <1>3, Zenon DEF InsertPosition
  <2>2. \A i \in 1 .. Len(list) : list[i].key <= k
    BY <1>0, <1>2, <1>3
  <2> QED BY <1>1, <2>1, <2>2
<1>4. CASE A # {}
  <2>1. InsertPosition(list, k) = Min(A)
    BY <1>4, Zenon DEF InsertPosition
  <2>2. Min(A) \in A /\ \A y \in A : Min(A) <= y
    BY <1>2, <1>4, MinIsLeast, Zenon
  <2>3. Min(A) \in 1 .. Len(list) /\ k < list[Min(A)].key
    BY <1>2, <2>2, Zenon
  <2>4. ASSUME NEW i \in 1 .. Min(A) - 1
        PROVE  list[i].key <= k
    <3>1. i \in 1 .. Len(list) /\ i \notin A
      BY <1>1, <2>2, <2>3
    <3> QED BY <1>0, <1>2, <3>1
  <2> QED BY <1>1, <2>1, <2>3, <2>4
<1> QED BY <1>3, <1>4, Zenon

\* SortedInsert adds one cell at the insert position and shifts the cells
\* from there on by one.
LEMMA SortedInsertShifts ==
  ASSUME NEW I, NEW K \in SUBSET Int, NEW list \in Seq(Cell(I, K)),
         NEW it \in I, NEW k \in K
  PROVE  LET p == InsertPosition(list, k)
             new == SortedInsert(list, it, k)
         IN  /\ new \in Seq(Cell(I, K))
             /\ Len(new) = Len(list) + 1
             /\ \A j \in 1 .. Len(list) + 1 :
                  new[j] = IF j < p THEN list[j]
                           ELSE IF j = p THEN ListElement(it, k)
                           ELSE list[j - 1]
<1> DEFINE p == InsertPosition(list, k)
           e == ListElement(it, k)
           before == SubSeq(list, 1, p - 1)
           after == SubSeq(list, p, Len(list))
<1>1. p \in 1 .. Len(list) + 1 /\ Len(list) \in Nat
  BY InsertPositionSplits, LenProperties, Zenon
<1>2. \A i \in 1 .. Len(list) : list[i] \in Cell(I, K)
  BY ElementOfSeq, Zenon
<1>3. e \in Cell(I, K)
  BY Zenon DEF ListElement, Cell
<1>4. /\ before \in Seq(Cell(I, K))
      /\ Len(before) = p - 1
      /\ \A i \in 1 .. p - 1 : before[i] = list[i]
  <2>1. \A i \in 1 .. p - 1 : list[i] \in Cell(I, K)
    BY <1>1, <1>2
  <2> HIDE DEF p
  <2>2. 1 \in Int /\ p - 1 \in Int
    BY <1>1
  <2>3. /\ before \in Seq(Cell(I, K))
        /\ Len(before) = IF 1 <= p - 1 THEN p - 1 - 1 + 1 ELSE 0
        /\ \A i \in 1 .. p - 1 - 1 + 1 : before[i] = list[1 + i - 1]
    BY <2>1, <2>2, SubSeqProperties
  <2> QED BY <1>1, <2>3
<1>5. /\ after \in Seq(Cell(I, K))
      /\ Len(after) = Len(list) - p + 1
      /\ \A i \in 1 .. Len(list) - p + 1 : after[i] = list[p + i - 1]
  <2>1. \A i \in p .. Len(list) : list[i] \in Cell(I, K)
    BY <1>1, <1>2
  <2> HIDE DEF p
  <2>2. p \in Int /\ Len(list) \in Int
    BY <1>1
  <2>3. /\ after \in Seq(Cell(I, K))
        /\ Len(after) = IF p <= Len(list) THEN Len(list) - p + 1 ELSE 0
        /\ \A i \in 1 .. Len(list) - p + 1 : after[i] = list[p + i - 1]
    BY <2>1, <2>2, SubSeqProperties
  <2> QED BY <1>1, <2>3
<1> HIDE DEF p, e, before, after
<1>6. /\ <<e>> \in Seq(Cell(I, K)) /\ Len(<<e>>) = 1 /\ <<e>>[1] = e
  BY <1>3
<1>7. /\ before \o <<e>> \in Seq(Cell(I, K))
      /\ Len(before \o <<e>>) = p
      /\ \A i \in 1 .. p : (before \o <<e>>)[i] = IF i < p THEN list[i] ELSE e
  BY <1>1, <1>4, <1>6, ConcatProperties
<1>8. /\ before \o <<e>> \o after \in Seq(Cell(I, K))
      /\ Len(before \o <<e>> \o after) = Len(list) + 1
      /\ \A i \in 1 .. Len(list) + 1 :
           (before \o <<e>> \o after)[i] =
             IF i <= p THEN (before \o <<e>>)[i] ELSE after[i - p]
  <2> DEFINE be == before \o <<e>>
  <2>1. be \in Seq(Cell(I, K)) /\ Len(be) = p
    BY <1>7, Zenon
  <2> HIDE DEF be
  <2>2. /\ be \o after \in Seq(Cell(I, K))
        /\ Len(be \o after) = p + (Len(list) - p + 1)
        /\ \A i \in 1 .. p + (Len(list) - p + 1) :
             (be \o after)[i] = IF i <= p THEN be[i] ELSE after[i - p]
    BY <1>5, <2>1, ConcatProperties, SMTT(30)
  <2>3. p + (Len(list) - p + 1) = Len(list) + 1
    BY <1>1
  <2> QED BY <2>2, <2>3, Zenon DEF be
<1>9. SortedInsert(list, it, k) = before \o <<e>> \o after
  BY Zenon DEF SortedInsert, InsertAt, p, e, before, after
<1>10. ASSUME NEW j \in 1 .. Len(list) + 1
       PROVE  SortedInsert(list, it, k)[j] =
                IF j < p THEN list[j] ELSE IF j = p THEN e ELSE list[j - 1]
  <2>1. CASE j <= p
    BY <1>1, <1>7, <1>8, <1>9, <2>1
  <2>2. CASE j > p
    <3>1. j - p \in 1 .. Len(list) - p + 1 /\ p + (j - p) - 1 = j - 1
      BY <1>1, <2>2
    <3> QED BY <1>1, <1>5, <1>8, <1>9, <2>2, <3>1, SMTT(30)
  <2> QED BY <1>1, <2>1, <2>2
<1> QED BY <1>8, <1>9, <1>10, Zenon DEF p, e

\* The list is in ascending order of its keys.
Sorted(list) ==
  \A i, j \in 1 .. Len(list) : i < j => list[i].key <= list[j].key

\* No item is on the list twice.
Distinct(list) ==
  \A i, j \in 1 .. Len(list) : list[i].item = list[j].item => i = j

\* The cells of the new list are the old ones and the new one.
LEMMA SortedInsertCells ==
  ASSUME NEW I, NEW K \in SUBSET Int, NEW list \in Seq(Cell(I, K)),
         NEW it \in I, NEW k \in K
  PROVE  \A j \in 1 .. Len(SortedInsert(list, it, k)) :
           \/ SortedInsert(list, it, k)[j] = ListElement(it, k)
           \/ \E i \in 1 .. Len(list) : SortedInsert(list, it, k)[j] = list[i]
<1> TAKE j \in 1 .. Len(SortedInsert(list, it, k))
<1> DEFINE p == InsertPosition(list, k)
           new == SortedInsert(list, it, k)
<1>1. p \in 1 .. Len(list) + 1 /\ Len(list) \in Nat
  BY InsertPositionSplits, LenProperties, Zenon
<1>2. /\ Len(new) = Len(list) + 1
      /\ \A i \in 1 .. Len(list) + 1 :
           new[i] = IF i < p THEN list[i]
                    ELSE IF i = p THEN ListElement(it, k) ELSE list[i - 1]
  BY SortedInsertShifts
<1> HIDE DEF p, new
<1>3. CASE j < p
  BY <1>1, <1>2, <1>3 DEF new
<1>4. CASE j = p
  BY <1>1, <1>2, <1>4 DEF new
<1>5. CASE j > p
  <2>1. j \in 1 .. Len(list) + 1
    BY <1>2, Zenon DEF new
  <2>2. j - 1 \in 1 .. Len(list) /\ new[j] = list[j - 1]
    BY <1>1, <1>2, <1>5, <2>1
  <2> QED BY <2>2, Zenon DEF new
<1>6. j \in Int /\ p \in Int
  BY <1>1, <1>2 DEF new
<1> QED BY <1>3, <1>4, <1>5, <1>6

\* SortedInsert loses no item and adds only the one it is given.
LEMMA SortedInsertItems ==
  ASSUME NEW I, NEW K \in SUBSET Int, NEW list \in Seq(Cell(I, K)),
         NEW it \in I, NEW k \in K
  PROVE  Items(SortedInsert(list, it, k)) = Items(list) \cup {it}
<1> DEFINE p == InsertPosition(list, k)
           new == SortedInsert(list, it, k)
<1>1. p \in 1 .. Len(list) + 1 /\ Len(list) \in Nat
  BY InsertPositionSplits, LenProperties, Zenon
<1>2. /\ Len(new) = Len(list) + 1
      /\ \A j \in 1 .. Len(list) + 1 :
           new[j] = IF j < p THEN list[j]
                    ELSE IF j = p THEN ListElement(it, k) ELSE list[j - 1]
  BY SortedInsertShifts
<1> HIDE DEF p, new
<1>3. ListElement(it, k).item = it
  BY Zenon DEF ListElement
<1>4. ASSUME NEW j \in 1 .. Len(new)
      PROVE  new[j].item \in Items(list) \cup {it}
  <2>1. CASE j < p
    BY <1>1, <1>2, <2>1 DEF Items
  <2>2. CASE j = p
    BY <1>1, <1>2, <1>3, <2>2
  <2>3. CASE j > p
    <3>1. j - 1 \in 1 .. Len(list)
      BY <1>1, <1>2, <2>3
    <3> QED BY <1>1, <1>2, <2>3, <3>1 DEF Items
  <2> QED BY <1>1, <1>2, <2>1, <2>2, <2>3
<1>5. ASSUME NEW i \in 1 .. Len(list)
      PROVE  \E j \in 1 .. Len(new) : new[j].item = list[i].item
  <2>1. CASE i < p
    BY <1>1, <1>2, <2>1
  <2>2. CASE i >= p
    <3>1. i + 1 \in 1 .. Len(new) /\ i + 1 > p /\ (i + 1) - 1 = i
      BY <1>1, <1>2, <2>2
    <3>2. new[i + 1] = list[i]
      BY <1>1, <1>2, <3>1
    <3> QED BY <3>1, <3>2, Zenon
  <2> QED BY <1>1, <2>1, <2>2
<1>6. p \in 1 .. Len(new) /\ new[p].item = it
  BY <1>1, <1>2, <1>3
<1>7. Items(new) = Items(list) \cup {it}
  BY <1>4, <1>5, <1>6, SMTT(30) DEF Items
<1> QED BY <1>7, Zenon DEF new

\* A list without duplicates stays so when the new item is not on it.
LEMMA SortedInsertDistinct ==
  ASSUME NEW I, NEW K \in SUBSET Int, NEW list \in Seq(Cell(I, K)),
         NEW it \in I, NEW k \in K,
         Distinct(list), it \notin Items(list)
  PROVE  Distinct(SortedInsert(list, it, k))
<1> DEFINE p == InsertPosition(list, k)
           new == SortedInsert(list, it, k)
<1>1. p \in 1 .. Len(list) + 1 /\ Len(list) \in Nat
  BY InsertPositionSplits, LenProperties, Zenon
<1>2. /\ Len(new) = Len(list) + 1
      /\ \A j \in 1 .. Len(list) + 1 :
           new[j] = IF j < p THEN list[j]
                    ELSE IF j = p THEN ListElement(it, k) ELSE list[j - 1]
  BY SortedInsertShifts
<1> HIDE DEF p, new
<1> DEFINE old(j) == IF j < p THEN j ELSE j - 1
<1>3. ASSUME NEW j \in 1 .. Len(new), j # p
      PROVE  old(j) \in 1 .. Len(list) /\ new[j] = list[old(j)]
  BY <1>1, <1>2, <1>3
<1>4. new[p].item = it
  BY <1>1, <1>2 DEF ListElement
<1>5. ASSUME NEW j \in 1 .. Len(new), j # p
      PROVE  new[j].item # it
  BY <1>3, <1>5, Zenon DEF Items
<1>6. ASSUME NEW i \in 1 .. Len(new), NEW j \in 1 .. Len(new),
             new[i].item = new[j].item
      PROVE  i = j
  <2>1. CASE i = p \/ j = p
    BY <1>4, <1>5, <1>6, <2>1, Zenon
  <2>2. CASE i # p /\ j # p
    <3>1. old(i) = old(j)
      BY <1>3, <1>6, <2>2, ZenonT(30) DEF Distinct
    <3> QED BY <1>1, <1>2, <2>2, <3>1
  <2> QED BY <2>1, <2>2, Zenon
<1> QED BY <1>6, Zenon DEF Distinct, new

\* A sorted list stays sorted.
LEMMA SortedInsertSorted ==
  ASSUME NEW I, NEW K \in SUBSET Int, NEW list \in Seq(Cell(I, K)),
         NEW it \in I, NEW k \in K,
         Sorted(list)
  PROVE  Sorted(SortedInsert(list, it, k))
<1> DEFINE p == InsertPosition(list, k)
           new == SortedInsert(list, it, k)
<1>1. /\ p \in 1 .. Len(list) + 1 /\ Len(list) \in Nat
      /\ \A i \in 1 .. p - 1 : list[i].key <= k
      /\ p <= Len(list) => k < list[p].key
  BY InsertPositionSplits, LenProperties, Zenon
<1>2. /\ Len(new) = Len(list) + 1
      /\ \A j \in 1 .. Len(list) + 1 :
           new[j] = IF j < p THEN list[j]
                    ELSE IF j = p THEN ListElement(it, k) ELSE list[j - 1]
  BY SortedInsertShifts
<1> HIDE DEF p, new
<1>3. \A i \in 1 .. Len(list) : list[i].key \in Int
  <2>1. \A i \in 1 .. Len(list) : list[i] \in Cell(I, K)
    BY ElementOfSeq, Zenon
  <2> QED BY <2>1, Zenon DEF Cell
<1>4. \A i \in p .. Len(list) : k <= list[i].key
  BY <1>1, <1>3 DEF Sorted
<1>5. ASSUME NEW i \in 1 .. Len(new), NEW j \in 1 .. Len(new), i < j
      PROVE  new[i].key <= new[j].key
  <2>1. CASE j < p
    BY <1>1, <1>2, <1>5, <2>1, SMTT(30) DEF Sorted
  <2>2. CASE j = p
    BY <1>1, <1>2, <1>5, <2>2 DEF ListElement
  <2>3. CASE i = p
    <3>1. j - 1 \in p .. Len(list) /\ new[j] = list[j - 1]
      BY <1>1, <1>2, <1>5, <2>3
    <3>2. new[i].key = k
      BY <1>1, <1>2, <2>3 DEF ListElement
    <3> QED BY <1>4, <3>1, <3>2, Zenon
  <2>4. CASE j > p /\ i < p
    <3>1. j - 1 \in 1 .. Len(list) /\ new[j] = list[j - 1]
      BY <1>1, <1>2, <1>5, <2>4
    <3>2. i \in 1 .. Len(list) /\ new[i] = list[i]
      BY <1>1, <1>2, <1>5, <2>4
    <3>3. j - 1 >= p /\ list[i].key <= k
      BY <1>1, <2>4
    <3>4. k \in Int /\ list[i].key \in Int /\ list[j - 1].key \in Int /\ k <= list[j - 1].key
      BY <1>1, <1>3, <1>4, <3>1, <3>2, <3>3
    <3>5. list[i].key <= list[j - 1].key
      BY <3>3, <3>4
    <3> QED BY <3>1, <3>2, <3>5, Zenon
  <2>5. CASE i > p
    <3>1. j - 1 \in 1 .. Len(list) /\ new[j] = list[j - 1]
      BY <1>1, <1>2, <1>5, <2>5
    <3>2. i - 1 \in 1 .. Len(list) /\ new[i] = list[i - 1]
      BY <1>1, <1>2, <1>5, <2>5
    <3>3. i - 1 < j - 1
      BY <1>1, <1>2, <1>5
    <3> QED BY <3>1, <3>2, <3>3, Zenon DEF Sorted
  <2> QED BY <1>1, <1>2, <1>5, <2>1, <2>2, <2>3, <2>4, <2>5
<1> QED BY <1>5, Zenon DEF Sorted, new

\* FindNextToRun: taking the first cell off a list without duplicates
\* removes exactly its item, and keeps the order of the others.
LEMMA TakeFirst ==
  ASSUME NEW I, NEW K \in SUBSET Int, NEW list \in Seq(Cell(I, K)), list # << >>
  PROVE  /\ Head(list) = list[1]
         /\ 1 \in 1 .. Len(list)
         /\ Head(list).item \in I
         /\ Tail(list) \in Seq(Cell(I, K))
         /\ \A i \in 1 .. Len(Tail(list)) :
              i + 1 \in 1 .. Len(list) /\ Tail(list)[i] = list[i + 1]
         /\ Head(list).item \in Items(list)
         /\ Distinct(list) =>
              /\ Items(Tail(list)) = Items(list) \ {Head(list).item}
              /\ Distinct(Tail(list))
         /\ Sorted(list) => Sorted(Tail(list))
<1>1. /\ Len(list) \in Nat \ {0}
      /\ Head(list) = list[1]
      /\ Head(list) \in Cell(I, K)
      /\ Tail(list) \in Seq(Cell(I, K))
      /\ Len(Tail(list)) = Len(list) - 1
      /\ \A i \in 1 .. Len(Tail(list)) : Tail(list)[i] = list[i + 1]
  BY HeadTailProperties, EmptySeq
<1>2. Head(list).item \in Items(list)
  BY <1>1 DEF Items
<1>3. ASSUME Distinct(list)
      PROVE  Items(Tail(list)) = Items(list) \ {Head(list).item}
  <2>1. ASSUME NEW i \in 1 .. Len(Tail(list))
        PROVE  Tail(list)[i].item \in Items(list) \ {Head(list).item}
    <3>1. i + 1 \in 1 .. Len(list) /\ i + 1 # 1
      BY <1>1
    <3> QED BY <1>1, <1>3, <3>1 DEF Items, Distinct
  <2>2. ASSUME NEW i \in 1 .. Len(list), list[i].item # Head(list).item
        PROVE  \E j \in 1 .. Len(Tail(list)) :
                 Tail(list)[j].item = list[i].item
    <3>1. i - 1 \in 1 .. Len(Tail(list)) /\ (i - 1) + 1 = i
      BY <1>1, <2>2
    <3>2. Tail(list)[i - 1] = list[i]
      BY <1>1, <3>1, Zenon
    <3> QED BY <3>1, <3>2, Zenon
  <2> QED BY <2>1, <2>2, SMTT(30) DEF Items
<1>4. ASSUME Distinct(list)
      PROVE  Distinct(Tail(list))
  BY <1>1, <1>4 DEF Distinct
<1>5. ASSUME Sorted(list)
      PROVE  Sorted(Tail(list))
  BY <1>1, <1>5 DEF Sorted
<1>6. 1 \in 1 .. Len(list) /\ Head(list).item \in I
  BY <1>1 DEF Cell
<1> QED BY <1>1, <1>2, <1>3, <1>4, <1>5, <1>6

\* The cells on a list, whatever their order.
Cells(list) == {list[i] : i \in 1 .. Len(list)}

\* SortedInsert keeps all cells, and adds the new one.
LEMMA SortedInsertKeepsCells ==
  ASSUME NEW I, NEW K \in SUBSET Int, NEW list \in Seq(Cell(I, K)),
         NEW it \in I, NEW k \in K
  PROVE  Cells(SortedInsert(list, it, k)) = Cells(list) \cup {ListElement(it, k)}
<1> DEFINE p == InsertPosition(list, k)
           new == SortedInsert(list, it, k)
<1>1. p \in 1 .. Len(list) + 1 /\ Len(list) \in Nat
  BY InsertPositionSplits, LenProperties, Zenon
<1>2. /\ Len(new) = Len(list) + 1
      /\ \A j \in 1 .. Len(list) + 1 :
           new[j] = IF j < p THEN list[j]
                    ELSE IF j = p THEN ListElement(it, k) ELSE list[j - 1]
  BY SortedInsertShifts
<1>3. Cells(new) \subseteq Cells(list) \cup {ListElement(it, k)}
  <2>1. \A j \in 1 .. Len(new) : new[j] = ListElement(it, k) \/ \E i \in 1 .. Len(list) : new[j] = list[i]
    BY SortedInsertCells
  <2> QED BY <2>1, Zenon DEF Cells
<1> HIDE DEF p, new
<1>4. ASSUME NEW i \in 1 .. Len(list) PROVE list[i] \in Cells(new)
  <2>1. CASE i < p
    <3>1. i \in 1 .. Len(list) + 1 /\ new[i] = list[i]
      BY <1>1, <1>2, <2>1
    <3> QED BY <1>2, <3>1, Zenon DEF Cells
  <2>2. CASE ~(i < p)
    <3>1. i + 1 \in 1 .. Len(list) + 1 /\ ~(i + 1 < p) /\ i + 1 # p /\ (i + 1) - 1 = i
      BY <1>1, <2>2
    <3>2. new[i + 1] = list[i]
      BY <1>2, <3>1
    <3> QED BY <1>2, <3>1, <3>2, Zenon DEF Cells
  <2> QED BY <2>1, <2>2, Zenon
<1>5. ListElement(it, k) \in Cells(new)
  <2>1. p \in 1 .. Len(new) /\ ~(p < p)
    BY <1>1, <1>2
  <2> QED BY <1>1, <1>2, <2>1, Zenon DEF Cells
<1> QED BY <1>3, <1>4, <1>5, Zenon DEF Cells, new

\* The first cell of a sorted list has the least key.
LEMMA FirstIsLeast ==
  ASSUME NEW I, NEW K \in SUBSET Int, NEW list \in Seq(Cell(I, K)), list # << >>, Sorted(list)
  PROVE  /\ Cells(list) = Cells(Tail(list)) \cup {Head(list)}
         /\ Head(list) \in Cell(I, K)
         /\ \A c \in Cells(list) : Head(list).key <= c.key
<1>1. /\ Head(list) = list[1] /\ 1 \in 1 .. Len(list) /\ Len(list) \in Nat
      /\ Tail(list) \in Seq(Cell(I, K)) /\ Len(Tail(list)) = Len(list) - 1
      /\ \A i \in 1 .. Len(Tail(list)) : i + 1 \in 1 .. Len(list) /\ Tail(list)[i] = list[i + 1]
  <2>1. /\ Head(list) = list[1] /\ 1 \in 1 .. Len(list) /\ Tail(list) \in Seq(Cell(I, K))
        /\ \A i \in 1 .. Len(Tail(list)) : i + 1 \in 1 .. Len(list) /\ Tail(list)[i] = list[i + 1]
    BY TakeFirst, SMTT(30)
  <2> QED BY <2>1, HeadTailProperties, LenProperties, Zenon
<1>2. \A i \in 1 .. Len(list) : list[i] \in Cell(I, K) /\ list[i].key \in Int
  <2>1. \A i \in 1 .. Len(list) : list[i] \in Cell(I, K)
    BY ElementOfSeq, Zenon
  <2> QED BY <2>1 DEF Cell
<1>3. ASSUME NEW i \in 1 .. Len(list) PROVE list[1].key <= list[i].key /\ list[i] \in Cells(Tail(list)) \cup {list[1]}
  <2>1. CASE i = 1
    BY <1>1, <1>2, <2>1
  <2>2. CASE i # 1
    <3>1. 1 < i /\ i - 1 \in 1 .. Len(Tail(list)) /\ (i - 1) + 1 = i
      BY <1>1, <2>2
    <3>2. Tail(list)[i - 1] = list[i]
      BY <1>1, <3>1, Zenon
    <3> QED BY <1>1, <3>1, <3>2, Zenon DEF Cells, Sorted
  <2> QED BY <2>1, <2>2, Zenon
<1>4. Cells(Tail(list)) \subseteq Cells(list)
  BY <1>1, Zenon DEF Cells
<1> QED BY <1>1, <1>2, <1>3, <1>4, Zenon DEF Cells


=============================================================================
