------------------------------- MODULE BitMap -------------------------------
(***************************************************************************)
(* BitMap of userprog/bitmap.cc in memory and on the disk: words of bits,  *)
(* and a file of bytes that WriteBack and FetchFrom copy them to and from. *)
(* The file is one bit for each item long, as the free map's is            *)
(* (FreeMapFileSize in filesys.cc), and the last word may reach past it.   *)
(* Module FileSys has sets in the place of bitmaps.                        *)
(***************************************************************************)
EXTENDS Integers, FiniteSets, Bitwise

CONSTANTS BitsInByte,     \* 8 in the code
          BytesInWord,    \* sizeof(unsigned)
          Sizes,          \* the numbers of items
          Heap            \* the words that new may find in memory

ASSUME BitMapAssumption ==
  /\ BitsInByte \in Nat \ {0} /\ BytesInWord \in Nat \ {0}
  /\ \A n \in Sizes : n > 0 /\ n % BitsInByte = 0
  /\ Heap \subseteq 0 .. 2^(BitsInByte * BytesInWord) - 1

VARIABLES
  numBits,
  map,            \* the words
  file,           \* the bytes of the file
  marked, saved   \* history: the items marked, in memory and in the file

bitMapVars == <<numBits, map, file, marked, saved>>

BitsInWord == BitsInByte * BytesInWord
numWords == (numBits + BitsInWord - 1) \div BitsInWord
Bit == 0 .. numBits - 1

-----------------------------------------------------------------------------
Marked(m, which) == [m EXCEPT ![which \div BitsInWord] = @ | 2^(which % BitsInWord)]

Flipped(m, which) ==  \* mutant: & without ~
  [m EXCEPT ![which \div BitsInWord] = @ & 2^(which % BitsInWord)]
Cleared(m, which) ==
  [m EXCEPT ![which \div BitsInWord] = @ & (2^BitsInWord - 1 - 2^(which % BitsInWord))]

Test(m, which) == m[which \div BitsInWord] & 2^(which % BitsInWord) # 0

\* The constructor, from the words that new returns: the bits of the items are
\* cleared, the others keep what they had.
NewMap(words) ==
  LET upTo[n \in 0 .. numBits] == IF n = 0 THEN words ELSE Cleared(upTo[n - 1], n - 1)
  IN  upTo[numBits]

\* The item that Find marks; -1 if there is none.
FirstClear(m) ==
  LET clear == {i \in Bit : ~Test(m, i)}
  IN  IF clear = {} THEN -1 ELSE CHOOSE i \in clear : \A j \in clear : i <= j

NumClear(m) == Cardinality({i \in Bit : ~Test(m, i)})

\* Byte b of the words, on a host that stores the least significant one first.
ByteOf(m, b) == (m[b \div BytesInWord] \div 2^(BitsInByte * (b % BytesInWord))) % 2^BitsInByte

-----------------------------------------------------------------------------
BitMapInit ==
  /\ numBits \in Sizes
  /\ \E words \in [0 .. numWords - 1 -> Heap] : map = NewMap(words)
  /\ file = [b \in 0 .. numBits \div BitsInByte - 1 |-> 0]
  /\ marked = {} /\ saved = {}

New ==
  /\ \E words \in [0 .. numWords - 1 -> Heap] : map' = NewMap(words)
  /\ marked' = {}
  /\ UNCHANGED <<numBits, file, saved>>

Mark(which) ==
  /\ map' = Marked(map, which)
  /\ marked' = marked \cup {which}
  /\ UNCHANGED <<numBits, file, saved>>

Clear(which) ==
  /\ map' = Cleared(map, which)
  /\ marked' = marked \ {which}
  /\ UNCHANGED <<numBits, file, saved>>

Find ==
  LET i == FirstClear(map)
      least == {k \in Bit \ marked : 0 .. k - 1 \subseteq marked}
  IN  /\ map' = IF i = -1 THEN map ELSE Marked(map, i)
      /\ marked' = marked \cup least
      /\ UNCHANGED <<numBits, file, saved>>

\* WriteAt stops at the end of the file, although it is given all the words.
WriteBack ==
  /\ file' = [b \in DOMAIN file |-> ByteOf(map, b)]
  /\ saved' = marked
  /\ UNCHANGED <<numBits, map, marked>>

\* So does ReadAt; the bytes behind stay as they are in memory.
FetchFrom ==
  LET byte(b) == IF b \in DOMAIN file THEN file[b] ELSE ByteOf(map, b)
      word[w \in 0 .. numWords - 1, k \in 0 .. BytesInWord] ==
        IF k = 0 THEN 0 ELSE word[w, k - 1] + byte(w * BytesInWord + k - 1) * 2^(BitsInByte * (k - 1))
  IN  /\ map' = [w \in DOMAIN map |-> word[w, BytesInWord]]
      /\ marked' = saved
      /\ UNCHANGED <<numBits, file, saved>>

BitMapNext ==
  \/ New \/ Find \/ WriteBack \/ FetchFrom
  \/ \E i \in Bit : Mark(i) \/ Clear(i)

-----------------------------------------------------------------------------
\* A bitmap is the set of the items marked: Test and NumClear answer for that
\* set after every sequence of calls, through the file as well, and whatever
\* the memory of the words held that no item has a bit in.
BitMapIsSet ==
  /\ \A i \in Bit : Test(map, i) <=> i \in marked
  /\ NumClear(map) = numBits - Cardinality(marked)

=============================================================================
