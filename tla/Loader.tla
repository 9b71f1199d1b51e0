------------------------------- MODULE Loader -------------------------------
(***************************************************************************)
(* From the linker's COFF file to a program's memory, along the three ways *)
(* the repository has: bin/coff2noff.c and the constructor of AddrSpace,   *)
(* bin/coff2flat.c, and load_program of bin/main.c.                        *)
(*                                                                         *)
(* A COFF file is a record: whether its magic numbers are right, the       *)
(* sequence of its section headers, and its bytes from offset 0 on.        *)
(***************************************************************************)
EXTENDS Naturals, Sequences, SequencesExt, FiniteSetsExt

CONSTANTS PageSize,
          UserStackSize,   \* addrspace.h
          FlatStackSize,   \* StackSize of coff2flat.c
          HeaderSize,      \* sizeof(NoffHeader)
          Garbage          \* what new char[] leaves in a byte

ASSUME LoaderAssumption == {PageSize, UserStackSize, FlatStackSize, HeaderSize} \subseteq Nat \ {0}

Section == [name : STRING, paddr : Nat, size : Nat, scnptr : Nat]

Coffs == [magic : BOOLEAN, sections : Seq(Section), bytes : Seq(Nat)]

Addresses(s) == s.paddr..(s.paddr + s.size - 1)

TooShort(coff, s) == s.scnptr + s.size > Len(coff.bytes)

\* The bytes of a section in the COFF file.
PieceEarly(coff, s) == SubSeq(coff.bytes, s.scnptr, s.scnptr + s.size - 1)  \* mutant: off by one

Piece(coff, s) == SubSeq(coff.bytes, s.scnptr + 1, s.scnptr + s.size)

-----------------------------------------------------------------------------
\* coff2noff.  The NOFF file is its three segments and the bytes behind the
\* header; exit(1) unlinks it.
NoSegment == [virtualAddr |-> 0, inFileAddr |-> 0, size |-> 0]

NoNoff == [exists |-> FALSE, code |-> NoSegment, initData |-> NoSegment, uninitData |-> NoSegment, out |-> <<>>]

CopySegment(coff, noff, s, segment) ==
    IF TooShort(coff, s) THEN NoNoff
    ELSE [noff EXCEPT ![segment] = [virtualAddr |-> s.paddr, inFileAddr |-> HeaderSize + Len(noff.out), size |-> s.size],
                      !.out = @ \o Piece(coff, s)]

\* A second bss is refused when it is contiguous to the first.
AddBss(noff, s) ==
    CASE noff.uninitData.size = 0 ->
            [noff EXCEPT !.uninitData.virtualAddr = s.paddr, !.uninitData.size = s.size]
      [] noff.uninitData.size # 0 /\ s.paddr = noff.uninitData.virtualAddr + noff.uninitData.size -> NoNoff
      [] OTHER -> [noff EXCEPT !.uninitData.size = @ + s.size]

ConvertSection(coff, noff, s) ==
    CASE ~noff.exists \/ s.size = 0 -> noff
      [] noff.exists /\ s.size # 0 /\ s.name = ".text" -> CopySegment(coff, noff, s, "code")
      [] noff.exists /\ s.size # 0 /\ s.name \in {".data", ".rdata"} ->
            IF noff.initData.size # 0 THEN NoNoff ELSE CopySegment(coff, noff, s, "initData")
      [] noff.exists /\ s.size # 0 /\ s.name \in {".bss", ".sbss"} -> AddBss(noff, s)
      [] OTHER -> NoNoff

coff2noff(coff) ==
    FoldLeft(LAMBDA noff, s : ConvertSection(coff, noff, s),
             [NoNoff EXCEPT !.exists = coff.magic], coff.sections)

-----------------------------------------------------------------------------
\* AddrSpace::AddrSpace: the size only counts the segments, wherever they are.
SpaceSize(noff) == noff.code.size + noff.initData.size + noff.uninitData.size + UserStackSize

NumPages(noff) == (SpaceSize(noff) + PageSize - 1) \div PageSize

SegmentAddr(segment) == segment.virtualAddr..(segment.virtualAddr + segment.size - 1)

ReadSegment(noff, segment, a) == noff.out[segment.inFileAddr - HeaderSize + (a - segment.virtualAddr) + 1]

\* The array disk: code, then initialized data, read byte by byte; the rest
\* is as the allocator left it.
AddrSpace(noff) ==
    [a \in 0..(NumPages(noff) * PageSize - 1) |->
        CASE a \in SegmentAddr(noff.initData) -> ReadSegment(noff, noff.initData, a)
          [] a \in SegmentAddr(noff.code) \ SegmentAddr(noff.initData) -> ReadSegment(noff, noff.code, a)
          [] OTHER -> Garbage]

\* Some byte of a segment is stored past the end of the array.
Overruns(noff) ==
    ~(SegmentAddr(noff.code) \cup SegmentAddr(noff.initData) \subseteq DOMAIN AddrSpace(noff))

-----------------------------------------------------------------------------
\* coff2flat: the pieces are written one after the other, then a blank word
\* at the end of the stack; what a seek skips reads as zero.
IsBss(s) == s.name \in {".bss", ".sbss"}

WritePiece(coff, out, s) ==
    CASE out.short \/ IsBss(s) -> out
      [] ~out.short /\ ~IsBss(s) /\ TooShort(coff, s) -> [out EXCEPT !.short = TRUE]
      [] OTHER -> [out EXCEPT !.bytes = @ \o Piece(coff, s)]

FlatPieces(coff) ==
    FoldLeft(LAMBDA out, s : WritePiece(coff, out, s), [bytes |-> <<>>, short |-> FALSE], coff.sections)

Top(coff) == Max({0} \cup {s.paddr + s.size : s \in ToSet(coff.sections)})

coff2flat(coff) ==
    LET out == FlatPieces(coff)
        blank == Top(coff) + FlatStackSize - 4
    IN  CASE ~coff.magic -> <<>>
          [] coff.magic /\ out.short -> [a \in 0..(Len(out.bytes) - 1) |-> out.bytes[a + 1]]
          [] OTHER -> [a \in 0..(Max({Len(out.bytes), blank + 4}) - 1) |->
                          IF a < Len(out.bytes) /\ a \notin blank..(blank + 3) THEN out.bytes[a + 1] ELSE 0]

\* load_program: the first section of every known name, if it has a file
\* position, goes to its address in a memory that starts out zero, in the order
\* of the calls; one that reaches the end of the memory ends the interpreter.
\* (The linker gives a section the same s_vaddr and s_paddr.)
LoadOrder == <<".text", ".rdata", ".data", ".sdata", ".sbss", ".bss">>

LOADSECTION(coff, memory, s) ==
    IF memory = <<>> \/ s.paddr + s.size >= Cardinality(DOMAIN memory) THEN <<>>
    ELSE [a \in DOMAIN memory |-> IF a \in Addresses(s) THEN coff.bytes[s.scnptr + (a - s.paddr) + 1] ELSE memory[a]]

LoadNamed(coff, memory, n) ==
    LET named == {k \in 1..Len(coff.sections) : coff.sections[k].name = n}
        head == coff.sections[Min(named)]
    IN  IF named = {} \/ head.scnptr = 0 THEN memory ELSE LOADSECTION(coff, memory, head)

load_program(coff, memsize) ==
    IF ~coff.magic THEN <<>>
    ELSE FoldLeft(LAMBDA memory, n : LoadNamed(coff, memory, n), [a \in 0..(memsize - 1) |-> 0], LoadOrder)

=============================================================================
