------------------------------ MODULE FileSys --------------------------------
(***************************************************************************)
(* The file system (filesys/filesys.cc) with its free map                  *)
(* (userprog/bitmap.cc), directory (filesys/directory.cc), file headers    *)
(* (filesys/filehdr.cc) and open files (filesys/openfile.cc).              *)
(*                                                                         *)
(* The disk is what it holds: a header or data in each sector, and, as the *)
(* contents of two files that are always open, the free map and the        *)
(* directory.  FileSystem::Create says that it "assumes there is no        *)
(* concurrent access", so there is one call at a time; Create and Remove   *)
(* are split at their writes to the disk, and the machine may stop there.  *)
(* A file name is a pointer in the directory, and it is good as long as    *)
(* the machine runs, because no caller frees it; after a restart it points *)
(* nowhere, so a restart is not modelled.                                  *)
(*                                                                         *)
(* A Create may overwrite a sector that is in use (AllocateExactFit).  It  *)
(* is followed to its end, but no call is made on the damaged disk.        *)
(***************************************************************************)
EXTENDS Integers, Sequences, FiniteSets, FiniteSetsExt

CONSTANTS
  NumSectors, SectorSize, NumDirect, NumDirEntries,
  FreeMapFileSize, DirectoryFileSize, PipeFileSize,
  Names, Sizes,          \* the arguments of Create
  Fds,                   \* open files
  Positions, Lengths,    \* the arguments of Seek, Read and Write
  MaxWrites,             \* bound on the calls of Write
  Unassigned,            \* what an int that was never assigned may hold: a
                         \* sector, or -1 for all that is none
  Blank, Pipe, NULL

ASSUME FileSysAssumption ==
  /\ {NumSectors, SectorSize, NumDirect, NumDirEntries} \subseteq Nat \ {0}
  /\ Sizes \cup Positions \cup Lengths \cup {MaxWrites} \subseteq Nat
  /\ Unassigned \subseteq (0..(NumSectors - 1)) \cup {-1}
  /\ Pipe \notin Names
  /\ \* the three files of the system have one header each
     \A size \in {FreeMapFileSize, DirectoryFileSize, PipeFileSize} :
       size \in 1..((NumDirect - 1) * SectorSize)

VARIABLES
  header,     \* the file header in each sector
  data,       \* the data in each sector
  freeMap,    \* contents of freeMapFile: the sectors that are marked
  directory,  \* contents of directoryFile
  opens,      \* the OpenFile of each descriptor
  op,         \* the call of Create or Remove that is under way
  mode,       \* "running", "aborted" by an ASSERT, or "damaged"
  answer,     \* what the latest Read returned
  writes      \* number of calls of Write

disk == <<header, data, freeMap, directory>>
fileSysVars ==
  <<header, data, freeMap, directory, opens, op, mode, answer, writes>>

Sector == 0..(NumSectors - 1)
FreeMapSector == 0
DirectorySector == 1
PipeSector == 2

Idle == [pc |-> "idle"]
Free == [inUse |-> FALSE, name |-> NULL, sector |-> -1]
NoHeader == [numBytes |-> -1, dataSectors |-> <<>>, nextFdrSector |-> -1]

\* What a sector holds as a header, what it holds as data, and an open file.
Header ==
  [numBytes : Nat \cup {-1},
   dataSectors : UNION {[0..(k - 1) -> Sector \cup {-1}] : k \in 0..NumDirect},
   nextFdrSector : Sector \cup {-1}]
Bytes == {Blank, NULL} \cup (Nat \X Nat)
OpenFile == [hdr : Header, seekPosition : Nat, hdrSector : Sector]

\* NULL is none of the values whose absence it stands for.
ASSUME NullAssumption ==
  /\ NULL \notin Seq(Bytes)
  /\ NULL \notin OpenFile
  /\ NULL \notin [file : Names, position : Nat]

DivRoundUp(n, s) == (n \div s) + (IF n % s > 0 THEN 1 ELSE 0)
LeastOf(a, b) == IF a < b THEN a ELSE b

-----------------------------------------------------------------------------
(* The bit map                                                             *)

NumClear(map) == Cardinality(Sector \ map)

\* What BitMap::Find answers when it is called for the (k+1)st time in a row.
Find(map, k) ==
  LET clear == Sector \ map
  IN  IF k < Cardinality(clear)
      THEN CHOOSE s \in clear : Cardinality({r \in clear : r < s}) = k
      ELSE -1

-----------------------------------------------------------------------------
(* The file header                                                         *)

DataSectors(size) == DivRoundUp(size, SectorSize)

\* The number of headers that Allocate chains to the first one.
Chained(n) == IF n = 0 THEN 0 ELSE (n - 1) \div NumDirect

\* The test of Allocate counts data sectors only.
Fits(map, size) == NumClear(map) >= DataSectors(size)

\* The j-th header that Allocate fills in.  Find is called once for each data
\* sector and, before the first of each further header, once for that header.
NewHeader(map, size, j) ==
  LET n == DataSectors(size)
  IN  [numBytes |-> size,
       dataSectors |->
         [i \in 0..(LeastOf(NumDirect, n - j * NumDirect) - 1) |->
            Find(map, j * NumDirect + i + j)],
       nextFdrSector |->
         IF j = Chained(n) THEN -1 ELSE Find(map, (j + 1) * NumDirect + j)]

\* The sector of the j-th header, for j > 0.
ChainSector(map, j) == Find(map, j * NumDirect + j - 1)

MarksDataOnly(map, size) ==  \* mutant of Marked: headers not marked
  map \cup {Find(map, k) : k \in 0..(DataSectors(size) - 1)}
Marked(map, size) ==
  LET n == DataSectors(size)
  IN  (map \cup {Find(map, k) : k \in 0..(n + Chained(n) - 1)}) \ {-1}

\* The header that is j further in the chain of hdr.
FollowChain(hdr, j) ==
  LET follow[k \in 0..j] ==
        IF k = 0 THEN hdr ELSE header[follow[k - 1].nextFdrSector]
  IN  follow[j]

\* FileHeader::ByteToSector(i * SectorSize)
ByteToSector(hdr, i) ==
  FollowChain(hdr, i \div NumDirect).dataSectors[i % NumDirect]

\* The file whose first header is in sector r: the numbers of its sectors,
\* those for which Allocate found none, and the sectors that hold its data.
Indices(r) == 0..(DataSectors(header[r].numBytes) - 1)
Lacking(r) == {i \in Indices(r) : ByteToSector(header[r], i) = -1}
DataOf(r) == {ByteToSector(header[r], i) : i \in Indices(r) \ Lacking(r)}

-----------------------------------------------------------------------------
(* The directory                                                           *)

FindIndex(name) ==
  {i \in 1..NumDirEntries : directory[i].inUse /\ directory[i].name = name}
Unused == {i \in 1..NumDirEntries : ~directory[i].inUse}
DirectoryFind(name) ==
  IF FindIndex(name) = {} THEN -1 ELSE directory[Min(FindIndex(name))].sector
Add(name, sector) ==
  [directory EXCEPT
     ![Min(Unused)] = [inUse |-> TRUE, name |-> name, sector |-> sector]]

-----------------------------------------------------------------------------
(* FileSystem::FileSystem, with format = TRUE                              *)

\* It asserts that Allocate succeeds for each of the three files.
ASSUME FormatAssumption ==
  NumSectors >= 3 + DataSectors(FreeMapFileSize)
                  + DataSectors(DirectoryFileSize) + DataSectors(PipeFileSize)

FileSysInit ==
  LET map0 == {FreeMapSector, DirectorySector, PipeSector}
      map1 == Marked(map0, FreeMapFileSize)
      map2 == Marked(map1, DirectoryFileSize)
  IN  /\ header = [s \in Sector |->
           CASE s = FreeMapSector   -> NewHeader(map0, FreeMapFileSize, 0)
             [] s = DirectorySector -> NewHeader(map1, DirectoryFileSize, 0)
             [] s = PipeSector      -> NewHeader(map2, PipeFileSize, 0)
             [] OTHER               -> NoHeader]
      /\ data = [s \in Sector |-> [i \in 1..SectorSize |-> Blank]]
      /\ freeMap = Marked(map2, PipeFileSize)
      /\ directory = [i \in 1..NumDirEntries |-> Free]
      /\ opens = [fd \in Fds |-> NULL]
      /\ op = Idle
      /\ mode = "running"
      /\ answer = <<>>
      /\ writes = 0

-----------------------------------------------------------------------------
(* FileSystem::Create                                                      *)

Ready == op = Idle /\ mode = "running"

\* The reasons for which Create returns FALSE.
Refused(name, size) ==
  LET sector == Find(freeMap, 0)
  IN  \/ DirectoryFind(name) # -1
      \/ sector = -1
      \/ Unused = {}
      \/ ~Fits(freeMap \cup {sector}, size)

\* A call of Create once Allocate has written the chained headers up to the
\* j-th: the next of them follows, or the first header, which Create writes.
HeaderForgotten(call, j) ==  \* mutant: Create does not write it
  IF j < Chained(DataSectors(call.size))
  THEN [call EXCEPT !.pc = "AllocateChained", !.next = j + 1]
  ELSE [call EXCEPT !.pc = "WriteDirectory"]
After(call, j) ==
  IF j < Chained(DataSectors(call.size))
  THEN [call EXCEPT !.pc = "AllocateChained", !.next = j + 1]
  ELSE [call EXCEPT !.pc = "WriteHeader"]

\* Everything up to the first write.  The free map and the directory are
\* copies in memory until they are written back.
Create(name, size) ==
  LET sector == Find(freeMap, 0)
      call   == [pc |-> "AllocateExactFit", next |-> 0, sector |-> sector,
                 size |-> size, map |-> freeMap \cup {sector},
                 directory |-> Add(name, sector)]
  IN  /\ Ready
      /\ ~Refused(name, size)
      /\ op' = IF DataSectors(size) = NumDirect THEN call ELSE After(call, 0)
      /\ answer' = <<>>
      /\ UNCHANGED <<disk, opens, mode, writes>>

\* A call that returns FALSE: it changed copies in memory only, so it does not
\* matter which one it was.
CreateFails ==
  /\ Ready
  /\ {call \in Names \X Sizes : Refused(call[1], call[2])} # {}
  /\ answer' = <<>>
  /\ UNCHANGED <<disk, opens, op, mode, writes>>

\* The next header that Allocate writes itself: all but the first, in order.
\* If there was no sector left for it, the disk's ASSERT stops the machine.
AllocateChained ==
  LET s == ChainSector(op.map, op.next)
  IN  /\ op.pc = "AllocateChained"
      /\ mode = "running"
      /\ IF s = -1
         THEN mode' = "aborted" /\ UNCHANGED <<header, op>>
         ELSE /\ header' = [header EXCEPT
                              ![s] = NewHeader(op.map, op.size, op.next)]
              /\ op' = After(op, op.next)
              /\ UNCHANGED mode
      /\ UNCHANGED <<data, freeMap, directory, opens, answer, writes>>

\* With exactly NumDirect sectors there is no further header, but the last
\* one is written all the same, to a cur_sector that was never assigned: past
\* the disk (-1), into a free sector, or into one that is in use.  What the
\* sector held is lost; the contents of the free map and the directory are
\* written anew before they are read again.
AllocateExactFit ==
  /\ op.pc = "AllocateExactFit"
  /\ mode = "running"
  /\ \E s \in Unassigned :
       IF s = -1
       THEN mode' = "aborted" /\ UNCHANGED <<disk, op>>
       ELSE /\ header' = [header EXCEPT ![s] = NewHeader(op.map, op.size, 0)]
            /\ data' = [data EXCEPT ![s] = [i \in 1..SectorSize |-> NULL]]
            /\ freeMap' = IF s \in DataOf(FreeMapSector) THEN NULL ELSE freeMap
            /\ directory' = IF s \in DataOf(DirectorySector) THEN NULL
                            ELSE directory
            /\ mode' = IF s \in freeMap THEN "damaged" ELSE mode
            /\ op' = After(op, 0)
  /\ UNCHANGED <<opens, answer, writes>>

Flush(from, to) ==
  /\ op.pc = from
  /\ mode # "aborted"
  /\ op' = to
  /\ UNCHANGED <<data, opens, mode, answer, writes>>

WriteHeader ==
  /\ Flush("WriteHeader", [op EXCEPT !.pc = "WriteDirectory"])
  /\ header' = [header EXCEPT ![op.sector] = NewHeader(op.map, op.size, 0)]
  /\ UNCHANGED <<freeMap, directory>>

WriteDirectory ==
  /\ Flush("WriteDirectory", [op EXCEPT !.pc = "WriteFreeMap"])
  /\ directory' = op.directory
  /\ UNCHANGED <<header, freeMap>>

WriteFreeMap ==
  /\ Flush("WriteFreeMap", Idle)
  /\ freeMap' = Marked(op.map, op.size)
  /\ UNCHANGED <<header, directory>>

-----------------------------------------------------------------------------
(* FileSystem::Remove, up to FileHeader::Deallocate.  The break of          *)
(* Deallocate leaves its inner loop only, so what follows is never reached. *)

Remove(name) ==
  LET sector == DirectoryFind(name)
  IN  /\ Ready
      /\ op' = IF sector = -1 THEN Idle
               ELSE [pc |-> "Deallocate", map |-> freeMap, i |-> 0,
                     numSectors |-> DataSectors(header[sector].numBytes),
                     hdr |-> header[sector]]
      /\ answer' = <<>>
      /\ UNCHANGED <<disk, opens, mode, writes>>

\* The sector that the loop looks at; an entry that Allocate did not assign may
\* hold anything.
ToClear ==
  LET i == op.i % NumDirect
  IN  IF i \in DOMAIN op.hdr.dataSectors THEN {op.hdr.dataSectors[i]}
                                         ELSE Unassigned

Deallocate ==
  /\ op.pc = "Deallocate"
  /\ mode = "running"
  /\ op.i < op.numSectors
  /\ \E s \in ToClear :
       IF s \notin op.map
       THEN mode' = "aborted" /\ UNCHANGED op
       ELSE /\ op' = IF op.hdr.nextFdrSector = -1
                     THEN [op EXCEPT !.map = @ \ {s}, !.i = 0]
                     ELSE [op EXCEPT !.map = @ \ {s}, !.i = @ + 1,
                                     !.hdr = header[op.hdr.nextFdrSector]]
            /\ UNCHANGED mode
  /\ UNCHANGED <<disk, opens, answer, writes>>

\* A file without sectors: the outer loop goes round for ever.
DeallocateNothing ==
  /\ op.pc = "Deallocate"
  /\ op.i >= op.numSectors
  /\ UNCHANGED fileSysVars

-----------------------------------------------------------------------------
(* Open files                                                              *)

Open(fd, name) ==
  LET sector == DirectoryFind(name)
  IN  /\ Ready
      /\ opens[fd] = NULL
      /\ opens' = IF sector = -1 THEN opens
                  ELSE [opens EXCEPT ![fd] = [hdr |-> header[sector],
                                              seekPosition |-> 0,
                                              hdrSector |-> sector]]
      /\ answer' = <<>>
      /\ UNCHANGED <<disk, op, mode, writes>>

Close(fd) ==
  /\ Ready
  /\ opens[fd] # NULL
  /\ opens' = [opens EXCEPT ![fd] = NULL]
  /\ answer' = <<>>
  /\ UNCHANGED <<disk, op, mode, writes>>

Seek(fd, position) ==
  /\ Ready
  /\ opens[fd] # NULL
  /\ opens' = [opens EXCEPT ![fd].seekPosition = position]
  /\ answer' = <<>>
  /\ UNCHANGED <<disk, op, mode, writes>>

\* The number of bytes that ReadAt and WriteAt transfer.
Transfer(hdr, numBytes, position) ==
  IF position >= hdr.numBytes THEN 0
  ELSE LeastOf(numBytes, hdr.numBytes - position)

\* The sectors of the file that hold n bytes from position on, if n > 0.
Span(position, n) ==
  (position \div SectorSize)..((position + n - 1) \div SectorSize)

\* The sectors of the file that a transfer touches.
Touched(hdr, numBytes, position) ==
  LET n == Transfer(hdr, numBytes, position)
  IN  IF n = 0 THEN {} ELSE Span(position, n)

ByteAt(hdr, p) ==
  data[ByteToSector(hdr, p \div SectorSize)][(p % SectorSize) + 1]

\* The disk stops the machine if it is asked for sector -1.
Missing(hdr, sectors) == \E i \in sectors : ByteToSector(hdr, i) = -1

\* OpenFile::ReadAt
ReadAt(hdr, numBytes, position) ==
  [k \in 1..Transfer(hdr, numBytes, position) |-> ByteAt(hdr, position + k - 1)]

\* The sectors that are written in part only and that WriteAt reads first.
ReadFirstOnly(position, n) ==  \* mutant of ReadBefore: the last one forgotten
  {i \in {position \div SectorSize} : position # i * SectorSize}
ReadBefore(position, n) ==
  LET first == position \div SectorSize
      last  == (position + n - 1) \div SectorSize
      firstAligned == position = first * SectorSize
      lastAligned  == position + n = (last + 1) * SectorSize
  IN  {i \in {first} : ~firstAligned}
        \cup {i \in {last} : ~lastAligned /\ (first # last \/ firstAligned)}

\* What OpenFile::WriteAt leaves in the sectors.  What its buffer holds beyond
\* the end of the file, or of a sector that was not read before, is whatever
\* the heap held.
WriteAt(hdr, from, position) ==
  LET n == Transfer(hdr, Len(from), position)
      before == ReadBefore(position, n)
      buf(p) == IF p - position \in 0..(n - 1) THEN from[p - position + 1]
                ELSE IF p \div SectorSize \in before /\ p < hdr.numBytes
                THEN ByteAt(hdr, p)
                ELSE NULL
  IN  [s \in Sector |->
         LET index == {i \in Span(position, n) : ByteToSector(hdr, i) = s}
         IN  IF index = {} THEN data[s]
             ELSE [k \in 1..SectorSize |->
                     buf(Min(index) * SectorSize + k - 1)]]

\* The bytes of the next call of Write: no two bytes written are the same.
Fresh(n) == [k \in 1..n |-> <<writes + 1, k>>]

\* OpenFile::Read and OpenFile::Write end with this: the position moves on and
\* the header is written back.
Advance(fd, numBytes) ==
  LET f == opens[fd]
  IN  /\ opens' = [opens EXCEPT ![fd].seekPosition =
                     @ + Transfer(f.hdr, numBytes, @)]
      /\ header' = [header EXCEPT ![f.hdrSector] = f.hdr]

Read(fd, numBytes) ==
  LET f == opens[fd]
  IN  /\ Ready
      /\ f # NULL
      /\ ~Missing(f.hdr, Touched(f.hdr, numBytes, f.seekPosition))
      /\ answer' = ReadAt(f.hdr, numBytes, f.seekPosition)
      /\ Advance(fd, numBytes)
      /\ UNCHANGED <<data, freeMap, directory, op, mode, writes>>

Write(fd, numBytes) ==
  LET f == opens[fd]
  IN  /\ Ready
      /\ f # NULL
      /\ writes < MaxWrites
      /\ ~Missing(f.hdr, Touched(f.hdr, numBytes, f.seekPosition))
      /\ data' = IF Touched(f.hdr, numBytes, f.seekPosition) = {} THEN data
                 ELSE WriteAt(f.hdr, Fresh(numBytes), f.seekPosition)
      /\ Advance(fd, numBytes)
      /\ writes' = writes + 1
      /\ answer' = <<>>
      /\ UNCHANGED <<freeMap, directory, op, mode>>

\* The transfer needs a sector that the file lacks.  Read stops before it
\* returns anything; Write stops before it writes anything if that sector was
\* to be read first, and otherwise after the sectors before it.
ReadAborts(fd, numBytes) ==
  LET f == opens[fd]
  IN  /\ Ready
      /\ f # NULL
      /\ Missing(f.hdr, Touched(f.hdr, numBytes, f.seekPosition))
      /\ mode' = "aborted"
      /\ answer' = <<>>
      /\ UNCHANGED <<disk, opens, op, writes>>

WriteAborts(fd, numBytes) ==
  LET f == opens[fd]
      n == Transfer(f.hdr, numBytes, f.seekPosition)
  IN  /\ Ready
      /\ f # NULL
      /\ writes < MaxWrites
      /\ Missing(f.hdr, Touched(f.hdr, numBytes, f.seekPosition))
      /\ data' = IF Missing(f.hdr, ReadBefore(f.seekPosition, n)) THEN data
                 ELSE WriteAt(f.hdr, Fresh(numBytes), f.seekPosition)
      /\ mode' = "aborted"
      /\ answer' = <<>>
      /\ UNCHANGED <<header, freeMap, directory, opens, op, writes>>

\* FileSystem::ReadPipe and WritePipe open the pipe's file anew.
ReadPipe(numBytes) ==
  /\ Ready
  /\ answer' = ReadAt(header[PipeSector], numBytes, 0)
  /\ UNCHANGED <<disk, opens, op, mode, writes>>

WritePipe(numBytes) ==
  /\ Ready
  /\ writes < MaxWrites
  /\ data' = WriteAt(header[PipeSector], Fresh(numBytes), 0)
  /\ writes' = writes + 1
  /\ answer' = <<>>
  /\ UNCHANGED <<header, freeMap, directory, opens, op, mode>>

\* The machine has stopped, or is not followed any further.
Stopped ==
  /\ mode = "aborted" \/ (mode = "damaged" /\ op = Idle)
  /\ UNCHANGED fileSysVars

FileSysNext ==
  \/ \E name \in Names :
       \/ \E size \in Sizes : Create(name, size)
       \/ Remove(name)
       \/ \E fd \in Fds : Open(fd, name)
  \/ CreateFails
  \/ AllocateChained
  \/ AllocateExactFit
  \/ WriteHeader
  \/ WriteDirectory
  \/ WriteFreeMap
  \/ Deallocate
  \/ DeallocateNothing
  \/ \E fd \in Fds :
       \/ Close(fd)
       \/ \E position \in Positions : Seek(fd, position)
       \/ \E n \in Lengths :
            \/ Read(fd, n) \/ ReadAborts(fd, n)
            \/ Write(fd, n) \/ WriteAborts(fd, n)
  \/ \E n \in Lengths : ReadPipe(n) \/ WritePipe(n)
  \/ Stopped

FileSysSpec == FileSysInit /\ [][FileSysNext]_fileSysVars

-----------------------------------------------------------------------------
(* Correctness                                                             *)

\* The headers by which the files on the disk are reached.
Roots ==
  {FreeMapSector, DirectorySector, PipeSector}
    \cup {directory[i].sector : i \in 1..NumDirEntries \ Unused}

ChainOf(r) ==
  {FollowChain(header[r], j).nextFdrSector :
     j \in 0..(Chained(DataSectors(header[r].numBytes)) - 1)}
SectorsOf(r) == {r} \cup ChainOf(r) \cup DataOf(r)
NumSectorsOf(r) ==
  1 + Chained(DataSectors(header[r].numBytes))
    + Cardinality(Indices(r) \ Lacking(r))

\* Between two calls the free map marks exactly the sectors that the files
\* occupy with their headers and data, and no sector is counted twice: files
\* do not overlap, and a call of Create that fails leaves nothing marked
\* (FileSystem::Create, FileHeader::Allocate).  It is claimed as long as no
\* Create has overwritten a sector in use; that one may is CreatedWhole.
SectorsExact ==
  (op = Idle /\ mode # "damaged") =>
    /\ freeMap = UNION {SectorsOf(r) : r \in Roots}
    /\ \A r, q \in Roots : r # q => SectorsOf(r) \cap SectorsOf(q) = {}
    /\ \A r \in Roots : Cardinality(SectorsOf(r)) = NumSectorsOf(r)

\* Wherever the machine stops, a name in the directory leads to a complete
\* chain of headers, and its sectors are marked in the free map, except those
\* of the file that Create was about to flush the map for
\* (filesys.cc:208-210); up to a Create that overwrites a sector in use.
EntryHasHeaders ==
  mode # "damaged" => \A r \in Roots :
    /\ header[r] # NoHeader
    /\ \A s \in ChainOf(r) : header[s] # NoHeader
    /\ SectorsOf(r) \subseteq freeMap
         \/ (op # Idle /\ op.pc = "WriteFreeMap" /\ op.sector = r)

\* Allocate is to take "data blocks for the file out of the map of free disk
\* blocks" and to "return FALSE if there are not enough free blocks to
\* accomodate the new file" (filehdr.cc:33-34), and Create is to fail for "no
\* free space for data blocks for the file" (filesys.cc:168): once a call has
\* returned, no sector in use has been overwritten and every file in the
\* directory has all its data sectors.
CreatedWhole ==
  op = Idle => mode # "damaged" /\ \A r \in Roots : Lacking(r) = {}

\* What the ASSERT of Deallocate says of the sectors of a file that is being
\* removed: "ought to be marked!" (filehdr.cc:85).
OughtToBeMarked ==
  (op # Idle /\ op.pc = "Deallocate" /\ op.i < op.numSectors) =>
    ToClear \subseteq op.map

EntryOf(sector) ==
  CHOOSE i \in 1..NumDirEntries :
    directory[i].inUse /\ directory[i].sector = sector
Contents(r) ==
  [k \in 1..header[r].numBytes |->
     IF ByteToSector(header[r], (k - 1) \div SectorSize) = -1 THEN Blank
     ELSE ByteAt(header[r], k - 1)]
StoredContents ==
  [f \in Names \cup {Pipe} |->
     IF f = Pipe THEN Contents(PipeSector)
     ELSE IF FindIndex(f) = {} THEN NULL
     ELSE Contents(DirectoryFind(f))]
StoredAt ==
  [fd \in Fds |->
     IF opens[fd] = NULL THEN NULL
     ELSE [file |-> directory[EntryOf(opens[fd].hdrSector)].name,
           position |-> opens[fd].seekPosition]]
Store == INSTANCE FileStore WITH
  File <- Names \cup {Pipe},
  Byte <- [n \in Lengths |-> {[k \in 1..n |-> <<w, k>>] : w \in 1..MaxWrites}],
  contents <- StoredContents,
  at <- StoredAt,
  answer <- answer

\* The file system implements module FileStore: calls of Read return what was
\* written last at that place of that file, by whichever descriptor, and a
\* Write changes nothing else (OpenFile::ReadAt, OpenFile::WriteAt).  A sector
\* that a file lacks holds no bytes; reading it stops the machine.  It is
\* claimed of every step up to a Create that overwrites a sector in use.
ImplementsFileStore ==
  /\ Store!StoreInit
  /\ [][mode' # "damaged" => Store!StoreNext]_<<StoredContents, StoredAt, answer>>
=============================================================================
