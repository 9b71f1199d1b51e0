CONSTANTS
  NumSectors = 14
  SectorSize = 3
  NumDirect = 2
  NumDirEntries = 2
  FreeMapFileSize = 2
  DirectoryFileSize = 2
  PipeFileSize = 3
  Names = {n1, n2, n3}
  Sizes = {0, 2, 4, 13}
  Fds = {f1, f2}
  Positions = {1}
  Lengths = {8}
  MaxWrites = 2
  Unassigned <- SomeSectors
  Blank = Blank
  Pipe = Pipe
  NULL = NULL
SPECIFICATION FileSysSpec
INVARIANTS SectorsExact EntryHasHeaders
PROPERTIES ImplementsFileStore
SYMMETRY Symmetry
