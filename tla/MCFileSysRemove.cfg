CONSTANTS
  NumSectors = 14
  SectorSize = 3
  NumDirect = 2
  NumDirEntries = 2
  FreeMapFileSize = 2
  DirectoryFileSize = 2
  PipeFileSize = 3
  Names = {n1, n2, n3}
  Sizes = {2, 13}
  Fds = {f1}
  Positions = {1}
  Lengths = {8}
  MaxWrites = 2
  Unassigned <- SomeSectors
  Blank = Blank
  Pipe = Pipe
  NULL = NULL
SPECIFICATION FileSysSpec
INVARIANT OughtToBeMarked
