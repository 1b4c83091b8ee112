SPECIFICATION Spec
CONSTANTS
  n1 = n1  n2 = n2  x = x  y = y
  Names = {n1, n2}
  Empty = Empty
  DISK_BLOCKS = 12
  BLOCK_SIZE = 2
  EntriesPerBlock = 6
  MAX_FILES = 2
  MAX_FILDES = 2
  Zero = Zero
  Junk = Junk
  Data = {x, y}
  Buffers <- ShortBuffers
  Lengths = {2}
  Offsets = {0, 1}
  Index <- ShortValues
  Around <- Entries
  Overruns = {FALSE}
  Faults <- SomeFaults
  Rules <- AllRules
  MaxSize = 2
  MaxRefs = 1
INVARIANTS BlocksOwned  OpenNotDeleted
PROPERTY ImplementsFileStore
SYMMETRY Symmetry
VIEW LiveState
