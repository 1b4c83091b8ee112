SPECIFICATION CallsSpec
CONSTRAINT FewCalls
CONSTANTS
  n1 = n1  n2 = n2  x = x  y = y  MaxCalls = 12
  Names = {n1, n2}
  Empty = Empty
  DISK_BLOCKS = 5
  BLOCK_SIZE = 1
  EntriesPerBlock = 5
  MAX_FILES = 2
  MAX_FILDES = 2
  Zero = Zero
  Junk = Junk
  Data = {x}
  Buffers <- AnyBuffers
  Lengths = {}
  Offsets = {0, 1}
  Index <- ShortValues
  Around <- Zeros
  Overruns = {TRUE, FALSE}
  Faults <- AnyFaults
  Rules = {}
  MaxSize = 3
  MaxRefs = 1
INVARIANTS TypeOK TablesKept NamesSound
VIEW State
SYMMETRY Symmetry
