SPECIFICATION Spec
CONSTANTS
  Main = Main  w1 = w1  w2 = w2  w3 = w3  s1 = s1  a = a  b = b
  NULL = NULL  Junk = Junk
  Workers = {w1}
  Sems = {}
  InitValue <- NoSems
  Args <- MCArgs
  Program <- PairProgram
  TickAt <- NestedTicks
  MaxDepth = 2
  Uninit = {NULL}
  MallocFails = FALSE
INVARIANTS SavesOwnContext
