SPECIFICATION Spec
CONSTANTS
  Main = Main  w1 = w1  w2 = w2  w3 = w3  s1 = s1  a = a  b = b
  NULL = NULL  Junk = Junk
  Workers = {w1, w2}
  Sems = {s1}
  InitValue <- Empty
  Args <- MCArgs
  Program <- WaitersProgram
  TickAt <- QuietTicks
  MaxDepth = 1
  Uninit = {NULL}
  MallocFails = TRUE
INVARIANTS TokensNotLost QueueSound BlockedIsListed ExitsOnlyWhenStuck
