SPECIFICATION Spec
CONSTANTS
  Main = Main  w1 = w1  w2 = w2  w3 = w3  s1 = s1  a = a  b = b
  NULL = NULL  Junk = Junk
  Workers = {w1, w2, w3}
  Sems = {}
  InitValue <- NoSems
  Args <- MCArgs
  Program <- CreatorsProgram
  TickAt <- CreateTicks
  MaxDepth = 1
  Uninit = {NULL}
  MallocFails = FALSE
INVARIANTS TidsDistinct
