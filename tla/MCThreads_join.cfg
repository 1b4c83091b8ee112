SPECIFICATION FairSpec
CONSTANTS
  Main = Main  w1 = w1  w2 = w2  w3 = w3  s1 = s1  a = a  b = b
  NULL = NULL  Junk = Junk
  Workers = {w1, w2, w3}
  Sems = {s1}
  InitValue <- Empty
  Args <- MCArgs
  Program <- JoinProgram
  TickAt <- QuietTicks
  MaxDepth = 1
  Uninit = {NULL}
  MallocFails = FALSE
INVARIANTS RingSound ReadyIsResumable TidsDistinct JoinSeesExit TokensConserved NoStrandedWaiter
PROPERTIES MainGetsDone
