SPECIFICATION Spec
CONSTANTS
  Main = Main  w1 = w1  w2 = w2  w3 = w3  s1 = s1  a = a  b = b
  NULL = NULL  Junk = Junk
  Workers = {w1, w2, w3}
  Sems = {s1}
  InitValue <- Empty
  Args <- MCArgs
  Program <- AnyProgram
  TickAt <- OuterTicks
  MaxDepth = 1
  Uninit = {Junk, NULL}
  MallocFails = FALSE
INVARIANTS TypeOK RunningIsCurrent OneRunning
PROPERTIES TerminatedIsFinal NoReturnToFreedStack WakesInOrder
CHECK_DEADLOCK FALSE
