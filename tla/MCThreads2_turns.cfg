SPECIFICATION FairSpec
CONSTANTS
  Main = Main  w1 = w1  w2 = w2  w3 = w3  w4 = w4
  NULL = NULL  Junk = Junk
  Workers = {w1, w2, w3, w4}
  Args <- MCArgs
  Program <- MainProgram
  TickAt <- OuterTicks
  MaxDepth = 1
  Uninit = {Junk}
  MallocFails = TRUE
INVARIANTS TypeOK
PROPERTIES ImplementsRoundRobin NoStarvation ExitIsFinal
