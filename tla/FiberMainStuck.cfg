CONSTANTS
  NumThreads = 2
  NumFibers = 2
  Task <- ChainTasks
  Main = "main"
  Children <- ChainChildren
  Urgent <- NoPrograms
  Yielders <- NoPrograms
SPECIFICATION FairSpec
PROPERTY MainWaitReturns
