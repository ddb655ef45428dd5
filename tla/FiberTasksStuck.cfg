CONSTANTS
  NumThreads = 3
  NumFibers = 1
  Task <- ChainTasks
  Main = "main"
  Children <- ChainChildren
  Urgent <- NoPrograms
  Yielders <- NoPrograms
SPECIFICATION FairSpec
PROPERTY TasksFinish
CHECK_DEADLOCK FALSE
