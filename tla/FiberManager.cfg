CONSTANTS
  NumThreads = 2
  NumFibers = 2
  Task <- TreeTasks
  Main = "main"
  Children <- TreeChildren
  Urgent <- TreeUrgent
  Yielders <- TreeYielders
SPECIFICATION FairSpec
INVARIANTS IInv FiberInOnePlace CurrentFiberRuns CounterCountsTasks NumTasksCounts
PROPERTIES ImplementsTaskPool TasksFinish
