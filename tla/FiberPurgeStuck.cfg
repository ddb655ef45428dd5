CONSTANTS
  NumThreads = 3
  NumFibers = 1
  Task <- OneTasks
  Main = "main"
  Children <- OneChildren
  Urgent <- NoPrograms
  Yielders <- NoPrograms
SPECIFICATION Spec
INVARIANT JoinNotStuck
