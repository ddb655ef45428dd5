CONSTANTS
  Thread = {t0}
  Fiber = {f0, f1}
  MainFiber = f0
  None = None
  Requests <- OneEach
  Deferred = {f1}
  LateRequests = FALSE
SPECIFICATION FairSpec
CHECK_DEADLOCK FALSE
PROPERTY RequestersResume
