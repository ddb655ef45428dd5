CONSTANTS
  Thread = {t0, t1}
  Fiber = {f0, f1, f2}
  MainFiber = f0
  None = None
  Requests <- OneEach
  Deferred = {f1}
  LateRequests = FALSE
SPECIFICATION Spec
CHECK_DEADLOCK FALSE
INVARIANTS IInv RequestsAlive NumWaitingCounts NoLostNotification
