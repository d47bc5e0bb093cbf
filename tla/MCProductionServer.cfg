CONSTANTS
  r1 = r1
  r2 = r2
  Requests <- MCRequests
  Resources = {db, queue}
  MaxTasks <- MCMaxTasks
SPECIFICATION Spec
CHECK_DEADLOCK FALSE
INVARIANTS
  TypeOK
  NothingStranded
  CountIsExact
  CloseAwaitsStart
  CleanupAfterDrain
  SuccessMeansClean
  CallbacksAllRun
PROPERTIES
  NoHandlerWhileDraining
  NeverBack
  ImplementsGracefulShutdown
  SignalEndsProcess
