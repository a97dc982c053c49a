SPECIFICATION Spec
CONSTANTS
  Item = {j1, j2, j3, j4}
  Unset = NoJob
  Capacity = 2
  WorkerCount = 3
INVARIANTS
  JobOrder StartedRunsOnce JoinedIsSettled
  NoWorkerWithoutPrimitives WakeupsSuffice
PROPERTIES AcceptedIsSettled ShutdownEndsWorkers
CHECK_DEADLOCK FALSE
