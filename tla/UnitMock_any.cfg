SPECIFICATION Spec
CONSTANTS
  Units = {u1}
  RequestId = {0, 1, 2, 3}
  Handler = {h1}
  Null = Null
  WaitForResult = FALSE
INVARIANTS EveryInputAccounted DestroyAfterLastResult
PROPERTIES AcceptedIsReported DestroyReturns
CHECK_DEADLOCK FALSE
