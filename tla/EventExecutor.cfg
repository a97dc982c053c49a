SPECIFICATION Spec
CONSTANTS
  e1 = e1
  e2 = e2
  t1 = t1
  t2 = t2
  EventId <- MCEventId
  AnyId = any
  Handler = {h1}
  Free = Free
  SubscriptionCapacity = 1
  Item <- MCItem
  Unset = Unset
  Capacity = 2
  TimerId <- MCTimerId
  Inactive = Inactive
  TimerCapacity = 2
  MaxTick = 3
  Contracts <- MCContracts
  RefSize = 4
  Budget = 2
  TimerRequests <- MCRequests
  Published <- MCPublished
INVARIANTS UniqueIds EventsAccounted
PROPERTIES ImplementsAlarms NothingOverdue RunOnceReturns
