SPECIFICATION DispatcherSpec
CONSTANTS
  EventId = {e1, e2}
  AnyId = any
  Handler = {h1, h2}
  Free = Free
  SubscriptionCapacity = 3
PROPERTY CalledInRegistrationOrder
CHECK_DEADLOCK FALSE
