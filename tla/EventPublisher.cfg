SPECIFICATION Spec
CONSTANTS
  e1 = e1
  e2 = e2
  p1 = p1
  p2 = p2
  EventId <- MCEventId
  AnyId = any
  Handler = {h1}
  Free = Free
  SubscriptionCapacity = 3
  Copied <- MCCopied
  Bare <- MCBare
  NoPayload = NoPayload
  Budget = 2
  Item <- MCItem
  Unset = Unset
  Capacity = 2
INVARIANTS SlotsMatchDescriptors
PROPERTIES ImplementsChannel PendingIsDelivered CalledInRegistrationOrder
