SPECIFICATION WorkflowsSpec
CONSTANTS
  u1 = u1
  u2 = u2
  Units <- MCUnits
  RequestId <- MCRequestId
  Handler = {publisher, freed}
  Publisher = publisher
  FreedPublisher = freed
  Null = Null
  Catalogs <- MCCatalogs
  Builtin <- MCBuiltin
  ControlIds = {2, 3}
  IdSpace = 5
  ClockSpace = 7
  QueueCapacity = 7
  Budget = 3
  MaxDepth = 8
  U32Max = 4
  U64Max = 6
  SchemaVersion = 1
  Descriptions = {}
  BrokenFiles = {}
  UnitCount = 2
  UnitOf <- MCUnitOf
  FeatureA = 1
  MaxAllocations = 15
PROPERTY ContextOutlivesCallbacks
CHECK_DEADLOCK FALSE
