SPECIFICATION FoundationSpec
CONSTANTS
  e1 = e1
  e2 = e2
  e3 = e3
  w1 = w1
  w2 = w2
  s1 = s1
  s2 = s2
  s3 = s3
  start = start
  done = done
  Item = {e1, e2, e3}
  Unset = Unset
  Capacity = 3
  LogCapacity = 2
  Level = {0, 1}
  Writer = {w1, w2}
  Setting <- MCSetting
  NoRecord = NoRecord
  MaxSequence = 4
  States = {s1, s2, s3}
  Transitions <- MCTransitions
  InitialState = s1
  AnyState = AnyState
  AnyEvent = AnyEvent
  MachineEvent = {start, done}
  GuardsDispatch = FALSE
  MaxNesting = 3
  NsPerSecond = 3
  MaxInt = 3
  NoTime = NoTime
  Source = {rtc, ntp}
  UnknownSource = unknown
  SyncTime <- MCSyncTime
  Policy <- MCPolicy
  Fixed = fixed
  Exponential = exponential
  ByteBase = 2
  MaxId = 5
INVARIANTS RingCoherent MachineAsObserved AnswersKeepPace
PROPERTIES ImplementsFifo ImplementsLogTail ReaderMovesForward BackoffGrows
