SPECIFICATION Spec
CONSTANTS
  Prices = {1, 2}
  None = None
  Quotes <- MCQuotes
  MaxEvents = 4
  MaxFaults = 1
  batch_size = 2
  queue_capacity = 1
INVARIANTS ReplicaExact NoFalseAlarm SnapshotRoundTrip
PROPERTIES ListenEnds
CHECK_DEADLOCK FALSE
