SPECIFICATION Spec
CONSTANTS
  Deposit = {1, 2}
  Limits = {1, 2}
  MaxHistory = 2
  MaxFaults = 1
INVARIANTS
  StatusIsFinal
  OneInFlight
  NoGap
PROPERTIES
  LifecycleSpec
  Settles
CHECK_DEADLOCK FALSE
