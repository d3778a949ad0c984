SPECIFICATION Spec
CONSTANTS
  Hour = 12
  Zone <- MCZone
  MaxDelay = 3
  Horizon = 1152
  MaxChanges = 1
INVARIANTS
  ConditionHeardInTime
  TimerWaitsForSwitch
CHECK_DEADLOCK FALSE
