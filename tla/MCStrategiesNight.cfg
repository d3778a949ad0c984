SPECIFICATION Spec
CONSTANTS
  App = {"app", "sys"}
  Pid = {"p", "s"}
  AppOf <- MCAppOf
  SystemApp = {"sys"}
  ForegroundApp = {"sys"}
  ConditionalApp = {"app"}
  ResourceConfig <- MCResourceConfig
  TaskService = {}
  TasksOf <- MCContinuous
  AllowsOf <- MCAllowsOf
  ClockRuns = TRUE
  MaxQueue = 2
  ScreenEvents = FALSE
  MaxLosses = 0
INVARIANTS
  ProxiedMatchesTable
  TrustHasReason
CHECK_DEADLOCK FALSE
