SPECIFICATION Spec
CONSTANTS
  App = {"app", "sys"}
  Pid = {"p", "s"}
  AppOf <- MCAppOf
  SystemApp = {"sys"}
  ForegroundApp = {"sys"}
  ConditionalApp = {"app"}
  ResourceConfig <- MCResourceConfig
  TaskService = {"WORK_SCHEDULER"}
  TasksOf <- MCTasksOf
  AllowsOf <- MCAllowsOf
  ClockRuns = FALSE
  MaxQueue = 2
  ScreenEvents = TRUE
  MaxLosses = 1
INVARIANTS
  AwakeNotProxied
  TableKnowsProcesses
  ExemptionEndsWithTask
  AllowedIsTrusted
  AwakeNotLimited
CHECK_DEADLOCK FALSE
