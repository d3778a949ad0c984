SPECIFICATION Spec
CONSTANTS
  App = {"app", "sys"}
  Pid = {"p", "s"}
  AppOf <- MCAppOf
  SystemApp = {"sys"}
  ForegroundApp = {"sys"}
  ConditionalApp = {}
  ResourceConfig = {}
  TaskService = {"WORK_SCHEDULER"}
  TasksOf <- MCTasksOf
  AllowsOf <- MCAllowsOf
  ClockRuns = FALSE
  MaxQueue = 2
  ScreenEvents = FALSE
  MaxLosses = 0
INVARIANTS
  ExemptNotProxied
CHECK_DEADLOCK FALSE
