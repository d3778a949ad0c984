SPECIFICATION Spec
CONSTANTS
  Client = {c1}
  Module = {"module", "other"}
  ModuleOf <- OneModule
  Deployed = {c1}
  Value = {1, 2}
  MaxDate = 2
  MaxLife = 2
  MaxReports = 2
INVARIANTS
  ReportsReachSubscribers
  YesterdayForgotten
  DeadAreForgotten
  StaleProxyIsDropped
CHECK_DEADLOCK FALSE
