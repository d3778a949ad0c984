SPECIFICATION Spec
CONSTANTS
  NapSwitch = TRUE
  SleepSwitch = TRUE
  DetectMotion = TRUE
  HasSensor = TRUE
  NapInterval <- OneInterval
  SleepInterval <- OneInterval
  Events = {"SCREEN_ON", "SCREEN_OFF", "CHARGING", "DISCHARGING", "ENTER_FORCE_SLEEP"}
  MaxQueue = 2
  MaxInflight = 1
  SlowTimers = FALSE
INVARIANTS
  TypeOK
  EvalFlagsAgree
  SensorOnlyWhileEvaluating
  TimersOwned
  PhaseTasksOwned
