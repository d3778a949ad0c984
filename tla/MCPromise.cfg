SPECIFICATION Spec
CONSTANTS
  NapSwitch = TRUE
  SleepSwitch = TRUE
  DetectMotion = TRUE
  HasSensor = TRUE
  NapInterval <- OneInterval
  SleepInterval <- OneInterval
  Events = {"SCREEN_ON", "SCREEN_OFF", "CHARGING", "DISCHARGING", "USER_SLEEP", "ENTER_FORCE_SLEEP", "USER_AWAKE"}
  MaxQueue = 2
  MaxInflight = 1
  SlowTimers = TRUE
PROPERTIES
  KeepsPromise
