SPECIFICATION FairSpec
CONSTANTS
  NapSwitch = TRUE
  SleepSwitch = TRUE
  DetectMotion = TRUE
  HasSensor = TRUE
  NapInterval <- OneInterval
  SleepInterval <- OneInterval
  Events = {"SCREEN_ON", "SCREEN_OFF", "CHARGING", "DISCHARGING"}
  MaxQueue = 1
  MaxInflight = 1
  SlowTimers = TRUE
PROPERTIES
  ScreenOffGoesDark
