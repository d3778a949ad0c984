SPECIFICATION FairSpec
CONSTANTS
  NapSwitch = TRUE
  SleepSwitch = TRUE
  DetectMotion = TRUE
  HasSensor = TRUE
  NapInterval <- TwoIntervals
  SleepInterval <- OneInterval
  Events = {"SCREEN_ON", "SCREEN_OFF"}
  MaxQueue = 2
  MaxInflight = 1
  SlowTimers = TRUE
INVARIANTS
  LockHasReleaser
PROPERTIES
  EvaluationEnds
  StandbyMovesOn
  ScreenOnWakes
  SleepPhasesComplete
