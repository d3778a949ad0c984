SPECIFICATION FairSpec
CONSTANTS
  Depend = {"TIME_SERVICE", "MULTIMODAL_INPUT_SERVICE", "APP_MGR_SERVICE"}
  MaxFaults = 2
  MaxQueue = 1
  ScreenEvents = TRUE
INVARIANTS
  TypeOK
  ReadyFollowsDepends
  HandlesAreCurrent
  DayNightArmed
  BgTasksHeard
  
PROPERTIES
  BecomesReady
CHECK_DEADLOCK FALSE
