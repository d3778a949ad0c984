SPECIFICATION FairSpec
CONSTANTS
  Key = {k1}
  AllowType = {"NETWORK", "TIMER"}
  Pid = {p1}
  AppPid = {p1}
  NoPid = NoPid
  None = None
  MaxDuration <- Limits
  Exempted = {"NETWORK"}
  Duration = {1, 2}
  IntMax = 100
  MaxTime = 3
  MaxLag = 1
  MaxTasks = 2
  MaxRestart = 1
  Reboots = TRUE
INVARIANTS
  TypeOK
  RecordsConsistent
  ExpiryPending
  SubscribersAgreeInOneLife
PROPERTIES
  KeepsExemptionPromise
  ExemptionsKept
  ExemptionsEnd
