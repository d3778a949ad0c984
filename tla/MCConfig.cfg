SPECIFICATION Spec
CONSTANTS
  Key = {1, 2}
  Content <- MCContent
  Sections = {"standby", "maintenance_list", "halfhour_switch_setting"}
  ResContent = {"badEntry", "badTimer", "good"}
  Version <- MCVersion
  Segment = {"1", "2", "02", "x"}
  SegmentValue <- MCSegmentValue
  Padded = {"02"}
  MaxFiles = 2
  MaxImage = 3
  MaxDumps = 3
INVARIANTS
  MergedAsOrdered
  CloudNotOlder
CHECK_DEADLOCK FALSE
