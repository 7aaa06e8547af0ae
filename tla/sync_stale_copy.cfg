SPECIFICATION Spec
CONSTANTS
  Field <- MCField
  Value <- MCValue
  Record <- JustWorkOrder
  OpId <- MCOpId
  Handler = {h1, h2}
  AccessSet <- JustUser
  MaxSeq = 2
  Device = {d1}
  Desktop = {d1}
  LocalEdits <- WorkOrderEdits
  PullScope <- Everything
  RestEdits <- OfficeTitles
  BatchSize = 1
  PageLimit = 1
  MaxGap = 5
  MaxEdits = 0
  MaxFaults = 0
  WriteErrors = FALSE
INVARIANTS
  UneditedCopyFollowsFeed
CHECK_DEADLOCK FALSE
