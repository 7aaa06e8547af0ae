SPECIFICATION Spec
CONSTANTS
  Field <- MCField
  Value <- MCValue
  Record <- JustWorkOrder
  OpId <- MCOpId
  Handler = {h1, h2}
  AccessSet <- JustUser
  MaxSeq = 1
  Device = {d1}
  Desktop = {d1}
  LocalEdits <- WorkOrderEdits
  PullScope <- Everything
  RestEdits <- OfficeStatus
  BatchSize = 1
  PageLimit = 1
  MaxGap = 1
  MaxEdits = 2
  MaxFaults = 1
  WriteErrors = TRUE
INVARIANTS
  TypeOK
PROPERTIES
  QueuedWorkNotLost
CHECK_DEADLOCK FALSE
SYMMETRY HandlerSymmetry
