SPECIFICATION FairSpec
CONSTANTS
  Field <- MCField
  Value <- MCValue
  Record <- WithShiftLog
  OpId <- MCOpId
  Handler = {h1, h2}
  AccessSet <- Users
  MaxSeq = 1
  Device = {d1}
  Desktop = {}
  LocalEdits <- ShiftLogEdits
  PullScope <- Everything
  RestEdits <- OfficeOnShift
  BatchSize = 1
  PageLimit = 1
  MaxGap = 5
  MaxEdits = 1
  MaxFaults = 1
  WriteErrors = TRUE
INVARIANTS
  ConflictIsGenuine
PROPERTIES
  QueuedWorkAnswered
  EveryPushEnds
CHECK_DEADLOCK FALSE
