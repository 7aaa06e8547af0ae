SPECIFICATION Spec
CONSTANTS
  Field <- MCField
  Value <- MCValue
  Record <- WithShiftLog
  OpId <- MCOpId
  Handler = {h1, h2}
  AccessSet <- JustUser
  MaxSeq = 2
  Device = {d1}
  Desktop = {d1}
  LocalEdits <- NoDeletes
  PullScope <- JustShiftLog
  RestEdits <- OfficeOnShift
  BatchSize = 1
  PageLimit = 1
  MaxGap = 5
  MaxEdits = 1
  MaxFaults = 0
  WriteErrors = FALSE
INVARIANTS
  NoMissedChange
CHECK_DEADLOCK FALSE
