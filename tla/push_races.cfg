SPECIFICATION Spec
CONSTANTS
  Field <- RaceField
  Value <- MCValue
  Record <- RaceRecords
  OpId = {"o1", "o2", "o3", "o4", "o5", "o6", "o7", "o8"}
  Handler = {h1, h2}
  AccessSet <- Staff
  MaxSeq = 2
  Requests <- RaceRequests
  RestEdits <- RaceEdits
  MaxPush = 3
  Faults = {"crash", "stamp"}
SYMMETRY HandlerSymmetry
INVARIANTS
  TypeOK
  AckedOpTookEffect
  FeedReplaysRows
PROPERTIES
  PushRespectsPolicy
CHECK_DEADLOCK FALSE
