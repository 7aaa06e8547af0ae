SPECIFICATION Spec
CONSTANTS
  Field <- RaceField
  Value <- MCValue
  Record <- RaceRecords
  OpId = {"o1", "o2", "o3", "o4", "o5", "o6", "o7", "o8"}
  Handler = {h1}
  AccessSet <- JustTechnician
  MaxSeq = 3
  Requests <- DeleteRequests
  RestEdits <- Approvals
  MaxPush = 1
  Faults = {}
PROPERTIES
  ApprovedRowNotDeleted
CHECK_DEADLOCK FALSE
