SPECIFICATION Spec
CONSTANTS
  Field <- RaceField
  Value <- MCValue
  Record <- RaceRecords
  OpId = {"o1", "o2", "o3", "o4", "o5", "o6", "o7", "o8"}
  Handler = {h1, h2}
  AccessSet <- JustTechnician
  MaxSeq = 1
  Requests <- NoteRequests
  RestEdits <- Opening
  MaxPush = 2
  Faults = {}
PROPERTIES
  AppendedLinesKept
CHECK_DEADLOCK FALSE
