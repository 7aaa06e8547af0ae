SPECIFICATION LabSpecification
CONSTANTS
  Sample = {"s1"}
  Param = {"p1"}
  Open = Open
  LabEntry <- MCLabEntry
  PushedResult = {}
  CaseDecision <- MCCaseDecision
  LabSpec <- MCLabSpec
  SampleOf <- MCSampleOf
  LabUser <- MCLabUser
  DeptOf <- MCDeptOf
  LabKind = {"lab"}
  LabOrder = {}
  LabCall = {c1, c2}
  MaxCases = 2
INVARIANT
  ReviewerSawTheNumber
SYMMETRY LabSymmetry
CHECK_DEADLOCK FALSE
