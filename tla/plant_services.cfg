SPECIFICATION PlantSpec
CONSTANTS
  Sample = {"s1"}
  Param = {"p1"}
  Open = Open
  LabEntry <- MCLabEntry
  PushedResult <- MCPushedResult
  CaseDecision <- MCCaseDecision
  LabSpec <- MCLabSpec
  SampleOf <- MCSampleOf
  LabUser <- MCLabUser
  DeptOf <- MCDeptOf
  LabKind = {"lab"}
  LabOrder = {}
  LabCall = {c1, c2}
  MaxCases = 1
  Order = {"o1"}
  WoUser <- MCWoUser
  WoGiven <- MCWoGiven
  WoCall = {c1, c2}
  MaxVersion = 2
  MaxWoVersion = 6
  Worker = {"b", "x"}
  WorkDay = {1, 2}
  ShiftOf <- MCShiftOf
  Terminated = {"x"}
  OnLeave = {}
  DevicePunch <- MCDevicePunch
  Asked <- MCAsked
  RecalcCall = {c1, c2}
  Device = {d1, d2}
  Request = {c1, c2}
  NoRequest = NoRequest
  MaxIssued = 2
  Shift = {"s"}
  Writer = {"u1", "u2"}
  LogCall = {c1, c2}
  RoleCodes <- MCRoleCodes
  SubGrant <- MCSubGrant
  GrantScope = {"SELF", "TEAM", "SUBDEPT", "DEPT", "ALL"}
  SELF_SERVICE = {"doc.upload"}
  MaxGrants = 2
  StoreRec = {"r"}
  MaxEdits = 2
  StoreCall = {c1, c2}
  MaxCycles = 2
  MaxWipes = 1
  Cyc = {c1, c2}
  MaxFeed = 1
INVARIANTS
  EveryBreachIsFollowedUp
  CasesAreDocumented
  AttTypeOK
  NoPunchCountsTwice
  CorrectionsCount
  AuthTypeOK
  OneLiveTokenPerFamily
  HeldTokenIsLive
  CacheFollowsVersion
  WidestGrantWins
  WhatIsListedOpens
  StoresAgreeOnQueue
  UnsentEditIsReadable
  HeartbeatNeverStops
  CursorIsHonest
PROPERTIES
  CertifiedBreachWasSettled
  StatusChangesAreLogged
  DangerousWorkHadPermit
  PreparerStands
SYMMETRY Symmetry
CHECK_DEADLOCK FALSE
