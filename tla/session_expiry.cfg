SPECIFICATION AuthSpec
CONSTANTS
  Device = {d1}
  Request = {r1, r2}
  NoRequest = NoRequest
  MaxVersion = 2
  MaxIssued = 2
PROPERTY ExpiryIsRenewed
CHECK_DEADLOCK FALSE
