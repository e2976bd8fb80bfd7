\* What the comment at the scheduled job says of the tenants.
SPECIFICATION AuditFairSpec
CONSTANTS
  Tx = {x1, x2}
  Chain = {platform, acme}
  Platform = platform
  Body = {b1, b2}
  Spelling = {plain}
  Plain = plain
  None = None
  MaxRows = 3
  MaxSkew = 0
  MaxTamper = 1
PROPERTIES
  TamperAlarms
CHECK_DEADLOCK FALSE
