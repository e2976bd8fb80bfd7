\* What the query says of a cancelled request.
SPECIFICATION Spec
CONSTANTS
  User = {u1}
  Purge = {q1}
  Export = {}
  Sweeper = {w1, w2}
  None = None
  MaxFault = 0
PROPERTIES
  CancelHonoured
CHECK_DEADLOCK FALSE
