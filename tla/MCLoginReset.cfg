\* What the reset handler answers.
SPECIFICATION Spec
CONSTANTS
  Request = {r1, r2}
  Password = {p1, p2}
  ResetToken = {k1}
  MagicLink = {}
  Challenge = {}
  RecoveryCode = {}
  None = None
  MaxFailed = 2
  MaxFault = 0
SYMMETRY Symmetry
INVARIANTS
  ResetTakesEffect
CHECK_DEADLOCK FALSE
