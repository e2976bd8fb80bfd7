\* What the login tests say of a challenge.
SPECIFICATION Spec
CONSTANTS
  Request = {r1, r2}
  Password = {p1, p2}
  ResetToken = {}
  MagicLink = {}
  Challenge = {c1}
  RecoveryCode = {}
  None = None
  MaxFailed = 2
  MaxFault = 0
SYMMETRY Symmetry
INVARIANTS
  ChallengeSingleUse
CHECK_DEADLOCK FALSE
