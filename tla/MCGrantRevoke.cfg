\* An administrator revokes a grant while its client rotates the token.
SPECIFICATION Spec
CONSTANTS
  Pair = {p1}
  Token = {t1, t2}
  Request = {r1, r2}
  None = None
  MaxCrash = 0
PROPERTIES
  RevokedGrantHasNoActiveToken
CHECK_DEADLOCK FALSE
