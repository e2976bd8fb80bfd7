\* One account and session, two concurrent handlers, one failure; three
\* tokens let the session rotate twice.
SPECIFICATION FairSpec
CONSTANTS
  User = {u1}
  Session = {s1}
  Token = {t1, t2, t3}
  Request = {r1, r2}
  None = None
  MaxCrash = 1
INVARIANTS
  OneUnusedPerSession
  AtMostOnePairAfterRevocation
  SignalledIsRevoked
PROPERTIES
  ImplementsTokenFamily
  ReuseRevokes
CHECK_DEADLOCK FALSE
