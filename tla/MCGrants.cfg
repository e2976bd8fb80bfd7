\* Two handlers; three refresh tokens of two pairs, or one ticket of one
\* user and two clients with two scopes; one failure.  Three keys, two
\* processes, two tokens out; one change and one failed query in an evidence
\* run; two events of one actor and two sweepers, one failure; three streams,
\* two messages and buffers of one.
SPECIFICATION GrantsSpec
CONSTANTS
  Pair = {p1, p2}
  Token = {t1, t2, t3}
  Request = {r1, r2}
  None = None
  MaxCrash = 1
  User = {u1}
  Client = {"rp", "other"}
  Scope = {a, b}
  Ticket = {x1}
  Registered <- MCRegistered
  Foreign <- MCForeign
  Key = {1, 2, 3}
  MaxToken = 2
  Framework = {"soc2", "iso27001"}
  BreachEnabled = FALSE
  MaxChanges = 1
  MaxFault = 1
  Observed <- MCObserved
  Settings <- MCSettings
  Tenant = {home}
  Stream = {1, 2, 3}
  HomeOf <- MCHomeOf
  MaxEvent = 2
  subBufSize = 1
SYMMETRY Symmetry
INVARIANTS
  OneUnusedPerGrant
  IssuedOnce
  IssuedWasApproved
  RotationKeepsTokens
  ReportsAreTrue
PROPERTIES
  DeadGrantStaysDead
  GrantsAreOneTime
CHECK_DEADLOCK FALSE
