\* Two requests, two passwords, a ticket of either kind, a challenge, a code, one
\* storage error of the lockout.
SPECIFICATION LoginSpec
CONSTANTS
  Request = {r1, r2}
  Password = {p1, p2}
  ResetToken = {k1}
  MagicLink = {m1}
  Challenge = {c1}
  RecoveryCode = {z1}
  None = None
  MaxFailed = 2
  MaxFault = 1
SYMMETRY Symmetry
VIEW WithoutResetHistory
INVARIANTS
  TicketsSingleUse
  GuessesBounded
  AlertOncePerLock
CHECK_DEADLOCK FALSE
