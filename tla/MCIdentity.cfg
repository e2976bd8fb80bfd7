\* Each part by itself; see the README for what its bounds let happen.
SPECIFICATION IdentitySpec
CONSTANTS
  None = None
  Request = {r1, r2}
  User = {u1, u2}
  Thing = {x1, x2}
  Account = {u1, u2}
  Addr = {e1, e2}
  Home = {t1}
  Subject = {s1}
  Invite = {i1}
  Passkey = {k1}
  Factor = {f1, f2}
  Cookie = {c1}
  Conn = {n1}
  Provider = {v1}
  Link = {l1}
  Deleted = Deleted
  Domain = {g1}
  Claim = {d1, d2, d3}
  Policy = {p1, p2}
  Plan = {m1, m2}
  SubjectOf <- MCSubjectOf
  File <- MCFile
  OwnerOf <- MCOwnerOf
  NameOf <- MCNameOf
  Password = {"", "secret"}
  Empty = ""
  MaxLives = 2
  Amount = {0, 1}
  MaxInvoices = 3
  Attr = {"x"}
  Value <- MCValue
  Pattern <- MCPattern
  Condition <- MCCondition
  Height <- MCHeight
  ResourceType = {"doc"}
  Star = "any"
  Key = {t1}
  Admin = {a1}
  MaxTime = 2
  Limit <- Limits
  Default <- Slow
SYMMETRY Symmetry
INVARIANTS
  OneLiveAccountPerIdentity
  HonouredOnce
  AuditTellsTheState
  DelegatesStayHome
  VerifiedMeansProven
  OutStaysOut
  AllowIsCertain
  RepeatedCallsAreSafe
  BudgetKept
CHECK_DEADLOCK FALSE
