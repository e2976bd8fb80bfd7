\* Three nodes and a person, one walker, chains within the cap of two, one
\* write; or one group of two users, two transactions, PATCHes of two
\* operations, one edit; or two tenants with two roles and two groups.
SPECIFICATION AuthzSpec
CONSTANTS
  Node = {n1, n2, n3}
  Person = {p1}
  Walker = {w1}
  None = None
  MaxDepth = 2
  MaxWrites = 1
  Member = {a1, a2}
  Put = {b1, b2}
  Patch = {x1}
  MaxOps = 2
  MaxEdit = 1
  Tenant = {t1, t2}
  User = {u1}
  Role = {a1, a2}
  Group = {b1, b2}
  Permission = {q1}
SYMMETRY Symmetry
INVARIANTS
  AnswerIsBracketed
  DecisionsAgree
PROPERTIES
  GroupsEndAsAsked
  GroupGrantsAreHomeMade
CHECK_DEADLOCK FALSE
