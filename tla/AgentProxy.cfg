CONSTANTS
  r1 = r1
  r2 = r2
  u1 = u1
  Requests = {r1, r2, u1}
  Upgrades = {u1}
  MaxLogins = 3
SPECIFICATION Spec
SYMMETRY RequestSymmetry
INVARIANTS
  TypeOK
  DroppedSessionIsGone
  LoginPageIsLastResort
PROPERTY
  ImplementsRequest
CHECK_DEADLOCK FALSE
