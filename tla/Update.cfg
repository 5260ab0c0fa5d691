CONSTANTS
  a1 = a1
  a2 = a2
  m = m
  u1 = u1
  u2 = u2
  u3 = u3
  u4 = u4
  Agents = {a1, a2}
  Master = m
  Updaters = {u1, u3, u4}
  HostOf <- MixedHosts
  KindOf <- MixedKinds
  Posts = {p1, p2}
  Old = "v1"
  New = "v2"
  Page = "page"
  None = "none"
  Sources = 2
  AssetAnswers <- SomePages
  ListAnswers <- NoPages
  MaxFaults = 1
  MaxStarts = 1
SPECIFICATION FairSpec
INVARIANTS
  TypeOK
PROPERTIES
  ImplementsRollout
  ServiceUpdateTakes
\* Every update may have ended.
CHECK_DEADLOCK FALSE
