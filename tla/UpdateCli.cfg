CONSTANTS
  a1 = a1
  a2 = a2
  m = m
  u1 = u1
  u2 = u2
  u3 = u3
  u4 = u4
  Agents = {a1}
  Master = m
  Updaters = {u3}
  HostOf <- OneHost
  KindOf <- OneKind
  Posts = {}
  Old = "v1"
  New = "v2"
  Page = "page"
  None = "none"
  Sources = 2
  AssetAnswers <- AllGood
  ListAnswers <- AllGood
  MaxFaults = 0
  MaxStarts = 1
SPECIFICATION FairSpec
PROPERTY
  CliUpdateTakes
\* Every update may have ended.
CHECK_DEADLOCK FALSE
