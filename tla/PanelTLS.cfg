CONSTANTS
  on = on
  off = off
  Agents = {a1, a2}
  Requests = {on, off}
  Want <- OnAndOff
  MaxVersion = 2
  MaxFaults = 2
SPECIFICATION FairSpec
INVARIANTS
  TypeOK
  RestIsRight
PROPERTIES
  ToldInStep
  UpstreamFollows
  ToldComeBack
