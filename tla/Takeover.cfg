\* Three faults, two changes of the port or restarts of 1Panel, an uninstall at any moment.
CONSTANTS
  Ports = {8090, 60000}
  MaxFaults = 3
  MaxChanges = 2
  Uninstalls = TRUE
SPECIFICATION FairSpec
INVARIANTS
  TypeOK
  PublicPortKept
  UninstallRestores
PROPERTIES
  ImplementsLease
  ComesUp
\* An uninstalled master stops.
CHECK_DEADLOCK FALSE
