\* One fault, nothing else: a crash, or a restart of 1Panel that fails.
CONSTANTS
  Ports = {8090}
  MaxFaults = 1
  MaxChanges = 0
  Uninstalls = FALSE
SPECIFICATION FairSpec
PROPERTY Ensured
CHECK_DEADLOCK FALSE
