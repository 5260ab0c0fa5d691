SPECIFICATION Spec
CONSTANTS
  Service = service
  Setpwd = setpwd
  Hardeners = {service, setpwd}
  Absent = Absent
  Bad = Bad
  SsWorks = TRUE
  MaxAdmin = 1
  MaxFaults = 1
  MaxCommands = 2
CHECK_DEADLOCK FALSE
INVARIANTS TypeOK NeverBoth InstallTakes HardenedMeansClosed
