\* One hardening, an installed ss, nobody else touches the panel.
SPECIFICATION HardenSpec
CONSTANTS
  Hardeners = {service}
  SsWorks = TRUE
  MaxAdmin = 0
CHECK_DEADLOCK FALSE
INVARIANT HardenedAlways
