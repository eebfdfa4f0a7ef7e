\* One device, two addresses, one other host.
SPECIFICATION FairSpec
CONSTANTS
  Devices = {d}
  Ips = {i1, i2}
  Remotes = {r}
  Reconnects = TRUE
  MaxInputs = 3
INVARIANTS
  TypeOK
  WarningIsReal
PROPERTIES
  WarningGoes
CHECK_DEADLOCK FALSE
