\* A wireless device and two names.  All may stay at rest: no deadlock check.
SPECIFICATION FairSpec
CONSTANTS
  Devices = {w}
  Wifi = {w}
  Names = {n1, n2}
  NoName = NoName
  Misses = 1
  MaxInputs = 3
INVARIANTS
  TypeOK
  DisabledIsOff
PROPERTIES
  SwitchedOffStaysOff
CHECK_DEADLOCK FALSE
