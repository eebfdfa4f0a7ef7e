\* A wired device and two names.
SPECIFICATION Spec
CONSTANTS
  Devices = {eth}
  Wifi = {}
  Names = {n1, n2}
  NoName = NoName
  Misses = 2
  MaxInputs = 2
PROPERTIES
  RenameMigrates
CHECK_DEADLOCK FALSE
