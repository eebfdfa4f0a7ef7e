\* One VPN, one device; what the user sees of WLAN.
SPECIFICATION Spec
CONSTANTS
  Delay = 2
  Reset = 3
  Skew = 1
  Vpns = {v}
  Devices = {d}
  MaxInputs = 4
INVARIANTS
  TypeOK
  NoticesInOrder
  EnabledFollows
PROPERTIES
  AirplaneHidesWlan
CONSTRAINT OneAtATime
CHECK_DEADLOCK FALSE
