\* Two portals; the session manager and DISPLAY come before or after the service.
SPECIFICATION FairSpec
CONSTANTS
  Urls = {u1, u2}
  NoUrl = NoUrl
  Names = {"org.deepin.dde.Network1"}
  Checks = 4
  MaxInputs = 6
INVARIANTS
  TypeOK
  EnteredIfPrepared
PROPERTIES
  ChecksSuffice
CHECK_DEADLOCK FALSE
