\* A portal that was there before the login.
SPECIFICATION Spec
CONSTANTS
  Urls = {u1, u2}
  NoUrl = NoUrl
  Names = {"org.deepin.dde.Network1"}
  Checks = 2
  MaxInputs = 3
INVARIANTS
  PageIsOpened
CHECK_DEADLOCK FALSE
