\* The calls of one network: a panel that comes and goes, or the dialog of a VPN plugin,
\* which ends or goes on after it has answered; the keyring may be locked.
SPECIFICATION Spec
CONSTANTS
  c1 = c1  c2 = c2  p1 = p1  s1 = s1  s2 = s2  none = none
  NoSecret = none
  Conns = {c1, c2}
  Secrets = {s1, s2}
  Clients = {p1}
  MaxCalls = 2
  MaxInputs = 1
  Kind <- PanelOrPlugin
SYMMETRY Symmetry
CONSTRAINT OneNetwork
INVARIANTS
  TypeOK
  ExactlyOnce
  NoneLeftBehind
  TypedIsSent
PROPERTIES
  SavedIsReturned
  TypedIsKept
