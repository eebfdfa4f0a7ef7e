\* From one network to another with the same login page.
CONSTANTS
  Conns = {a, b}
  NoConn = none
  Urls = {login}
  NoUrl = nowhere
  Polls = 0
  Generations = 4
  MaxProbes = 2
  MaxChanges = 1
SPECIFICATION Spec
INVARIANTS
  PortalIsOffered
