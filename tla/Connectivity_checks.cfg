\* The network changes while probes, timers and messages are under way.
CONSTANTS
  Conns = {a}
  NoConn = none
  Urls = {login}
  NoUrl = nowhere
  Polls = 1
  Generations = 4
  MaxProbes = 2
  MaxChanges = 2
SPECIFICATION FairSpec
INVARIANTS
  TypeOK
  UrlWithPortal
  CacheFollows
  RestedIsRight
PROPERTIES
  EventuallyRight
