\* A profile that is created, activated and removed at any moment: requests that
\* overtake each other, with rollbacks that signal the profile again.  The
\* destructor ends every behaviour: no deadlock check.
CONSTANTS
  p1 = p1
  p2 = p2
  a1 = a1
  a2 = a2
  Profiles <- OneProfile
  ActiveConns <- OneActivation
  Owner <- OwnerOneActivation
  InitialProfiles = {}
  Priorities <- ThreePriorities
  Replies <- AllReplies
  Settings <- PreferredOrNot
  MaxEdits = 1
  MaxIp4 = 2
  LateSignals = FALSE
SPECIFICATION FairSpec
CHECK_DEADLOCK FALSE
INVARIANTS
  TypeOK
  PendingIsNewest
  CounterAhead
  ActiveHasCall
PROPERTIES
  NewestDecides
  SuccessIsOnLink
  FailureLeavesLinkWhole
  Settles
  ShutdownCompletes
