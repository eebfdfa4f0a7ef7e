\* The priority the handler records as applied, against the link, with a
\* systemd-resolved that never fails.
CONSTANTS
  p1 = p1
  p2 = p2
  a1 = a1
  a2 = a2
  Profiles <- OneProfile
  ActiveConns <- OneActivation
  Owner <- OwnerOneActivation
  InitialProfiles <- OneProfile
  Priorities <- ThreePriorities
  Replies = {"ok"}
  Settings <- PreferredOrNot
  MaxEdits = 1
  MaxIp4 = 1
  LateSignals = FALSE
SPECIFICATION Spec
CHECK_DEADLOCK FALSE
INVARIANTS
  AppliedIsOnLink
