\* Two profiles share the worker: their requests wait behind each other, and may be made
\* after their profile was removed.
CONSTANTS
  p1 = p1
  p2 = p2
  a1 = a1
  a2 = a2
  Profiles <- TwoProfiles
  ActiveConns <- TwoActivations
  Owner <- OwnerTwoProfiles
  InitialProfiles <- TwoProfiles
  Priorities <- ThreePriorities
  Replies <- AllReplies
  Settings <- Preferred
  MaxEdits = 0
  MaxIp4 = 2
  LateSignals = TRUE
SPECIFICATION Spec
CHECK_DEADLOCK FALSE
INVARIANTS
  GoneIsForgotten
PROPERTIES
  ImplementsRequests
