SPECIFICATION Spec
CONSTANTS
  Sessions = {1}
  Scripts <- FourScripts
  MaxAsks = 1
  Roles = {"Leader"}
  MaxTerms = 2
  MaxCrashes = 1
  MaxFaults = 1
  Faults = {"addSubscription", "imageLost", "snapshot", "session", "loader", "archive", "appVersion", "badTerm"}
  IsStandby = FALSE
  LogFragmentLimit = 2
INVARIANTS
  AppliedIsTheLog
  JoinsWhereItEnded
  TerminatesAtPosition
  NobodyWaits
CHECK_DEADLOCK FALSE
