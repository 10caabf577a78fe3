SPECIFICATION MergeSpec
CONSTANTS
  Callers = {c1, c2}
  Ops = {"call", "list", "subscriptions", "errors", "close"}
  Wanted = 2
  MaxCalls = 2
  MaxNoise = 1
  Challenges = TRUE
  FragmentLimit = 2
  MaxPosition = 2
  MaxAsks = 5
  MaxTrouble = 1
  BesideOps = {"call", "errors", "close"}
  LiveAddWindow = 1
INVARIANTS ResultIsOurs MergedIsCaughtUp NoReplayIsLeft
PROPERTY TimeoutMissesNothing
CHECK_DEADLOCK FALSE
SYMMETRY CallerSymmetry
