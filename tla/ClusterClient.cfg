SPECIFICATION Spec
CONSTANTS
  m1 = m1
  m2 = m2
  Members <- TwoMembers
  Addresses = {"a", "b"}
  SessionIds = {1, 2}
  MaxTerm = 2
  MaxMoves = 1
  MaxFailures = 1
  MaxEgress = 1
  FragmentLimit = 2
  EndpointsGiven = {TRUE, FALSE}
  Prompt = FALSE
INVARIANTS
  SessionWasGranted
  IngressIsTheLeaders
  PanicsOnlyIfCutOff
SYMMETRY Symmetry
CHECK_DEADLOCK FALSE
