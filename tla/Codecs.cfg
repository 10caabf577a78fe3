SPECIFICATION Spec
CONSTANTS
  SessionID = "ControlSessionId"
  CorrelationID = "CorrelationId"
  SemanticVersion = "Version"
INVARIANTS
  ReceivedIsSent
  RangeCheckIsExact
