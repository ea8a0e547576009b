CONSTANTS
  Lines = {1}
  MaxDepth = 2
  Config = {"error", "generic"}
  Raising = {TRUE, FALSE}
  MaxSessions = 2
  MaxRequests = 2
SPECIFICATION Spec
INVARIANTS
  TypeOK
  StopsAreReal
  EvalsRunPaused
  EvalsAccounted
  BreakpointsCurrent
PROPERTIES
  StepsSurvive
CHECK_DEADLOCK FALSE
