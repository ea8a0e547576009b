CONSTANTS
  Lines = {1}
  MaxDepth = 1
  Config = {}
  Raising = {FALSE}
  MaxSessions = 1
  MaxRequests = 2
SPECIFICATION Spec
INVARIANT
  SequenceMatches
CHECK_DEADLOCK FALSE
