CONSTANTS
  Lines = {1}
  MaxDepth = 1
  Config = {"error"}
  Raising = {TRUE}
  MaxSessions = 1
  MaxRequests = 2
SPECIFICATION FairSpec
PROPERTY
  Resumes
CHECK_DEADLOCK FALSE
