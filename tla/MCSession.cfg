SPECIFICATION Spec
CONSTANTS
  Values = {v1}
  NoValue = none
  Stats = {s1}
  MaxTasks = 1
INVARIANTS
  TypeOK
  ToldOnce
  NotifiesLive
PROPERTIES
  RestoredFirst
  
  PromptReturns
