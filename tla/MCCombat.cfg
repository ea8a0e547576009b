SPECIFICATION Spec
CONSTANTS
  Statuses = {s1, s2}
  Infos = {p1}
  Null = null
  MaxHits = 3
  MaxHelpers = 2
  MaxDepth = 4
SYMMETRY Symmetry
INVARIANTS
  TypeOK
  NoDangling
  ContextIsOwn
  PreventionIsOwn
  HelpersLive
  DeletionWaits
  NothingLeft
CHECK_DEADLOCK FALSE
