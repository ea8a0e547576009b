SPECIFICATION Spec
CONSTANTS
  PageBits = 2
  RootWords = 1
  Salts = 3
  MaxUses = 5
  MaxAllocations = 8
  MaxDepth = 2
  MaxOwners = 6
  MaxRefs = 1
INVARIANTS
  TypeOK
  SummariesExact
  NothingLeaks
  RefsScoped
PROPERTIES
  ImplementsScopes
