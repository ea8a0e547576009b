CONSTANTS
  Server = server
  Clients = {c1}
  Keys = {k}
  ModKeys = {}
  Protos <- ServerProtos
  Values = {v1, v2}
  Absent = Absent
  MaxOps = 2
  MaxLoads = 1
SPECIFICATION Spec
INVARIANTS
  TypeOK
  NothingForgotten
  CacheCoherent
  Delivered
PROPERTIES
  WritesReachStore
  SaveIsCurrent
