CONSTANTS
  Server = server
  Clients = {c1}
  Keys = {k}
  ModKeys = {k}
  Protos <- DuplexProtos
  Values = {v1, v2}
  Absent = Absent
  MaxOps = 2
  MaxLoads = 0
SPECIFICATION PlaySpec
INVARIANTS
  LocalClientAgrees
