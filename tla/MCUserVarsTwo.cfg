CONSTANTS
  Server = server
  Clients = {c1, c2}
  Keys = {k}
  ModKeys = {k}
  Protos <- PlayProtos
  Values = {v1, v2}
  Absent = Absent
  MaxOps = 3
  MaxLoads = 0
SPECIFICATION PlaySpec
INVARIANTS
  Agreement
PROPERTIES
  EventualAgreement
