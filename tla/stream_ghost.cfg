SPECIFICATION Spec
CONSTANTS
  c1 = c1
  c2 = c2
  c3 = c3
  Conns = {c1}
  StreamOf <- Public
  Http = {}
  Anonymous = {}
  Statuses = {1}
  Traffic <- PublicTraffic
  MaxCrashes = 0
INVARIANTS DeletedStaysDeleted
