SPECIFICATION Spec
CONSTANTS
  c1 = c1
  c2 = c2
  c3 = c3
  Conns = {c1, c2}
  StreamOf <- Public
  Http = {c2}
  Anonymous = {c1}
  Statuses = {1, 2}
  Traffic <- PublicTraffic
  MaxCrashes = 1
INVARIANTS InOrder
