SPECIFICATION Spec
CONSTANTS
  Ids = {1, 2, 3, 4, 5}
  Remote = {3}
  ReblogOf <- OneReblog
  LIMIT = 2
  FULL = 3
  KEPT = 2
  MaxRemovals = 1
  MaxDrops = 2
  MaxFails = 1
CHECK_DEADLOCK FALSE
INVARIANTS TypeOK NewestFirst 
 
