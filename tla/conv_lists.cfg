SPECIFICATION FairSpec
CONSTANTS
  alice = alice
  bob = bob
  w1 = w1
  w2 = w2
  Accounts = {alice, bob}
  Statuses = {1, 2}
  Author <- Dialogue
  Workers = {w1, w2}
  MaxOps = 2
INVARIANTS TypeOK UnlinkedAtLeisure
PROPERTIES ImplementsList OwnAdded RemovalEnds
CHECK_DEADLOCK FALSE
