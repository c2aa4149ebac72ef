SPECIFICATION Spec
CONSTANTS
  alice = alice
  bob = bob
  w1 = w1
  w2 = w2
  Accounts = {alice, bob}
  Statuses = {1, 2}
  Author <- Dialogue
  Workers = {w1, w2}
  MaxOps = 0
PROPERTIES MentionedAdded
CHECK_DEADLOCK FALSE
