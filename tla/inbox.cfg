SPECIFICATION FairSpec
CONSTANTS
  note = note
  boost = boost
  boost2 = boost2
  bob = bob
  carol = carol
  booster = booster
  w1 = w1
  w2 = w2
  Notes = {note}
  Announces = {boost}
  Original <- OfNote
  Booster <- ByOne
  Recipients = {bob}
  Workers = {w1, w2}
  MaxDeliveries = 3
  MaxStops = 1
  MaxKills = 1
CHECK_DEADLOCK FALSE
INVARIANTS TypeOK DeletedStaysGone
PROPERTIES OwnerReached Arrives
