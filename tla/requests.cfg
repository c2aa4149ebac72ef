SPECIFICATION AllSpec
CONSTANTS
  t1 = t1
  t2 = t2
  MaxFollows = 2
  MaxBlocks = 2
  MaxRepeats = 1
  Threads = {t1, t2}
  MaxEnables = 2
  Exceptions = {":x:", "@h"}
  Tokens = {":x:", "s", "@h", "x", "EYE"}
  Profiles <- SomeProfiles
  Texts <- SomeTexts
  Puma = {t1, t2}
  MaxDrafts = 2
  MaxSends = 3
  MaxBreaks = 1
  p1 = p1
  p2 = p2
  Posts = {p1, p2}
  Sidekiq = {t1, t2}
  MaxOrders = 3
  MaxCuts = 1
CHECK_DEADLOCK FALSE
INVARIANTS TypeOK  AcceptedIsCurrent
INVARIANTS OnePerKey AnsweredAreOut ExceptionsStay 
INVARIANTS OneDeletion PurgedIsGone
SYMMETRY Alike
