SPECIFICATION FairSpec
CONSTANTS
  me = me
  alice = alice
  bob = bob
  carol = carol
  t1 = t1
  t2 = t2
  Ids = {1, 2, 3, 4, 5}
  ReblogOf <- AbsenceReblogOf
  AuthorOf <- AbsenceAuthorOf
  InReplyTo <- NoReplies
  Mentions <- NoMentions
  Visibility <- AllPublic
  MAX_ITEMS = 4
  REBLOG_FALLOFF = 2
  Accounts = {me, alice, bob, carol}
  Owner = me
  Phrased = {4, 5}
  BlocksOwner = {}
  DomainBlocked = {}
  FollowedAtStart = {alice, bob}
  Workers = {t1, t2}
  Events = {"inactive", "sign_in", "expire", "follow"}
  MaxOps = 3
  MaxQueue = 1
  Interruptible = {"populate"}
  MaxInterrupts = 1
CHECK_DEADLOCK FALSE
  
PROPERTIES RegenerationEnds RegenerationFills
