SPECIFICATION Spec
CONSTANTS
  me = me
  alice = alice
  bob = bob
  carol = carol
  t1 = t1
  t2 = t2
  Ids = {1, 2, 3, 4, 5}
  ReblogOf <- GroupedReblogOf
  AuthorOf <- GroupedAuthorOf
  InReplyTo <- NoReplies
  Mentions <- NoMentions
  Visibility <- AllPublic
  MAX_ITEMS = 4
  REBLOG_FALLOFF = 2
  Accounts = {me, alice, bob, carol}
  Owner = me
  Phrased = {}
  BlocksOwner = {}
  DomainBlocked = {}
  FollowedAtStart = {bob, carol}
  Workers = {t1}
  Events = {"delete"}
  MaxOps = 2
  MaxQueue = 1
  Interruptible = {}
  MaxInterrupts = 0
CHECK_DEADLOCK FALSE
PROPERTIES ReplacementExists
