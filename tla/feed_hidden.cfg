SPECIFICATION Spec
CONSTANTS
  me = me
  alice = alice
  bob = bob
  carol = carol
  t1 = t1
  t2 = t2
  Ids = {1, 2, 3, 4, 5}
  ReblogOf <- MixedReblogOf
  AuthorOf <- MixedAuthorOf
  InReplyTo <- MixedInReplyTo
  Mentions <- MixedMentions
  Visibility <- MixedVisibility
  MAX_ITEMS = 4
  REBLOG_FALLOFF = 2
  Accounts = {me, alice, bob, carol}
  Owner = me
  Phrased = {}
  BlocksOwner = {}
  DomainBlocked = {}
  FollowedAtStart = {alice, bob}
  Workers = {t1}
  Events = {"mute", "unmute", "block", "unblock", "unfollow", "follow", "show_reblogs",
            "delete", "inactive", "cleanup", "sign_in"}
  MaxOps = 2
  MaxQueue = 2
  Interruptible = {"clear", "merge", "remove"}
  MaxInterrupts = 1
CHECK_DEADLOCK FALSE
INVARIANTS TypeOK  NoOrphanedExtras
