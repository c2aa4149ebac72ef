SPECIFICATION FairSpec
CONSTANTS
  c1 = c1
  c2 = c2
  c3 = c3
  Conns = {c1, c2, c3}
  StreamOf <- Windows
  Http = {}
  Anonymous = {}
  Statuses = {1}
  Traffic = {}
  MaxCrashes = 1
INVARIANTS TypeOK SubscriptionFollows NothingLeftBehind ToldWhileWatched
PROPERTIES ToldWhenUnwatched VanishedReaped
