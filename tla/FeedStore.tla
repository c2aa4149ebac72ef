----------------------------- MODULE FeedStore -----------------------------
(***************************************************************************)
(* One Redis feed of app/lib/feed_manager.rb, as a value, and the three    *)
(* primitives every caller is built from: add_to_feed, remove_from_feed    *)
(* and trim.  A feed is three groups of Redis keys:                        *)
(*                                                                         *)
(*   timeline   the sorted set feed:home:ID; the score of a member is the  *)
(*              status id itself, so the set of ids is the whole state;    *)
(*   reblogs    the sorted set feed:home:ID:reblogs, member = original,    *)
(*              score = the reblog that stands for it (0 = not a member);  *)
(*   extras     the plain sets feed:home:ID:reblogs:ORIGINAL of further    *)
(*              reblogs that were held back ({} = the key does not exist). *)
(*                                                                         *)
(* A status id is a positive integer: larger is newer.                     *)
(***************************************************************************)
EXTENDS Naturals, FiniteSets

CONSTANTS
  Ids,             \* ids of the statuses that may ever exist
  ReblogOf,        \* Ids -> the original of a reblog, 0 for an original
  MAX_ITEMS,       \* entries a feed keeps (400 in the source)
  REBLOG_FALLOFF   \* entries within which reblogs are grouped (40 there)

ASSUME StatusesAssumption ==
  /\ Ids \subseteq Nat \ {0}
  /\ IsFiniteSet(Ids)
  /\ ReblogOf \in [Ids -> Ids \cup {0}]
  /\ \A s \in Ids : ReblogOf[s] # 0 => ReblogOf[ReblogOf[s]] = 0

\* "Must be <= MAX_ITEMS or the tracking sets will grow forever"
ASSUME LimitsAssumption ==
  /\ MAX_ITEMS \in Nat /\ REBLOG_FALLOFF \in Nat \ {0}
  /\ REBLOG_FALLOFF <= MAX_ITEMS

Feeds == [timeline : SUBSET Ids,
          reblogs  : [Ids -> Ids \cup {0}],
          extras   : [Ids -> SUBSET Ids]]

NoFeed == [timeline |-> {},
           reblogs  |-> [o \in Ids |-> 0],
           extras   |-> [o \in Ids |-> {}]]

IsReblog(s) == ReblogOf[s] # 0

\* ZREVRANK: how many members are newer
Rank(S, x) == Cardinality({y \in S : y > x})

\* The n newest members of S
Newest(S, n) == {x \in S : Rank(S, x) < n}

\* The oldest member of S, as a set: empty for the empty set
Oldest(S) == {x \in S : \A y \in S : x <= y}

-----------------------------------------------------------------------------
(* add_to_feed *)

\* Is the original among the REBLOG_FALLOFF newest entries itself?
OriginalNearTop(f, o) ==
  o \in f.timeline /\ Rank(f.timeline, o) < REBLOG_FALLOFF

Tracked(f, o) == f.reblogs[o] # 0

\* The value add_to_feed returns
WouldAdd(f, s) ==
  IF IsReblog(s)
  THEN ~OriginalNearTop(f, ReblogOf[s]) /\ ~Tracked(f, ReblogOf[s])
  ELSE ~Tracked(f, s)

\* A reblog of something already grouped is held back
HeldBack(f, s) ==
  IsReblog(s) /\ ~OriginalNearTop(f, ReblogOf[s]) /\ Tracked(f, ReblogOf[s])

AddToFeed(f, s) ==
  LET added == WouldAdd(f, s)
      held  == HeldBack(f, s)
  IN  [timeline |-> IF added THEN f.timeline \cup {s} ELSE f.timeline,
       reblogs  |-> [o \in Ids |-> IF added /\ ReblogOf[s] = o
                                  THEN s ELSE f.reblogs[o]],
       extras   |-> [o \in Ids |-> IF held /\ ReblogOf[s] = o
                                  THEN f.extras[o] \cup {s} ELSE f.extras[o]]]

-----------------------------------------------------------------------------
(* remove_from_feed *)

\* The value remove_from_feed returns: was the entry there to be removed?
WouldRemove(f, s) == s \in f.timeline

\* Variant: puts what min makes of the empty set in its place
ReplacementUnchecked(f, s) ==
  LET others == f.extras[ReblogOf[s]] \ {s}
  IN  IF others = {} THEN {0} ELSE Oldest(others)

\* The held-back reblog put in the place of reblog s, if there is one
Replacement(f, s) == Oldest(f.extras[ReblogOf[s]] \ {s})

\* What becomes of the held-back reblogs: those of an original go with it, a
\* reblog is taken out of its set only if it was in the feed
ExtrasWithout(f, s, o) ==
  IF o = s /\ ~IsReblog(s) THEN {}
  ELSE IF o = ReblogOf[s] /\ WouldRemove(f, s) THEN f.extras[o] \ {s}
  ELSE f.extras[o]

RemoveFromFeed(f, s) ==
  [timeline |-> IF IsReblog(s) /\ WouldRemove(f, s)
                THEN (f.timeline \cup Replacement(f, s)) \ {s}
                ELSE f.timeline \ {s},
   reblogs  |-> f.reblogs,
   extras   |-> [o \in Ids |-> ExtrasWithout(f, s, o)]]

-----------------------------------------------------------------------------
(* trim *)

\* Variant: the falloff one entry too early
FalloffScoreEarly(S) ==
  IF \E x \in S : Rank(S, x) = REBLOG_FALLOFF - 2
  THEN CHOOSE x \in S : Rank(S, x) = REBLOG_FALLOFF - 2
  ELSE 0

\* The score of the REBLOG_FALLOFF'th newest entry, 0 when there is none
FalloffScore(S) ==
  IF \E x \in S : Rank(S, x) = REBLOG_FALLOFF - 1
  THEN CHOOSE x \in S : Rank(S, x) = REBLOG_FALLOFF - 1
  ELSE 0

FallenOff(f, o) ==
  Tracked(f, o) /\ f.reblogs[o] <= FalloffScore(Newest(f.timeline, MAX_ITEMS))

Trim(f) ==
  [timeline |-> Newest(f.timeline, MAX_ITEMS),
   reblogs  |-> [o \in Ids |-> IF FallenOff(f, o) THEN 0 ELSE f.reblogs[o]],
   extras   |-> [o \in Ids |-> IF FallenOff(f, o) THEN {} ELSE f.extras[o]]]

-----------------------------------------------------------------------------
(* clean_feeds! of the scheduler: two pipelines, so two steps *)

Untracked(f) ==
  [timeline |-> {}, reblogs |-> [o \in Ids |-> 0], extras |-> f.extras]

DropExtras(f, O) ==
  [timeline |-> f.timeline, reblogs |-> f.reblogs,
   extras |-> [o \in Ids |-> IF o \in O THEN {} ELSE f.extras[o]]]
=============================================================================
