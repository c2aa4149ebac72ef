------------------------------ MODULE Timelines ------------------------------
(***************************************************************************)
(* The home timeline in a browser window: reducers/timelines.js,           *)
(* actions/timelines.js, actions/streaming.js and util/stream.js of        *)
(* app/javascript/flavours/glitch/.                                        *)
(*                                                                         *)
(* It is put together from pages of the API and events of the stream.  A   *)
(* page is what the server had when it was asked; it is merged into a list *)
(* that events have changed since.  Where something may be missing the     *)
(* list has a gap (null), which the user sees and can have filled.  The    *)
(* home timeline with a gap at its top counts as not loaded and is         *)
(* refreshed every three seconds.                                          *)
(***************************************************************************)
EXTENDS Integers, Sequences, FiniteSets, SequencesExt

CONSTANTS
  Ids,          \* of statuses of the feed
  ReblogOf,     \* Ids -> the original, 0 if none
  Remote,       \* ids given by other servers to statuses that may come late
  LIMIT,        \* DEFAULT_STATUSES_LIMIT, 20
  FULL, KEPT,   \* a list longer than FULL, 40, is cut to KEPT, 20
  MaxRemovals,  \* bound: statuses that are removed
  MaxDrops,     \* bound: times the socket closes
  MaxFails      \* bound: requests that fail

ASSUME TimelinesAssumption ==
  /\ Ids \subseteq Nat \ {0} /\ IsFiniteSet(Ids)
  /\ Remote \subseteq Ids
  /\ ReblogOf \in [Ids -> Ids \cup {0}]
  /\ \A s \in Ids : ReblogOf[s] \in Ids => ReblogOf[ReblogOf[s]] = 0
  /\ {LIMIT, FULL, KEPT} \subseteq Nat \ {0} /\ KEPT <= FULL
  /\ {MaxRemovals, MaxDrops, MaxFails} \subseteq Nat

VARIABLES
  feed, removed,  \* the server: what is in the feed and what was removed
  socket,         \* "closed", "open", "subscribed": whether Redis forwards to it
  opened,         \* the socket has been open before
  wire,           \* events on their way
  items,          \* the list
  request,        \* the one for a page, while isLoading is set
  top,            \* the user is at the top
  polling,        \* a timer of stream.js runs
  removals, drops, fails,
  holed,          \* history: something was missed that nobody asks for again
  overtaken,      \* history: a status came after newer ones
  caught          \* history: a page came since the socket was lost last, or
                  \* was under way then

vars == <<feed, removed, socket, opened, wire, items, request, top, polling,
          removals, drops, fails, holed, overtaken, caught>>

server == <<feed, removed, removals>>
past   == <<holed, overtaken, caught>>
stream == <<socket, opened, wire, polling, drops>>
-----------------------------------------------------------------------------
GAP == 0

None == [at |-> "none"]

isLoading == request # None

Posted == feed \cup removed

Requests ==
  {None} \cup [at : {"asked"}, since : Ids \cup {0}, max : Ids \cup {0}]
  \cup [at : {"answered"}, since : Ids \cup {0}, max : Ids \cup {0}, page : Seq(Ids)]

Events == [event : {"update", "delete"}, id : Ids]

\* What shows the same text
SameText(s, t) ==
  LET text(i) == IF ReblogOf[i] = 0 THEN i ELSE ReblogOf[i] IN text(s) = text(t)

\* Feed#from_redis: the newest, of those after since_id and before max_id
InRange(since, max) == {s \in feed : s > since /\ (max = 0 \/ s < max)}

\* The k-th of a set of numbers, from below
Nth(S, k) == CHOOSE n \in S : Cardinality({m \in S : m < n}) = k - 1

Page(since, max) ==
  LET all  == InRange(since, max)
      size == Cardinality(all)
  IN  [k \in 1..(IF size < LIMIT THEN size ELSE LIMIT) |-> Nth(all, size + 1 - k)]

\* Variant: a status of the page is left standing behind it
MergedShort(list, page) ==
  LET AsNew(s) == s > page[Len(page)]
      Newer(s) == s > page[1]
      last     == SelectLastInSeq(list, AsNew)
      first    == SelectLastInSubSeq(list, 1, last, Newer)
  IN
  IF page = <<>> THEN list
  ELSE SubSeq(list, 1, first) \o page \o SubSeq(list, last + 1, Len(list))

\* Variant: what is newer than the page goes too
MergedFromTop(list, page) ==
  LET AsNew(s) == s >= page[Len(page)] IN
  IF page = <<>> THEN list
  ELSE page \o SubSeq(list, SelectLastInSeq(list, AsNew) + 1, Len(list))

\* expandNormalizedTimeline, its indices counted from 1; a GAP is older than
\* any page, and isPartial is never set
Merged(list, page) ==
  LET AsNew(s) == s >= page[Len(page)]
      Newer(s) == s > page[1]
      last     == SelectLastInSeq(list, AsNew)
      first    == SelectLastInSubSeq(list, 1, last, Newer)
  IN
  IF page = <<>> THEN list
  ELSE SubSeq(list, 1, first) \o page \o SubSeq(list, last + 1, Len(list))

Without(list, S) ==
  LET kept == {i \in DOMAIN list : list[i] \notin S}
  IN  [k \in 1..Cardinality(kept) |-> list[Nth(kept, k)]]

\* The home timeline is refreshed every three seconds
Partial == IF items = <<>> THEN TRUE ELSE Head(items) = GAP

Shown == {items[i] : i \in DOMAIN items} \ {GAP}

-----------------------------------------------------------------------------
(* The server *)

\* A new status without anybody to tell: will a page be asked for that has it?
Announced ==
  \/ socket = "subscribed"
  \/ socket = "closed" /\ opened
  \/ request.at = "asked" /\ request.max = 0
  \/ ~ opened /\ ~ isLoading /\ Partial

Publish(s) ==
  /\ s \notin Posted
  /\ s \in Remote \/ \A t \in Posted : t < s
  /\ ReblogOf[s] \in feed \cup {0}
  /\ feed' = feed \cup {s}
  /\ overtaken' = (overtaken \/ \E t \in Posted : t > s)
  /\ wire' = IF socket = "subscribed" THEN Append(wire, [event |-> "update", id |-> s]) ELSE wire
  /\ holed' = (holed \/ ~ Announced)
  /\ UNCHANGED <<removed, removals, socket, opened, items, request, top, polling, drops, fails, caught>>

\* RemoveStatusService; its reblogs go after it, in the order they are found
RemoveStatus(s) ==
  LET reblogs == {t \in feed : ReblogOf[t] = s} IN
  /\ s \in feed
  /\ removals < MaxRemovals
  /\ removals' = removals + 1
  /\ feed' = feed \ ({s} \cup reblogs)
  /\ removed' = removed \cup {s} \cup reblogs
  /\ \E order \in Bijection(1..Cardinality(reblogs), reblogs) :
       wire' = IF socket = "subscribed"
               THEN wire \o [i \in 1..(Cardinality(reblogs) + 1) |->
                              [event |-> "delete", id |-> IF i = 1 THEN s ELSE order[i - 1]]]
               ELSE wire
  /\ UNCHANGED <<socket, opened, items, request, top, polling, drops, fails, past>>

-----------------------------------------------------------------------------
(* Pages *)

\* Variant: since_id is taken to include the status it names
ExpandFromNext(max) ==
  /\ ~ isLoading
  /\ request' = [at |-> "asked", max |-> max,
                 since |-> IF max = 0 /\ items # <<>> THEN Head(items) + 1 ELSE 0]

\* expandTimeline, which does nothing while a page is under way
Expand(max) ==
  /\ ~ isLoading
  /\ request' = [at |-> "asked", max |-> max,
                 since |-> IF max = 0 /\ items # <<>> THEN Head(items) ELSE 0]

Refresh ==
  /\ polling \/ Partial
  /\ Expand(0)
  /\ UNCHANGED <<server, stream, items, top, fails, past>>

\* The user scrolls down, where a gap may be
LoadOlder ==
  /\ items # <<>>
  /\ Expand(items[Len(items)])
  /\ UNCHANGED <<server, stream, items, top, fails, past>>

FillGap(i) ==
  /\ i > 1 /\ items[i] = GAP
  /\ Expand(items[i - 1])
  /\ UNCHANGED <<server, stream, items, top, fails, past>>

\* HomeController#show
Show ==
  /\ request.at = "asked"
  /\ request' = [at |-> "answered", since |-> request.since, max |-> request.max,
                 page |-> Page(request.since, request.max)]
  /\ holed' = (holed \/ (request.since # 0 /\ caught
                         /\ Cardinality(InRange(request.since, request.max)) > LIMIT))
  /\ UNCHANGED <<server, stream, items, top, fails, overtaken, caught>>

\* An update that is still on its way is older than the page, but not in it
Overtakes(page) ==
  \E i \in DOMAIN wire :
    LET e == wire[i] IN
    e.event = "update" /\ page # <<>> /\ e.id < page[1] /\ \A k \in DOMAIN page : page[k] # e.id

ExpandSuccess ==
  /\ request.at = "answered"
  /\ items' = Merged(items, request.page)
  /\ request' = None
  /\ overtaken' = (overtaken \/ Overtakes(request.page))
  /\ holed' = (holed \/ (request.max # 0 /\ request.max \notin Shown))
  /\ caught' = (caught \/ request.max = 0)
  /\ UNCHANGED <<server, stream, top, fails>>

ExpandFail ==
  /\ isLoading
  /\ fails < MaxFails
  /\ fails' = fails + 1
  /\ request' = None
  /\ holed' = (holed \/ (request.max = 0 /\ opened /\ (request.since # 0 \/ ~ Partial)))
  /\ UNCHANGED <<server, stream, items, top, overtaken, caught>>

-----------------------------------------------------------------------------
(* Events of the stream *)

\* updateTimeline; references are the statuses with the text of a reblog
TimelineUpdate ==
  LET s     == Head(wire).id
      cut   == top /\ Len(items) > FULL
      kept  == IF cut THEN SubSeq(items, 1, KEPT) ELSE items
      same  == IF ReblogOf[s] = 0 THEN {} ELSE {t \in Ids : SameText(s, t)}
      known == \E i \in DOMAIN items : items[i] = s
  IN
  /\ wire # <<>> /\ Head(wire).event = "update"
  /\ wire' = Tail(wire)
  /\ items' = IF known THEN items ELSE <<s>> \o Without(kept, same)
  /\ holed' = (holed \/ (~ known /\ cut /\ request.at = "answered"))
  /\ UNCHANGED <<server, socket, opened, polling, drops, request, top, fails, overtaken, caught>>

\* deleteStatus, the reblogs included
TimelineDelete ==
  LET s == Head(wire).id IN
  /\ wire # <<>> /\ Head(wire).event = "delete"
  /\ wire' = Tail(wire)
  /\ items' = Without(items, {s} \cup {t \in Ids : ReblogOf[t] = s})
  /\ UNCHANGED <<server, socket, opened, polling, drops, request, top, fails, past>>

Scroll ==
  /\ top' = ~ top
  /\ UNCHANGED <<server, stream, items, request, fails, past>>

-----------------------------------------------------------------------------
(* The socket *)

\* connected, and from the second time on reconnected, which refreshes unless
\* a page is under way.  clearPolling stops the last timer; one that was set
\* by an earlier attempt, or whose refresh is under way, goes on
Connect ==
  /\ socket = "closed"
  /\ socket' = "open" /\ opened' = TRUE
  /\ polling' \in {FALSE, polling}
  /\ IF opened /\ ~ isLoading THEN Expand(0) ELSE UNCHANGED request
  /\ holed' = (holed \/ (opened /\ isLoading))
  /\ UNCHANGED <<server, wire, items, top, drops, fails, overtaken, caught>>

\* The streaming server's SUBSCRIBE is carried out
Subscribe ==
  /\ socket = "open"
  /\ socket' = "subscribed"
  /\ UNCHANGED <<server, opened, wire, polling, drops, items, request, top, fails, past>>

\* Variant: a list that has been loaded is taken for complete
DisconnectQuietly ==
  /\ socket # "closed" /\ drops < MaxDrops
  /\ drops' = drops + 1
  /\ socket' = "closed" /\ wire' = <<>>
  /\ polling' = TRUE
  /\ caught' = isLoading
  /\ UNCHANGED <<server, opened, items, request, top, fails, holed, overtaken>>

\* disconnected: what is under way is lost, the list gets a gap
Disconnect ==
  /\ socket # "closed" /\ drops < MaxDrops
  /\ drops' = drops + 1
  /\ socket' = "closed" /\ wire' = <<>>
  /\ polling' = TRUE
  /\ items' = IF Partial THEN items ELSE <<GAP>> \o items
  /\ caught' = isLoading
  /\ UNCHANGED <<server, opened, request, top, fails, holed, overtaken>>

-----------------------------------------------------------------------------
\* A page that is opened asks for statuses and for a stream
Init ==
  /\ feed = {s \in {1, 2} \cap Ids : ReblogOf[s] = 0} /\ removed = {}
  /\ socket = "closed" /\ opened = FALSE /\ wire = <<>>
  /\ items = <<>>
  /\ request = [at |-> "asked", since |-> 0, max |-> 0]
  /\ top = TRUE /\ polling = FALSE
  /\ removals = 0 /\ drops = 0 /\ fails = 0
  /\ holed = FALSE /\ overtaken = FALSE /\ caught = TRUE

Next ==
  \/ \E s \in Ids : Publish(s) \/ RemoveStatus(s)
  \/ Refresh \/ LoadOlder \/ \E i \in DOMAIN items : FillGap(i)
  \/ Show \/ ExpandSuccess \/ ExpandFail
  \/ TimelineUpdate \/ TimelineDelete \/ Scroll
  \/ Connect \/ Subscribe \/ Disconnect

Spec == Init /\ [][Next]_vars

-----------------------------------------------------------------------------
(* Properties *)

TypeOK ==
  /\ feed \subseteq Ids /\ removed \subseteq Ids
  /\ socket \in {"closed", "open", "subscribed"} /\ opened \in BOOLEAN
  /\ wire \in Seq(Events)
  /\ items \in Seq(Ids \cup {GAP})
  /\ request \in Requests
  /\ top \in BOOLEAN /\ polling \in BOOLEAN
  /\ removals \in 0..MaxRemovals /\ drops \in 0..MaxDrops /\ fails \in 0..MaxFails
  /\ holed \in BOOLEAN /\ overtaken \in BOOLEAN /\ caught \in BOOLEAN

\* However pages and events meet, the newer is above the older and nothing is
\* shown twice, as long as statuses arrive in the order of their ids
NewestFirst ==
  ~ overtaken =>
    \A i, j \in DOMAIN items :
      i < j /\ items[i] # GAP /\ items[j] # GAP => items[i] > items[j]

\* A reblog stands for what it shows
Regrouped(s) == \E t \in Posted : t > s /\ SameText(s, t)

\* Where the list lacks statuses of the feed there is a gap to fill, and above
\* it nothing while the stream is on, but for what was missed with nobody to
\* ask again: before the stream was on the first time, when a refresh was
\* refused or failed, when a later refresh than the first after a loss was
\* longer than a page, when what a page was to follow is gone, when the list
\* was cut above a page on its way
NoSilentGap ==
  ~ isLoading /\ ~ holed /\ ~ overtaken =>
    /\ \A i \in 1..(Len(items) - 1) :
         items[i] # GAP /\ items[i + 1] # GAP =>
           \A s \in feed : items[i] > s /\ s > items[i + 1] => Regrouped(s)
    /\ (socket = "subscribed" /\ wire = <<>> /\ ~ Partial) =>
         \A s \in feed : s <= Head(items) \/ Regrouped(s)

\* A page that is merged takes nothing away but what was removed
NothingLost ==
  [][(request.at = "answered" /\ request' = None /\ fails' = fails /\ ~ overtaken')
       => Shown \ Shown' \subseteq removed]_vars
=============================================================================
