# A formal model of trollianspace

This directory holds TLA+ specifications of the parts of trollianspace (a fork
of the glitch edition of Mastodon) whose correctness depends on the order in
which things happen, the TLC configurations that check them on small instances,
and proofs that TLAPS checks for instances of every size. Paths are those of the
repository, from `src/`.

## 1. The system

Rails processes answer requests and write to PostgreSQL. What takes longer they
leave to **Sidekiq**: a job goes to a queue in Redis, a thread of some Sidekiq
process takes it, and a job that failed or was stopped is run again from the
top. Jobs are taken in no promised order and several run at once. **Redis** also
holds the feeds (sorted sets of status ids) and carries the events that the
**streaming server**, a Node process, hands to browsers. Other servers are
reached by HTTP deliveries, which are jobs too, and reach this one through its
inbox.

Almost nothing is protected by a lock. What one step reads (the verdict of a
filter, a page of statuses, a row, the answer of a query) is used in a later
step, when other processes have gone on. That is what the models are about.

### Inventory

| Component | State | Operations | What is hard | What makes it correct |
|---|---|---|---|---|
| Home feed (`app/lib/feed_manager.rb`, the workers that call it) | per account: timeline, the reblogs that stand for originals, the sets of reblogs held back | add, remove, trim, merge, unmerge, clear, populate, clean up | the filter is asked before the insertion; three groups of keys must agree; jobs are interrupted and run again | hidden accounts stay out; a text is shown once near the top; no key is lost; regeneration ends and fills the feed |
| Fan-out and removal (`fan_out_on_write_service.rb`, `remove_status_service.rb`) | the status, jobs | distribute to self, followers, lists, tags, streams; take it back | a removal meets a distribution that is under way | what is destroyed leaves feeds, lists and screens |
| Relationships (`account_interactions.rb`, follow, block and mute services) | follows, blocks, mutes, hidden reblogs | follow, unfollow, block, mute and back | the rows change at once, the feed by a job | feeds follow the rows |
| Direct conversations (`account_conversation.rb`) | a row per owner and set of participants: ids of statuses, unread, version | add, remove, read, dismiss | rows are copied, changed and written back by jobs, transactions and requests at the same time | no update is lost, each list gets its statuses, removed ones are in none, removals end |
| Streaming (`streaming/index.js`) | connections, listeners, heartbeats, subscriptions at Redis, queries | open, close, send, ping, beat | callbacks between a query and its answer; commands under way; clients that vanish; crashes | subscribed to exactly what has listeners; nothing outlives its socket; Rails knows who watches; order |
| Inbox (`lib/activitypub/activity*`) | statuses by URI, `delete_upon_arrival` marks, locks in Redis | Create, Announce, Delete, Undo | deliveries are late, repeated and reordered; a lock that is freed by who does not hold it (`activity.rb:133-137`) | each object once, a deleted one never again |
| Follows between servers, relays | follow requests and follows on both sides; a relay's state | Follow, Accept, Reject, Undo, enable, disable | answers to an earlier attempt | both sides agree in the end |
| Delivery (`delivery_worker.rb`, `delivery_failure_tracker.rb`) | days of failure, unavailable inboxes, the circuit breaker | deliver, retry, give up | retries of up to days, an inbox marked unavailable by one job under another | a server that is back is delivered to again |
| Posting (`post_status_service.rb`, `actions/compose.js`) | the draft and its key, idempotency keys in Redis, statuses | submit, post, delete; the rewriting of texts by this fork (lines 97-127) | the key is written after everything else; texts are rewritten before anybody looks for the mark of what stays here | one status per draft, what is answered is out, what is spared stays, what is local stays |
| Sign-in, sessions, invites (`user.rb`, `session_activation.rb`, `invite.rb`) | sign-in times, the regeneration flag, active sessions, uses of an invite | sign in, register | limits that are compared in one step and used in another | limits hold |
| Suspension (`suspend_account_service.rb`, `batched_remove_status_service.rb`, `activity/delete.rb`) | the mark of the account, statuses, feeds, follows, a key `delete_in_progress` | suspend, unsuspend, delete, block the domain; destroy in batches | three ways in, of which one has a lock; statuses are destroyed first and taken out of feeds afterwards, while more arrive; a retry passes over who is marked already | one deletion at a time, nothing of a removed person is left |
| Lists, notifications, timelines in the browser | feeds of lists; notifications; an array of ids per timeline | add, remove; notify; pages and events | as for home feeds; a page of the API meets events of the stream | as above |
| OStatus, media, search, OAuth, moderation, web interface | | | older protocol, input and output, libraries, forms over rows, rendering | |

`PROJECT.json` lists the same parts with their files and what is left out of
each, and the hazards, line by line.

### How the parts meet

A post, follow, mute or sign-in commits its rows and enqueues jobs. The jobs
change feeds and conversations, and publish events for streams. The streaming
server sets keys in Redis (`subscribed:...`) that tell the jobs whether anybody
watches. A removal walks back along the same ways. What goes to another server
is a delivery; what comes from one is a job of the inbox, which ends where a
local post begins, at the distribution.

The models meet at these interfaces. `Inbox` ends where a status is handed to the
distribution, `FeedManager` starts there and ends where an event is published,
`Streaming` goes from the event to the socket, `Timelines` from the socket and the
API to the list that a reader sees. `Conversations` shares with them only the
posting and removing of a status. `Posting` ends where `FeedManager` and `Delivery` start,
at the workers that are enqueued. `Follows` and `Relays` are conversations of two
servers over a network that delays, reorders and repeats, which is what
`Delivery` and the retries of `Inbox` make of HTTP.

## 2. The modules

| Module | Models |
|---|---|
| `FeedStore` | one feed in Redis as a value, and `add_to_feed`, `remove_from_feed`, `trim` and the clean-up as functions of it |
| `FeedManager` (EXTENDS `FeedStore`) | the home feed of one account, the requests that enqueue jobs, the jobs |
| `MCFeedManager` | small worlds: who posted, reblogged and answered what |
| `FeedManagerProofs` | theorems about `FeedManager` |
| `Streaming` | one process of the streaming server between Redis and its clients |
| `MCStreaming` | small sets of clients |
| `StreamingProofs` | theorems about `Streaming` |
| `ConversationList` | abstract: what the owner of a conversation is promised |
| `Conversations` | the rows and those who change them; implements `ConversationList` |
| `MCConversations` | two people who write to each other |
| `ConversationsProofs` | theorems about `Conversations` |
| `Inbox` | notes of other servers: created, announced, deleted by concurrent jobs |
| `MCInbox`, `InboxProofs` | a note and an announcement of it; theorems |
| `Delivery` | deliveries between two servers, failures, the marks of unavailable inboxes |
| `MCDelivery`, `DeliveryProofs` | two servers; theorems |
| `Follows` | who follows and blocks whom, as two servers know it |
| `Relays` | the row of a relay and those who change it |
| `Quirks` | the rewriting of a text by an author's rules, as functions |
| `Posting` (EXTENDS `Quirks`) | a composer, threads of the web server, keys |
| `Suspension` | a remote person that is suspended, deleted or blocked with its domain while it posts |
| `MCRequests` | explores `Follows`, `Relays`, `Posting` and `Suspension`, one beside the other |
| `FederationProofs`, `StatusesProofs` | theorems about `Follows` and `Relays`; about `Quirks`, `Posting` and `Suspension` |
| `Timelines` | the home timeline of a browser window |
| `MCTimelines`, `TimelinesProofs` | a window on five statuses; theorems |

A definition that starts with `Variant:` or whose name says so
(`FilteredRepliesFirst`, `UntrackFirst`, `InsertOver`, ...) is not part of the
model. It is a slip that somebody could make in the definition next to it, and
stands there because the property named in `PROJECT.json` fails when the slip is
made.

### FeedStore, FeedManager

A feed is `[timeline, reblogs, extras]`: the ids in the sorted set
`feed:home:ID`, the reblog that stands for each original in
`feed:home:ID:reblogs`, and the further reblogs in `feed:home:ID:reblogs:ID`.
Members of the timeline have their id as score, so a set of ids is its whole
state. `AddToFeed`, `RemoveFromFeed` and `Trim` follow `feed_manager.rb:60-83` and
`229-309` branch by branch: near the top or not, tracked or not, held back or not,
replaced or not.

The other variables are the statuses that exist or were destroyed, the owner's
relationships, whether the owner was here lately, the regeneration flag, the
queue (a bag of jobs) and for each thread the job it runs, how far it is and what
it has read. Requests (`Post`, `Mute`, `SignIn`, ...) change rows and push jobs.
A thread's step (`StartX`, then `Consider`, `AddNext`, `TrimHome`, ...) does the
reads up to, or one call of, a primitive of FeedManager, and `Interrupt` sends a
job back to the queue with all it did left as it is. So a mute may happen between
the question to the filter and the insertion, a deletion between two pages of
`populate_feed`, a sign-in between the two pipelines of the clean-up.

Statuses are numbers, older ones smaller. They are posted in any order, because
a remote status has the id of the time it was written
(`lib/mastodon/snowflake.rb`).

### Streaming

An action is one callback of the single thread: a connection, the answer to a
query, the close event of a socket, a timer, a message. Between callbacks are
what they wait for: `pipe` (commands on their way to Redis), `inbox` (messages on
their way back), `asking` (queries of the filter), `phase = "authorizing"`
(queries of the token or of a list's owner). A socket goes from open over closing
(its `close` event is still to come) to closed; a client may `Vanish` without its
socket knowing. `lifetime` counts the intervals that the `subscribed` key has left
(it is set for three intervals of the heartbeat). `sent` and `log` remember what
clients were sent and what was published.

### ConversationList, Conversations

`row` maps a list, a pair of an owner and the other participants, to the
committed row. A thread reads it (`LoadToAdd`, `LoadToRemove`), validates its copy
(`Check`, `Refuse`), and writes it when `lock_version` is what it was (`Insert`,
`Update`, `Unlink`), else it starts again. The removal of a status is one
transaction over the rows of all who see it (`status.rb:516-525`): `held` are the
rows it has locked, others wait for them, and nothing is seen before `Commit`.
Two removals may wait for each other; PostgreSQL then aborts one (`Abort`).
`Shutdown` puts the job of a thread back. `notified` are the notifications that
exist: a job that finds its own gives up (`Discard`).

`ConversationList` knows none of this: a status is added to a list, removed from
several at once, a list is read or dismissed. `ImplementsList` says that every
step of `Conversations` is one of these or changes nothing that an owner sees.

### Inbox

`origin` is the life of an object on the server it comes from, which decides what
that server may send; `Deliver` puts an activity into the queue early, late or
again. A thread walks through `Activity::Create#perform` (`Check` the mark, `Lock`,
`Find`, `Create`, `Distribute`), `Announce` (which fetches and creates a note that is
not known, then `Announceable`, `Announce`, `DistributeReblog`), `Delete` (`LookUp`,
`Mark`, `Remove`) and `Undo`; each step is one access to Redis or to the database. `row`
holds the id of the status, so that one created again is told from the first;
`lock` is freed by its holder, when it raises, or after its minute; `mark` runs out
(`Forget`). `Stop` puts a job back, `Kill` loses it and leaves its lock behind.
`audience` are those of our accounts that a note delivered to their own inbox
mentions (`create.rb:96-109`).

### Delivery

A delivery is `queued`, at its `request`, `answered` or `failed`; after a failure
`track_failure!` adds the day (`NoteDay`), counts the days (`CountDays`) and marks
the inbox (`MarkUnavailable`), and the exception then makes Sidekiq retry. The
circuit breaker counts `failures` and is red while the last one is `recent`; it then
raises without a request (`RedLight`), which by its own rules is no failure, but
uses up a retry. Retries wait ever longer: from the fourth of the sixteen on they
come after the light's minute, which is `SHORT` in the model. An answer takes both
marks away: the sender's when it succeeds, and that of the other server on the
sender when the delivery arrives there (`inboxes_controller.rb:23-31`).

### Follows, Relays

`here` and `there` are what the two servers have in their database: a follow, a
request, a block, each with the URI under which it is known to the other. The
requests (`Follow`, `Unfollow`, `Authorize`, `Refuse`, `Block`, `Unblock`) change one
side and put an activity on the `wire`; a handler takes any activity from the wire,
changes its side and may answer. `mark` is what an Undo remembers when it comes
before what it undoes. Whether an account is locked is a free choice.

In `Relays` the answer is matched with the row by the id of the Follow (`ReadAnswer`)
and its state written in a second step (`WriteState`); the relay may answer twice
and change its mind.

### Quirks, Posting

A text is a sequence of tokens: the exceptions of `post_status_service.rb:120`
(mentions, links, names of emoji, what is in brackets) and others. `SafeHold` puts a
placeholder for each exception, `Gsub` applies one rule, `SafeReturn` puts the
exceptions back, and `QuirkifyText` does so for one rule after the other; a rule
matches tokens or the end of the text. `Meant` is the reference: the same without
placeholders.

`composer` is the draft with its key, which is new after each change
(`reducers/compose.js`). A request is `handling[t]`, in a thread `t` of the web server:
`LookUp` asks Redis for the key, `Create` rewrites the text and commits, then
`ProcessMentions`, `Distribute`, `Federate`, `Save` and `Answer` follow
`PostStatusService#call` line by line. `GiveUp` is a connection that is lost while the
thread goes on, `Break` a thread that stops. `out` says who was told of a status.

An account that never saved its profile has NULL for its lists of rules
(`db/schema.rb:103-104`), for which `account.quirk.split` raises: its requests fail in
`Create` (`Unset`). People on other servers whom a text mentions are told in
`ProcessMentions`, also of what is to stay on this server: the service does not ask.

### Suspension

`jobs` are purges that wait in Redis, by what ordered them: a moderator
(`Admin::SuspensionWorker`), a domain block, the Delete of the person. `Take` is what
stands before `SuspendAccountService`: activities of a suspended account are ignored
(`process_collection_service.rb:13`), a domain block looks for accounts that are not
suspended, a moderator's worker does not ask. `purge[w]` is the service in a thread, in
the order of its `call`: `SaveProfile`, `ReadBatch`, `DestroyPost` for each status,
`UnpushBatch`, `DestroyFollows`; a deletion has `Lock` before it and `DestroyAccount` and
`Unlock` after it. `SaveProfile` writes the mark only if it changes what the account was
when it was loaded, so an account whose suspension was lifted meanwhile is purged and
not suspended.

`way[p]` is a status that arrives, from the look at the account (`CheckAccount`) to the
feed (`PushPost`). `Stop` is an exception or a shutdown: the job comes back, and `ensure`
deletes the key. `Kill` loses the job and leaves the key.

### Timelines

`feed` is what the server has, `wire` the events that are on their way to the
browser, `request` the page that is being asked for (one at a time, `isLoading`),
`items` the list with its gaps. `Merged` is `expandNormalizedTimeline`
(`reducers/timelines.js:33-64`): where a page begins and ends in the list is found
by comparing ids. `TimelineUpdate` cuts a long list while the reader is at the top
and takes away what a reblog shows again. `Disconnect` puts a gap at the top
(line 138), and then polls; `Connect` for the second time refreshes at once.

## 3. The checks

Runs that pass:

| Run | World and bounds | Shows |
|---|---|---|
| `feed_hidden` | 1 thread; 5 statuses (an original, a reply, a reblog, my own reply, a limited one), 3 accounts, 2 of the operations on relationships, deletion, absence, 2 kinds of jobs waiting, 1 interruption; MAX_ITEMS 4, falloff 2 | `TypeOK`; `HiddenStayOut`: a post of somebody muted or blocked is in the feed only while its clearing job is still to finish; `NoOrphanedExtras`: held-back reblogs are always found by whoever has to delete them |
| `feed_returning` | 2 threads; an original with 2 reblogs and 2 statuses that a filter hides, 3 of going, coming back, expiry, follow, 1 interrupted regeneration; fair | `ShownOnce`, `RegenerationPending`, `RegenerationEnds`, `RegenerationFills` |
| `stream_ends` | 3 WebSockets of one account, 1 crash; fair | `TypeOK`, `SubscriptionFollows`, `NothingLeftBehind`, `ToldWhileWatched`, `ToldWhenUnwatched`, `VanishedReaped` |
| `stream_order` | a visitor without and a client with a token on the public timeline, 2 statuses and their deletions, 1 crash | `InOrder` |
| `conv_lists` | 2 people, 2 messages, 2 threads, 2 deletions, requests or shutdowns; fair | `TypeOK`, `ImplementsList`, `OwnAdded`, `UnlinkedAtLeisure`, `RemovalEnds` |
| `inbox` | a note and an announcement, delivered to the shared inbox and to one of our accounts, 2 threads, 3 deliveries, 1 shutdown, 1 kill; fair | `TypeOK`; `DeletedStaysGone`; `OwnerReached`: whoever's inbox a note came to may read it; `Arrives`: what came is there and distributed in the end |
| `delivery` | 2 servers that deliver to each other, 2 deliveries at a time, 2 failures for the light, 2 days for the mark, 2 retries the first of which is short, 1 cut; fair | `TypeOK`; `MarkedForAReason`; `NotGivenUp`: not on account of the light alone; `BackAgain`: with the connection back both deliver again, or both have given up |
| `requests` | a pair of accounts with 2 follows, 2 blocks, 1 activity delivered twice; a relay enabled twice, 2 threads; 2 drafts, 3 requests, 2 threads one of which breaks off, 4 kinds of rules; a person with 2 posts and 2 orders to remove it or 1 post and 3, 2 threads, 1 interruption | `TypeOK`; `AgreeInTheEnd`: with nothing under way both servers know the same; `AcceptedIsCurrent`: only the answer to the last Follow counts; `OnePerKey`: a draft becomes one status; `AnsweredAreOut`; `ExceptionsStay`: rules change what they may; `StaysHereUnlessRewritten`; `OneDeletion`; `PurgedIsGone`: once a purge is over nothing of the person is left |
| `browser` | 5 statuses (a reblog, one that comes late), pages of 2, a list cut from 3 to 2, 1 removal, 2 lost connections, 1 failed request | `TypeOK`; `NewestFirst`; `NoSilentGap`: what is missing shows; `NothingLost`: merging a page takes nothing away |

Runs in which TLC finds that the code does not do what the repository says of it
(the quotations are under "findings" in `PROJECT.json`):

| Run | Property | What happens |
|---|---|---|
| `dead_replacement` | `ReplacementExists` | a reblog that was held back and undone stays in the set and later takes the place of another one, destroyed as it is |
| `stream_ghost` | `DeletedStaysDeleted` | an update waits for its filter query, the deletion that follows it does not |
| `conv_lost` | `MentionedAdded` | two jobs create the same row, the second fails, and its retry stops at the notification it made the first time |

### Why the bounds are enough

- *Feeds.* Every branch of the primitives needs an original, two reblogs of it
  and one more status; a feed of 4 with a falloff of 2 has entries inside the
  window, outside it and beyond the end, and a quarter (2 for half, 1 for a
  quarter) of it is still a page. Two threads are enough for a reader and a
  writer that overtakes it. An operation and its reversal need two or three
  events. `MaxQueue` bounds only the requests: jobs push jobs whatever is
  waiting.
- *Streams.* Two streams share a channel and a third shares it without a
  heartbeat: first, last and middle listener, and a listener that does not
  count. One crash separates two lives of the process.
- *Conversations.* Two people are the least with two rows and two lock orders;
  two messages collide on one row or each on the other's, and one of them is the
  last of a list when the other goes. Liveness is checked, so there is no symmetry.
- *Inbox.* Two threads are the least that meet in the lock, before it and after it; of
  three deliveries two can be of one activity while the third undoes it, or one of
  each kind. One announcement reaches every branch; of two by the same person only
  one is a reblog, whichever wins the index.
- *Delivery.* Two days and two failures are the least that are not reached at once.
  Of two retries the first comes within the light's minute and the second after it;
  with two places a success overtakes a failure that is being noted.
- *Follows.* A second follow and a second block are what answers to the first can
  reach too late. One repetition follows any of the activities. The relay's world is
  explored where the accounts do nothing, and the other way round: they share no
  state.
- *Posting.* Two threads are the least that meet between the look at a key and its
  writing; with the third request a key is found, or not found any more, after both.
  The text has two different exceptions, so that their order matters, and words that
  one rule turns into an exception for the next.
  The two threads are alike, which halves the states (`SYMMETRY`; there is no liveness).
- *Suspension.* Three deletions by two threads are the least of which one is kept out and
  frees the key for the third. Two posts make one that a purge has read and one that it
  has not, or a batch that is stopped in the middle; with both there are two orders, which
  cross, follow each other or take back one another.
- *Timelines.* Five ids over pages of two: a page can leave out something newer than
  the list, overlap it or end in it; the list of three is cut to two. The first lost
  connection leaves a gap, the second one a gap above a gap, or in the middle.

All runs but those of streams say `CHECK_DEADLOCK FALSE`: when everything is
posted, sent or handled and the bounds are used up, the system rests. In
`Streaming` the timers never stop.

### Fairness

- `FeedManager`: `WF` on each thread's next step. Sidekiq's threads poll the queue
  and go on; requests need not come.
- `Streaming`: `WF` on the ping sweep, the heartbeat interval (timers), on carrying
  out what is in `pipe` and `inbox`, on the close event of a socket that is
  closing, and on the thump over HTTP. Clients owe nothing, and queries need not
  be answered.
- `Conversations`: `WF` on fetching a job and on each thread's next step; `SF` on the
  write of a thread to a row of each owner. PostgreSQL grants the lock of a row in
  the order it was asked for, so somebody who waits gets it although it is taken
  again and again in between; weak fairness would let it be taken by others for
  ever.
- `Inbox`: `WF` on each thread, which polls the queue and goes on, and on the end of a
  lock, which Redis removes after a minute. Deliveries need not come.
- `Delivery`: `WF` on the next step of each delivery and on the cooling of the light,
  which is time; `SF` on somebody posting on each server, because a server that
  nobody writes on has nothing to find out with, and the two share the places for
  deliveries, of which none may be free when looked at. The connection need not
  come back; `BackAgain` says what happens if it stays.

`Follows`, `Relays`, `Posting`, `Suspension` and `Timelines` state no liveness: an activity that never
arrives is one that its sender gave up, and a request need not be made again.

### Conditions under which a property holds

They are in the properties or the configurations, and are met in practice only as
far as stated:

- `HiddenStayOut` needs one Sidekiq thread. With two, an insert that asked the
  filter before the mute (`feed_insert_worker.rb:26`) adds its status after the
  clearing job has gone through the feed. With one, no job is ever in the middle
  of another, and the property rests on the order of the queue and on the filter
  alone.
- `NoOrphanedExtras` needs clean-ups that are not interrupted between their
  pipelines (`feed_cleanup_scheduler.rb:23-46`): the first deletes the list the
  second works from.
- `RegenerationFills` is checked and proved without clean-ups. A clean-up that read the
  inactive accounts before a sign-in deletes the feed that the sign-in
  regenerated. The theorem says what else must not happen meanwhile (`Undisturbed`):
  new follows, a filter that relents, removals that empty the feed; and it needs
  MAX_ITEMS of at least 2, as a page is of `MAX_ITEMS / 2` statuses.
- `ShownOnce` is checked and proved where nothing is removed (`NothingTakenOut`), since a
  removal brings older entries into the window.
- `ShownOnce` is about a window that is an entry shorter than the comment in
  `feed_manager.rb:238` has it: `zrangebyscore` includes its bounds, so the last of the
  falloff's entries is outside (line 74).
- `NothingLeftBehind` needs streams that start in the callback of their
  connection. A list, and any stream with a token over HTTP, waits for a query
  first; a window that closes meanwhile leaves a listener and a timer for good
  (`streaming/index.js:593`).
- `UnlinkedAtLeisure` is about deletions that meet neither another deletion nor a
  job that still adds the status (`hasty` is false). A late add finds the status
  in its own query cache and puts an id into a list that the removal has passed.
  With two deletions, the one that removes the older status fails the validation
  of `last_status` when the other has just destroyed it; `save` returns false,
  which `remove_status` ignores (line 82).
- `OwnAdded` and `MentionedAdded` excuse a job that ends after a deletion began.
- `DeletedStaysGone` excuses `crossed`: a Create that was past its look at the mark when
  the Delete looked for the note or carried it out (the mark is asked for before the
  lock, `create.rb:8`), and a mark whose six hours are over, although deliveries are
  retried for two days.
- `Arrives` excuses `cut`, jobs stopped between the commit and the distribution, whose
  retry finds the status and distributes nothing (`create.rb:44`), and `lost`: killed
  jobs, and announcements of a note that its server did not hand out.
- `MarkedForAReason` excuses `raced`: a success between counting the days and setting
  the mark (`delivery_failure_tracker.rb:10-13`) leaves a mark without days.
- `BackAgain` allows that both servers have marked each other. Nothing is sent then,
  so nothing arrives that would take a mark away.
- `AgreeInTheEnd` excuses `crossed`: a follow, block or unblock sent while an older
  activity about the same was under way, which then may arrive later, and what comes
  twice or after its mark.
- `AcceptedIsCurrent` excuses `overtaken`: a handler that read the row before it was
  disabled writes `accepted` onto the idle row.
- `OnePerKey` excuses `twice`: a look at the key while another request for the same draft
  was between its own look and its writing of the key (`post_status_service.rb:18-52`),
  a request that broke off after the commit, and a key whose hour was over.
- `StaysHereUnlessRewritten` needs rules that leave the end of the text alone. The
  interface says of such a draft "Do not post to other instances"
  (`app/javascript/flavours/glitch/locales/en.js:58`) and appends the mark to its text
  (`actions/compose.js:124-126`); a rule that appends something to every text moves it
  from the end, where `status.rb:419-422` looks for it, and the status is sent out.
- `ExceptionsStay` is about texts and rules without the placeholder.
- `OneDeletion` excuses `refused`: whoever is kept out by the key deletes it
  (`activity.rb:133-137`), so the next one is let in while the first is still at work.
- `PurgedIsGone` excuses `late`, posts that were let in before the account was marked and
  written after it: no purge reads them, and the row of a suspended account keeps them;
  `dropped`, posts that were destroyed while an insertion held them, or whose purge ended
  before it came to the feed; `together`, two purges that cross, of which one makes the
  followers unfollow before the other has been through their feeds; and `unfinished`: a
  deletion or domain block that is interrupted has marked the account, so that its own
  retry passes over it (`process_collection_service.rb:13`,
  `block_domain_service.rb:46`), and what is left stays until a moderator suspends again.
- `InOrder` is about visitors without a token: for others an update waits for its query
  (`stream_ghost`).
- `NoSilentGap` excuses `holed`: a status published before the stream was on for the first
  time and after the first page; a refresh that failed, was refused because another
  page was under way, or was longer than a page although the last loss of the
  connection had been made up for; a page below a status that is no longer there; and a
  page that was answered before, and is merged after, an event cut the list above where it
  belongs (with LIMIT 2, FULL 3 and KEPT 2, a window on seven statuses can end with 7, 6,
  5, 2, 1; the run is too small for this, the attempt to prove the property without the
  excuse showed it). In all of these the list lacks something and shows no gap.
  `NewestFirst` and the others excuse `overtaken`: a remote status older than what is
  shown is put on top.

## 4. The proofs

TLAPS checks these for every value of the constants that satisfies the
assumptions of the modules (`StatusesAssumption`, `LimitsAssumption`,
`AccountsAssumption`, `ConnsAssumption`, `ConversationAssumption`, ...), which say no
more than which set each constant is of, that a reblog is of an original, that
the falloff is no larger than the feed, that a window cuts its list to no more than
the length at which it does so, and that neither the placeholder nor the mark of what stays
here is an exception: the expression in `post_status_service.rb:120` matches neither
alone (`RulesAssumption`, which also says what texts and rules are made of).

| Theorem | States | Under |
|---|---|---|
| `FeedManagerProofs!TypeCorrect` | `[]TypeOK` | |
| `FeedManagerProofs!HeldBackReachable` | `[]NoOrphanedExtras` | clean-ups are not interrupted; any number of threads |
| `FeedManagerProofs!FlagIsMeant` | `[]RegenerationPending` | |
| `FeedManagerProofs!HiddenOut` | `[]HiddenStayOut` | one thread |
| `FeedManagerProofs!GroupingWorks` | `[]ShownOnce` | nothing is taken out for itself; any number of threads |
| `FeedManagerProofs!RegenerationSkipsNone` | `RegenerationFills` | `Undisturbed`, MAX_ITEMS at least 2; any number of threads |
| `StreamingProofs!TypeCorrect` | `[]TypeOK` | |
| `StreamingProofs!Followed` | `[]SubscriptionFollows` | |
| `StreamingProofs!Told` | `[]ToldWhileWatched` | |
| `StreamingProofs!LeftBehindByNone` | `[]NothingLeftBehind` | no stream waits for a query before it starts |
| `StreamingProofs!ShownInOrder` | `[]InOrder` | |
| `ConversationsProofs!TypeCorrect` | `[]TypeOK` | |
| `ConversationsProofs!Implements` | `ImplementsList` | |
| `ConversationsProofs!OwnKept` | `OwnAdded` | |
| `ConversationsProofs!UnlinkedThen` | `[]UnlinkedAtLeisure` | |
| `InboxProofs!TypeCorrect` | `[]TypeOK` | |
| `InboxProofs!DeletedAlways` | `[]DeletedStaysGone` | |
| `InboxProofs!OwnerReachedAlways` | `OwnerReached` | |
| `DeliveryProofs!TypeCorrect` | `[]TypeOK` | |
| `DeliveryProofs!MarkedAlways` | `[]MarkedForAReason` | |
| `DeliveryProofs!NotGivenUpAlways` | `NotGivenUp` | some retry comes after the light has cooled off (`BackoffAssumption`) |
| `FederationProofs!TypeCorrect` | `[]TypeOK` | |
| `FederationProofs!ServersAgree` | `[]AgreeInTheEnd` | |
| `FederationProofs!AcceptedAlways` | `[]AcceptedIsCurrent` | |
| `StatusesProofs!TypeCorrect` | `[]PostingTypeOK` | |
| `StatusesProofs!OneEach` | `[]OnePerKey` | |
| `StatusesProofs!OutFirst` | `[]AnsweredAreOut` | |
| `StatusesProofs!SparedStay` | `[]ExceptionsStay` | |
| `StatusesProofs!MarkedStays` | `[]StaysHereUnlessRewritten` | |
| `StatusesProofs!RemovalTypeCorrect` | `[]SuspensionTypeOK` | |
| `StatusesProofs!OneAtATime` | `[]OneDeletion` | |
| `StatusesProofs!NothingStays` | `[]PurgedIsGone` | |
| `TimelinesProofs!TypeCorrect` | `[]TypeOK` | |
| `TimelinesProofs!OrderKept` | `[]NewestFirst` | |
| `TimelinesProofs!MergeLosesNothing` | `NothingLost` | |
| `TimelinesProofs!GapsAreSeen` | `[]NoSilentGap` | |

*Feeds.* `TypeOK` is inductive as it stands, given that each primitive takes feeds
to feeds (`AddType`, `RemoveType`, `TrimType`, `CleanupType`). `NoOrphanedExtras`
is inductive with it: `PrimitivesTrack` says that no primitive drops an entry of
`reblogs` without the set of held-back reblogs that belongs to it.
`HiddenStayOut` is not: `HiddenInv` adds that what is in the feed was posted
(`SeenExist`; otherwise an id in the feed could become that of a new status), that
only reblogs are held back (so what replaces a reblog is nobody's own post), that
a thread about to add a hidden account's post has the clearing job still queued
behind it (`MutedNext`), and that a clearing job under way has every such post
still before it (`ClearCovers`; with one thread nobody can add one behind it).
`RegenerationPending` is inductive with `TypeOK`: only the start of a regeneration
takes its job, an interruption puts it back, and a thread that has it goes on or
deletes the flag.

`ShownOnce` is about the newest entries, and every insertion and trim moves what those
are. `Grouped` puts it in ranks: of two entries with the same text the older has at least
a falloff of entries above it (`RepeatedFarDown`), and so has, but for one, a reblog that no
longer stands for its original (`UntrackedFarDown`). Adding raises no entry
(`AddGroups`), and trim untracks only what it counts to be that far down. What a page of a
regeneration has passed by while the feed is empty is filtered or refused, or has a job
of its own (`Looked`); when a page comes back empty nothing is older, since a set of
numbers that has a member has a least one (`LeastNatural`).

*Streams.* `SubscriptionFollows` speaks of what Redis will forward when it has
carried out `pipe`; the lemmas `AppendSettled` and `ExecuteSettled` say how a
command at the end, and carrying out the one at the front, change that. It is
inductive with `TypeOK`. `ToldWhileWatched` needs that an open stream's own timer
runs (`Beating`), `NothingLeftBehind` that a connection with a listener or a timer
has its close handler attached (`Attached`). `InOrder` needs `Ordered`: what was
sent is older in the log than what is in the inbox, which is in order itself, and only
streams that may have to ask get an answer; a restart empties the inbox.

*Conversations.* The invariant is `Safe`. `Locks`: a transaction has locked rows
that list the status it removes, and nobody else has. `RowIds`: ids come from a
sequence, so that a row that was deleted and created again is not taken for the
old one. `Copies`: a copy with the id and version of the row is the row. `Aims`: a
thread with a copy is going to add a status that is not in it or to remove one
that is. `RowSteps` sums up how rows may change (not, with a new version, to
nothing, or from nothing with a new id), from which `CopiesStep` shows that a copy
once stale stays stale. Then each write maps to the operation of the abstract
list that it stands for, `Commit` to the removal from all locked lists at once,
and everything else to a stutter.

`OwnAdded` rests on two more invariants. `Known`: jobs, copies and rows name only
statuses that were posted, so that while nothing is deleted every validation of a
row's last status succeeds. `Target`: the copy held for adding a status is of the
list with all other participants, unless the status is gone. `EndOfAdd` then goes
through the ways in which a thread gets rid of a job, of which only those that
leave the status in the list remain.

`UnlinkedAtLeisure` rests on `Calm`, which holds as long as nobody is hasty: a job that
adds a status means that it is live (`Spreading`), one that removes it that it is doomed
or gone (`Removing`), at most one status is doomed (`OneDoomed`), only the lists of all
participants name any, and only live ones (`FullOnly`), and a removal has locked every
row it has been to that names its status, while no validation of it fails (`Through`).

*Inbox.* `DInv` says for each note that nobody crossed: if it is gone there is no
status, nobody is on the way to create one, and the mark stands in the way of those
who come (`GoneQuiet`); who deletes it either found nothing and nothing comes, or
what it found is there until somebody has deleted it (`Deleting`). Neither holds
alone: a Delete that found nothing makes the note gone in a later step.
`OwnerReached` adds `Owned`: a job that has created a note and not yet distributed it
has its recipient among those mentioned, and `AudienceGrows`: nobody is taken from
them while the note is there.

*Delivery.* `MarkedForAReason` needs `Counted`: who is about to set the mark has seen
enough days, and no success has taken them away since. `NotGivenUp` rests on
`Patient`: a delivery that had the connection all its time meets no new failure of
the light, so it fails only while the light is still red from before, and these are
its short retries; `BackoffAssumption` leaves one that is not.

*Follows.* `AgreeInTheEnd` speaks of the moment when nothing is under way, so the
invariant, `Agreed`, says what the two servers may hold at any other time as long as
nothing has crossed. A follow is in one of four phases of its life: `Asking`,
`Following`, `Leaving` and `Over`, each with the rows that go with it on the other
server and just the activities under way (`Talk`); a block is known to both, or the
`Block` or its `Undo` is still to come (`BlockAgreed`). The two meet in one place: a
follow that the block has removed on one server only is there as long as the `Block`
is under way. All activities are about the last follow and the last block
(`OnlyNewest`), and no mark is kept for those to come (`Marks`).

*Relays.* `Given`: an answer that is handled was given; `Matched`: it is about the
Follow of the row, unless the row was changed since it was read.

*Posting.* `OnePerKey` needs `Alone`: for a draft that is not excused one thread at most
is between the look at the key and its writing, and while it is there nothing is
saved; and `Known`: a status of such a draft is the saved one, or in the hands of that
thread. So two of them are one. `AnsweredAreOut` rests on `Told`, which says whom a
thread has told by the step it has come to, and on `SavedAreOut`, as a request may be
answered with what another one saved.

What `QuirkifyText` makes of a text is proved without induction over data: a fold is a
recursive function on the sets of indices, which exists (`FoldExists`) and so has what it
promises (`HoldSteps`, `ReturnSteps`, `RuleSteps`: the text after each step); an
induction over the steps is one over numbers (`StepByStep`, from the well-foundedness of
`<`). `ScanLists` says that the list of exceptions has the k-th of them at k; so what is held
in its order (`HoldAll`) is returned where it was (`ReturnAll`), for the next placeholder is always
that of the next exception, since neither a rule nor what was returned puts in another.
`RuleIs` follows, that a rule does what is meant, and `AsMeant` for all rules together.
With that, `ExceptionsStay` needs only that a status is what `QuirkifyText` makes of what
was submitted (`Intended`). For `StaysHereUnlessRewritten`, a text that ends with the mark
does so after each `sub` (`SubEnds`), each rule (`RuleEnds`) and all of them (`EndStays`);
`Kept` says that a request for this server has the mark, and `Retained` that nobody sends
away a status that has it.

*Suspension.* `OneDeletion` is not inductive: `Held` says that as long as nobody was kept
out, a thread in a deletion has the key in Redis, `Single` that there is only one such
thread, up to the deletion of its key, and `Busy` that only deletions lock and unlock. A
killed process leaves the key without a thread, which does no harm to either.
`PurgedIsGone` rests on `Gone`: what a thread in a purge has behind it (`Ahead`: while it
destroys, what is left of its batch covers what the person has, and afterwards there is
nothing), that what is in the feed is in the database or in the hands of a purge that will
take it out (`Traced`), that nothing is in the feed any more when the followers are gone
(`Unfollowed`), and that as long as there is something left, somebody is going to destroy
it (`ToCome`): if a purge is given up, only that of a moderator is sure to be repeated.

*Timelines.* The operators come first: what `Nth`, `Page`, `Without` and `Merged` make of a
list, element by element (`NthIs`, `PageIs`, `WithoutIs`, `MergedIs`). `NewestFirst` and
`NothingLost` rest on `Sound`: the events on the wire are about what happened
(`WireSound`), and what is announced is newer than all that is shown or shown already, with
all that is newer still announced behind it (`WireOrdered`); a page leaves out nothing
between its first status and its last (`PageSound`), so that the stretch of the list it
replaces holds nothing else but what was removed. `NoSilentGap` speaks of a window at
rest; `Whole` says for any moment where the rest is. What lacks between two neighbours
comes with the page under way (`Covered`, `Coming`). What is newer than the head of the list is on
the wire, or comes with the page, or was missed while the socket was closed, and then not
before the page under way ends, so that the refresh of the next connection has it
(`Topped`, `Missed`). The two meet when a page is merged: `Behind` says that what is newer
than its first status was shown by events, or will be. `NotYetOn` and `Fresh` are about
the window before its first connection and before its first page.

Only model-checked are the properties of liveness (`RegenerationEnds`,
`ToldWhenUnwatched`, `VanishedReaped`, `RemovalEnds`, `Arrives`, `BackAgain`), which are
out of the prover's reach. Every other property of a run that passes is the statement of
a theorem.

## 5. What is not modelled

- *Feeds:* a call of `add_to_feed`, `remove_from_feed` or `trim` is one step, though
  it is several commands to Redis; so is the selection that a job starts with,
  with `find_each` reading in batches. A thread that is killed outright loses its
  job, which Sidekiq does not bring back: jobs are only put back. Filters of
  phrases stand for themselves (`Phrased`); scores are integers although Redis
  keeps them as doubles.
- *Streams:* languages and the checks of the filter query are a free choice;
  revoked tokens, the reconnection of the Redis client with the messages it
  misses, and the limit of the database pool are left out. A cluster of several
  workers is several independent copies. A deletion that is published between
  the rendering and the publication of its status (`push_update_worker.rb`) is
  left out, so `InOrder` is about the server alone.
- *Conversations:* everybody is local, everybody else is mentioned in every status,
  nobody is blocked or muted. A request that finds its row changed since it read
  it fails without effect. A status is deleted once. What is pushed to streams
  depends on the rows and changes none.
- *Inbox:* notes are public and recent, so that their Delete is forwarded to nobody
  and a fetched note is distributed like one delivered; likes, reports, updates, pinned statuses.
- *Delivery:* answers of 400 to 499 other than 429 count as successes, as they do in the
  code; shutdowns of Sidekiq, and a sender or inbox that is gone
  (`ActiveRecord::RecordNotFound`) end a delivery without a trace.
- *Follows:* a handler is one step, although it is several commands to the database;
  domain blocks, the removal of a follower by the one followed, Undo of an Accept,
  OStatus.
- *Posting:* media, potential friendships, the choice of visibility and
  language, and stripping blanks; a text without a key; a rule whose expression spans
  tokens or whose replacement refers to its match, and exceptions with a backslash,
  which `String#sub` would take for such a reference. Reblogs are in `FeedManager`.
- *Suspension:* the person is remote: what a local account adds is its user that is disabled
  or destroyed, the Delete that is sent out, Salmon and PubSubHubbub. One feed, one batch;
  reblogs by others, lists, public timelines, notifications and media; a key that runs out
  after seven days; an account that is created again after its deletion.
- *Timelines:* a status of one's own that is put on top at once while the stream is down
  (`actions/compose.js:148-152`); filters by blocks and mutes, timelines other than home, the older
  flavour of the interface (`app/javascript/mastodon`), which replaces a reblog in
  another way. What the interface draws is not modelled: it is rendering.
- Everything that is "not_modelled" in `PROJECT.json`.

## 6. The plan

Done: `FeedStore`, `FeedManager`, `Streaming`, `ConversationList`, `Conversations`, `Inbox`,
`Delivery`, `Follows`, `Relays`, `Posting`, `Suspension`, `Timelines`, each with its proofs, and `Quirks`. To
come, the most important first:

1. Sessions and the uses of invites.
2. `FeedRaces`: `add_to_feed`, `remove_from_feed` and `trim` at the grain of single
   commands to Redis by two threads, with `FeedStore` as the abstract
   specification of those that may be taken as one step.
