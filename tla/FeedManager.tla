---------------------------- MODULE FeedManager ----------------------------
(***************************************************************************)
(* The home feed of one local account, Owner, and everything that writes   *)
(* it: the web processes, which change statuses and relationships and      *)
(* enqueue Sidekiq jobs, and the Sidekiq threads, which run those jobs one *)
(* primitive call of FeedManager at a time.                                *)
(*                                                                         *)
(* Sidekiq promises no order between jobs, runs as many at once as it has  *)
(* threads, and starts a failed or interrupted job again from the top.     *)
(* What a job reads in one step (a page of statuses, the verdict of the    *)
(* filter) may be stale when a later step uses it.                         *)
(***************************************************************************)
EXTENDS FeedStore

CONSTANTS
  Accounts, Owner,
  AuthorOf,        \* Ids -> the account that posts it
  InReplyTo,       \* Ids -> the status it replies to, 0 if it is no reply
  Mentions,        \* Ids -> the accounts it mentions
  Visibility,      \* Ids -> "public" (or unlisted, private), "limited", "direct"
  Phrased,         \* ids whose text matches an irreversible filter of Owner
  BlocksOwner,     \* accounts that block Owner
  DomainBlocked,   \* accounts of a domain Owner has blocked
  FollowedAtStart, \* accounts Owner follows to begin with
  Workers,         \* Sidekiq threads
  Events,          \* bound: the kinds of user operation of an instance
  MaxOps,          \* bound: how many of them may happen
  MaxQueue,        \* bound: no user operation while so many jobs wait
  Interruptible,   \* kinds of job that may be interrupted
  MaxInterrupts    \* bound: how often

Others == Accounts \ {Owner}

ASSUME AccountsAssumption ==
  /\ Owner \in Accounts
  /\ AuthorOf \in [Ids -> Accounts]
  /\ InReplyTo \in [Ids -> Ids \cup {0}]
  /\ Mentions \in [Ids -> SUBSET Accounts]
  /\ Visibility \in [Ids -> {"public", "limited", "direct"}]
  /\ Phrased \subseteq Ids
  /\ BlocksOwner \subseteq Others /\ DomainBlocked \subseteq Others
  /\ FollowedAtStart \subseteq Others

ASSUME BoundsAssumption ==
  MaxOps \in Nat /\ MaxQueue \in Nat /\ MaxInterrupts \in Nat

VARIABLES
  live, gone,    \* statuses in the database, statuses destroyed
  following,     \* accounts Owner follows
  hideReblogs,   \* those followed with show_reblogs: false
  blocking, muting,
  active,        \* Owner signed in within ACTIVE_DURATION
  regenerating,  \* the key account:ID:regeneration exists
  home,          \* the feed
  queue,         \* Jobs -> how many copies wait in Sidekiq
  thread,        \* Workers -> what the thread is doing
  ops, interrupts

relations == <<following, hideReblogs, blocking, muting>>
statuses  == <<live, gone>>
account   == <<active, regenerating>>
bounds    == <<ops, interrupts>>
vars == <<statuses, relations, account, home, queue, thread, bounds>>

-----------------------------------------------------------------------------
(* Jobs and threads *)

StatusJobs  == {"distribute", "insert", "remove"}
AccountJobs == {"merge", "unmerge", "clear"}
OwnerJobs   == {"populate", "cleanup"}

Jobs ==      [kind : StatusJobs, arg : Ids]
        \cup [kind : AccountJobs, arg : Others]
        \cup [kind : OwnerJobs, arg : {Owner}]

Job(k, a) == [kind |-> k, arg |-> a]

ASSUME InterruptibleAssumption ==
  Interruptible \subseteq StatusJobs \cup AccountJobs \cup OwnerJobs

NoJob == [kind |-> "none", arg |-> Owner]

Steps == {"idle", "each", "add", "trim", "unpush", "destroy", "drop"}

\* What a thread is doing.  todo: what the job read and has still to go
\* through; cur: the status it is at, 0 between two; added and maxId: the
\* variables of populate_feed's loop
StatusSteps == {"add", "unpush", "destroy"}

Runs == {r \in [job : Jobs \cup {NoJob}, at : Steps, todo : SUBSET Ids,
                cur : Ids \cup {0}, added : BOOLEAN, maxId : Ids \cup {0}] :
           r.at \in StatusSteps => r.cur # 0}

Busy(w) == thread[w].at # "idle"

Run(j, step, todo, cur) ==
  [job |-> j, at |-> step, todo |-> todo, cur |-> cur,
   added |-> FALSE, maxId |-> 0]

\* The same run, further on
Step(run, step, todo, cur) ==
  [job |-> run.job, at |-> step, todo |-> todo, cur |-> cur,
   added |-> run.added, maxId |-> run.maxId]

Idle == Run(NoJob, "idle", {}, 0)

\* perform_async
Push(q, j) == [q EXCEPT ![j] = @ + 1]

Waiting(k, a) == queue[Job(k, a)] > 0
RunningJob(k, a) == \E w \in Workers : Busy(w) /\ thread[w].job = Job(k, a)
Pending(k, a) == Waiting(k, a) \/ RunningJob(k, a)

WaitingJobs == {j \in Jobs : queue[j] > 0}

-----------------------------------------------------------------------------
(* Queries *)

Hidden(a) == a \in blocking \cup muting

\* What filter_from_home? checks for blocks and mutes: the author and the
\* mentioned accounts, and for a reblog those of the original as well
Involved(s) ==
  {AuthorOf[s]} \cup Mentions[s]
    \cup IF IsReblog(s)
         THEN {AuthorOf[ReblogOf[s]]} \cup Mentions[ReblogOf[s]]
         ELSE {}

IsReply(s) == InReplyTo[s] # 0

\* in_reply_to_id is nullified when the parent is deleted
Dangling(s) == IsReply(s) /\ InReplyTo[s] \notin live

ReplyFiltered(s) ==
  LET parent == AuthorOf[InReplyTo[s]]
  IN  parent \notin following \cup {Owner, AuthorOf[s]}

ReblogFiltered(s) ==
  \/ AuthorOf[s] \in hideReblogs
  \/ AuthorOf[ReblogOf[s]] \in BlocksOwner \cup DomainBlocked

Matches(s) == (IF IsReblog(s) THEN ReblogOf[s] ELSE s) \in Phrased

\* Variant: the rules on replies return before blocks and mutes are asked
FilteredRepliesFirst(s) ==
  /\ AuthorOf[s] # Owner
  /\ \/ Dangling(s)
     \/ Matches(s)
     \/ IsReply(s) /\ ReplyFiltered(s)
     \/ ~IsReply(s) /\ \E a \in Involved(s) : Hidden(a)
     \/ ~IsReply(s) /\ IsReblog(s) /\ ReblogFiltered(s)

\* filter_from_home?
Filtered(s) ==
  /\ AuthorOf[s] # Owner
  /\ \/ Dangling(s)
     \/ Matches(s)
     \/ \E a \in Involved(s) : Hidden(a)
     \/ IsReply(s) /\ ReplyFiltered(s)
     \/ ~IsReply(s) /\ IsReblog(s) /\ ReblogFiltered(s)

StatusesOf(a) == {s \in live : AuthorOf[s] = a}

ReblogsOf(o) == {s \in live : ReblogOf[s] = o}

\* id > oldest_home_score, which is 0 in an empty feed
AfterOldest(s) ==
  home.timeline = {} \/ \E x \in home.timeline : s > x

\* The selection of merge_into_timeline
MergeSelection(a) ==
  IF Cardinality(home.timeline) >= MAX_ITEMS \div 4
  THEN Newest({s \in StatusesOf(a) : AfterOldest(s)}, MAX_ITEMS \div 4)
  ELSE Newest(StatusesOf(a), MAX_ITEMS \div 4)

UnmergeSelection(a) == {s \in StatusesOf(a) : AfterOldest(s)}

ClearSelection(a) == home.timeline \cap StatusesOf(a)

\* Status.as_home_timeline(account)
HomeTimeline ==
  {s \in live : /\ AuthorOf[s] \in following \cup {Owner}
                /\ Visibility[s] = "public"}

\* One page of populate_feed, older than maxId (0: from the newest)
PopulatePage(maxId) ==
  Newest({s \in HomeTimeline : maxId = 0 \/ s < maxId}, MAX_ITEMS \div 2)

-----------------------------------------------------------------------------
(* The web processes: user operations, each a request that commits and     *)
(* enqueues its jobs                                                        *)

Event(e) == e \in Events /\ ops < MaxOps /\ ops' = ops + 1

RoomFor == Cardinality(WaitingJobs) < MaxQueue

\* PostStatusService, ReblogService, a remote Create or Announce: a reblog
\* needs its original, and there is one per account and original.  Ids come
\* in any order: a remote status carries the time it was written.
Post(s) ==
  /\ RoomFor
  /\ s \notin live \cup gone
  /\ IsReblog(s) => /\ ReblogOf[s] \in live
                    /\ ~\E r \in ReblogsOf(ReblogOf[s]) : AuthorOf[r] = AuthorOf[s]
  /\ IsReply(s) => InReplyTo[s] \in live
  /\ live' = live \cup {s}
  /\ queue' = Push(queue, Job("distribute", s))
  /\ UNCHANGED <<gone, relations, account, home, thread, bounds>>

\* RemovalWorker.perform_async, by the author or a remote Delete or Undo
Delete(s) ==
  /\ Event("delete") /\ RoomFor
  /\ s \in live
  /\ queue' = Push(queue, Job("remove", s))
  /\ UNCHANGED <<statuses, relations, account, home, thread, interrupts>>

\* FollowService#direct_follow, FollowRequest#authorize!
Follow(a) ==
  /\ Event("follow") /\ RoomFor
  /\ a \notin following \cup blocking \cup BlocksOwner
  /\ following' = following \cup {a}
  /\ queue' = Push(queue, Job("merge", a))
  /\ UNCHANGED <<statuses, hideReblogs, blocking, muting, account, home,
                 thread, interrupts>>

\* FollowService on an account already followed: only show_reblogs changes
ShowReblogs(a, show) ==
  /\ Event("show_reblogs")
  /\ a \in following \ (blocking \cup BlocksOwner)
  /\ hideReblogs' = IF show THEN hideReblogs \ {a} ELSE hideReblogs \cup {a}
  /\ UNCHANGED <<statuses, following, blocking, muting, account, home, queue,
                 thread, interrupts>>

\* UnfollowService
Unfollow(a) ==
  /\ Event("unfollow") /\ RoomFor
  /\ a \in following
  /\ following' = following \ {a}
  /\ hideReblogs' = hideReblogs \ {a}
  /\ queue' = Push(queue, Job("unmerge", a))
  /\ UNCHANGED <<statuses, blocking, muting, account, home, thread, interrupts>>

\* BlockService: unfollow first, then block
Block(a) ==
  /\ Event("block") /\ RoomFor
  /\ following' = following \ {a}
  /\ hideReblogs' = hideReblogs \ {a}
  /\ blocking' = blocking \cup {a}
  /\ queue' = LET q == IF a \in following
                       THEN Push(queue, Job("unmerge", a)) ELSE queue
              IN  Push(q, Job("clear", a))
  /\ UNCHANGED <<statuses, muting, account, home, thread, interrupts>>

\* UnblockService: nothing comes back by itself
Unblock(a) ==
  /\ Event("unblock")
  /\ a \in blocking
  /\ blocking' = blocking \ {a}
  /\ UNCHANGED <<statuses, following, hideReblogs, muting, account, home, queue,
                 thread, interrupts>>

\* MuteService: MuteWorker or BlockWorker, both clear the home feed
Mute(a) ==
  /\ Event("mute") /\ RoomFor
  /\ muting' = muting \cup {a}
  /\ queue' = Push(queue, Job("clear", a))
  /\ UNCHANGED <<statuses, following, hideReblogs, blocking, account, home,
                 thread, interrupts>>

\* UnmuteService
Unmute(a) ==
  /\ Event("unmute") /\ RoomFor
  /\ a \in muting
  /\ muting' = muting \ {a}
  /\ queue' = IF a \in following THEN Push(queue, Job("merge", a)) ELSE queue
  /\ UNCHANGED <<statuses, following, hideReblogs, blocking, account, home,
                 thread, interrupts>>

\* ACTIVE_DURATION passes without a sign-in
GoInactive ==
  /\ Event("inactive")
  /\ active
  /\ active' = FALSE
  /\ UNCHANGED <<statuses, relations, regenerating, home, queue, thread, interrupts>>

\* prepare_returning_user!: RegenerationWorker is unique until executed
SignIn ==
  /\ Event("sign_in") /\ RoomFor
  /\ ~active
  /\ active' = TRUE
  /\ regenerating' = TRUE
  /\ queue' = IF Pending("populate", Owner)
              THEN queue ELSE Push(queue, Job("populate", Owner))
  /\ UNCHANGED <<statuses, relations, home, thread, interrupts>>

\* The flag has a time to live of one day
FlagExpires ==
  /\ Event("expire")
  /\ regenerating
  /\ regenerating' = FALSE
  /\ UNCHANGED <<statuses, relations, active, home, queue, thread, interrupts>>

\* The scheduler's clock enqueues FeedCleanupScheduler, unique until executed
ScheduleCleanup ==
  /\ Event("cleanup") /\ RoomFor
  /\ ~Pending("cleanup", Owner)
  /\ queue' = Push(queue, Job("cleanup", Owner))
  /\ UNCHANGED <<statuses, relations, account, home, thread, interrupts>>

-----------------------------------------------------------------------------
(* Sidekiq: a thread takes a job and does its first reads *)

Take(w, j) ==
  /\ ~Busy(w)
  /\ queue[j] > 0

Dequeued(j) == [queue EXCEPT ![j] = @ - 1]

\* A run with nothing left to go through ends
Begin(w, run) ==
  thread' = [thread EXCEPT ![w] = IF run.todo = {} THEN Idle ELSE run]

\* Where the loops of merge and populate go after an item: a merge with
\* nothing left trims
LoopStep(kind, todo) == IF kind = "merge" /\ todo = {} THEN "trim" ELSE "each"

Finish(w) == thread' = [thread EXCEPT ![w] = Idle]

\* DistributionWorker, FanOutOnWriteService: Owner's own status goes straight
\* to the feed; a follower's copy is a job of its own
StartDistribute(w, s) ==
  LET j == Job("distribute", s)
      own == AuthorOf[s] = Owner
      delivers == \/ Visibility[s] = "public" /\ active
                  \/ Visibility[s] = "limited" /\ Owner \in Mentions[s]
  IN  /\ Take(w, j)
      /\ IF s \in live /\ own /\ Visibility[s] = "public"
         THEN thread' = [thread EXCEPT ![w] = Run(j, "add", {}, s)]
         ELSE UNCHANGED thread
      /\ queue' = IF s \in live /\ AuthorOf[s] \in following /\ delivers
                  THEN Push(Dequeued(j), Job("insert", s)) ELSE Dequeued(j)
      /\ UNCHANGED <<statuses, relations, account, home, bounds>>

\* FeedInsertWorker: find the status, ask the filter
StartInsert(w, s) ==
  LET j == Job("insert", s)
  IN  /\ Take(w, j)
      /\ queue' = Dequeued(j)
      /\ IF s \in live /\ ~Filtered(s)
         THEN thread' = [thread EXCEPT ![w] = Run(j, "add", {}, s)]
         ELSE UNCHANGED thread
      /\ UNCHANGED <<statuses, relations, account, home, bounds>>

\* MergeWorker: even an empty merge trims
StartMerge(w, a) ==
  LET j == Job("merge", a)
  IN  /\ Take(w, j)
      /\ queue' = Dequeued(j)
      /\ LET todo == MergeSelection(a)
         IN  thread' = [thread EXCEPT ![w] = Run(j, LoopStep("merge", todo), todo, 0)]
      /\ UNCHANGED <<statuses, relations, account, home, bounds>>

\* UnmergeWorker
StartUnmerge(w, a) ==
  LET j == Job("unmerge", a)
  IN  /\ Take(w, j)
      /\ queue' = Dequeued(j)
      /\ Begin(w, Run(j, "each", UnmergeSelection(a), 0))
      /\ UNCHANGED <<statuses, relations, account, home, bounds>>

\* MuteWorker, and the home feed part of BlockWorker
StartClear(w, a) ==
  LET j == Job("clear", a)
  IN  /\ Take(w, j)
      /\ queue' = Dequeued(j)
      /\ Begin(w, Run(j, "each", ClearSelection(a), 0))
      /\ UNCHANGED <<statuses, relations, account, home, bounds>>

ReadPage(w, page) ==
  \E last \in Oldest(page) :
    thread' = [thread EXCEPT ![w] =
      [job |-> Job("populate", Owner), at |-> "each", todo |-> page,
       cur |-> 0, added |-> FALSE, maxId |-> last]]

\* Variant: every page is read from the newest status on
TurnPageFromTop(w, maxId) ==
  LET page == PopulatePage(0)
  IN  IF page = {}
      THEN Finish(w) /\ regenerating' = FALSE
      ELSE ReadPage(w, page) /\ UNCHANGED regenerating

\* Variant: populate_feed returns to a caller that no longer deletes the flag
TurnPageKeepingFlag(w, maxId) ==
  LET page == PopulatePage(maxId)
  IN  /\ IF page = {} THEN Finish(w) ELSE ReadPage(w, page)
      /\ UNCHANGED regenerating

\* populate_feed from maxId on; PrecomputeFeedService then deletes the flag
TurnPage(w, maxId) ==
  LET page == PopulatePage(maxId)
  IN  IF page = {}
      THEN Finish(w) /\ regenerating' = FALSE
      ELSE ReadPage(w, page) /\ UNCHANGED regenerating

\* RegenerationWorker
StartPopulate(w) ==
  LET j == Job("populate", Owner)
  IN  /\ Take(w, j)
      /\ queue' = Dequeued(j)
      /\ TurnPage(w, 0)
      /\ UNCHANGED <<statuses, relations, active, home, bounds>>

\* RemovalWorker, RemoveStatusService: the reblogs are read at the start
StartRemove(w, s) ==
  LET j == Job("remove", s)
  IN  /\ Take(w, j)
      /\ queue' = Dequeued(j)
      /\ IF s \in live
         THEN thread' = [thread EXCEPT ![w] = Run(j, "unpush", ReblogsOf(s), s)]
         ELSE UNCHANGED thread
      /\ UNCHANGED <<statuses, relations, account, home, bounds>>

\* FeedCleanupScheduler looks for inactive accounts
StartCleanup(w) ==
  LET j == Job("cleanup", Owner)
  IN  /\ Take(w, j)
      /\ queue' = Dequeued(j)
      /\ IF active THEN UNCHANGED thread
         ELSE thread' = [thread EXCEPT ![w] = Run(j, "each", {}, 0)]
      /\ UNCHANGED <<statuses, relations, account, home, bounds>>

-----------------------------------------------------------------------------
(* Sidekiq: the further steps of a job, one primitive call each *)

Doing(w, kinds, step) ==
  Busy(w) /\ thread[w].job.kind \in kinds /\ thread[w].at = step

\* Merge and populate: the next status, newest first, and the filter's verdict
Consider(w) ==
  /\ Doing(w, {"merge", "populate"}, "each")
  /\ \E s \in Newest(thread[w].todo, 1) :
       LET left == thread[w].todo \ {s}
           kind == thread[w].job.kind
           passes == /\ ~Filtered(s)
                     /\ kind = "merge" => Visibility[s] = "public"
       IN  thread' = [thread EXCEPT ![w] =
                        IF passes THEN Step(@, "add", left, s)
                        ELSE Step(@, LoopStep(kind, left), left, 0)]
  /\ UNCHANGED <<statuses, relations, account, home, queue, bounds>>

\* add_to_feed within merge_into_timeline and populate_feed
AddNext(w) ==
  /\ Doing(w, {"merge", "populate"}, "add")
  /\ home' = AddToFeed(home, thread[w].cur)
  /\ thread' = [thread EXCEPT ![w] =
       [job |-> @.job, at |-> LoopStep(@.job.kind, @.todo), todo |-> @.todo,
        cur |-> 0, added |-> @.added \/ WouldAdd(home, @.cur), maxId |-> @.maxId]]
  /\ UNCHANGED <<statuses, relations, account, queue, bounds>>

\* push_to_home: add, and trim only what was added to
PushToHome(w) ==
  /\ Doing(w, {"insert", "distribute"}, "add")
  /\ home' = AddToFeed(home, thread[w].cur)
  /\ IF WouldAdd(home, thread[w].cur)
     THEN thread' = [thread EXCEPT ![w] = Step(@, "trim", {}, 0)]
     ELSE Finish(w)
  /\ UNCHANGED <<statuses, relations, account, queue, bounds>>

TrimHome(w) ==
  /\ Doing(w, {"insert", "distribute", "merge"}, "trim")
  /\ home' = Trim(home)
  /\ Finish(w)
  /\ UNCHANGED <<statuses, relations, account, queue, bounds>>

\* Variant: one page is all populate_feed looks at
EndPageAlways(w) ==
  /\ Doing(w, {"populate"}, "each")
  /\ thread[w].todo = {}
  /\ Finish(w) /\ regenerating' = FALSE
  /\ UNCHANGED <<statuses, relations, active, home, queue, bounds>>

\* The end of a page of populate_feed: stop if anything was added
EndPage(w) ==
  /\ Doing(w, {"populate"}, "each")
  /\ thread[w].todo = {}
  /\ IF thread[w].added
     THEN Finish(w) /\ regenerating' = FALSE
     ELSE TurnPage(w, thread[w].maxId)
  /\ UNCHANGED <<statuses, relations, active, home, queue, bounds>>

\* unmerge_from_timeline (find_each: oldest first), clear_from_timeline
RemoveNext(w) ==
  /\ Doing(w, {"unmerge", "clear"}, "each")
  /\ \E s \in IF thread[w].job.kind = "unmerge"
             THEN Oldest(thread[w].todo) ELSE Newest(thread[w].todo, 1) :
       /\ home' = RemoveFromFeed(home, s)
       /\ Begin(w, Step(thread[w], "each", thread[w].todo \ {s}, 0))
  /\ UNCHANGED <<statuses, relations, account, queue, bounds>>

\* remove_from_self, remove_from_followers: whoever follows by now
Unpush(w) ==
  LET s == thread[w].cur
      reached == AuthorOf[s] = Owner \/ (AuthorOf[s] \in following /\ active)
  IN  /\ Doing(w, {"remove"}, "unpush")
      /\ home' = IF reached THEN RemoveFromFeed(home, s) ELSE home
      /\ thread' = [thread EXCEPT ![w] =
                      IF s = @.job.arg THEN Step(@, "each", @.todo, 0)
                      ELSE Step(@, "destroy", @.todo, s)]
      /\ UNCHANGED <<statuses, relations, account, queue, bounds>>

\* remove_reblogs, then the status itself
NextReblog(w) ==
  /\ Doing(w, {"remove"}, "each")
  /\ \E s \in Newest(thread[w].todo, 1) :
       thread' = [thread EXCEPT ![w] = Step(@, "unpush", @.todo \ {s}, s)]
  /\ UNCHANGED <<statuses, relations, account, home, queue, bounds>>

EndReblogs(w) ==
  /\ Doing(w, {"remove"}, "each")
  /\ thread[w].todo = {}
  /\ thread' = [thread EXCEPT ![w] = Step(@, "destroy", {}, @.job.arg)]
  /\ UNCHANGED <<statuses, relations, account, home, queue, bounds>>

\* destroy! takes the reblogs that are left with it (dependent: :destroy)
Destroy(w) ==
  LET s == thread[w].cur
      dead == live \cap ({s} \cup ReblogsOf(s))
  IN  /\ Doing(w, {"remove"}, "destroy")
      /\ live' = live \ dead
      /\ gone' = gone \cup dead
      /\ IF s = thread[w].job.arg THEN Finish(w)
         ELSE thread' = [thread EXCEPT ![w] = Step(@, "each", @.todo, 0)]
      /\ UNCHANGED <<relations, account, home, queue, bounds>>

\* Variant: what was tracked is read after it was deleted
UntrackFirst(w) ==
  /\ Doing(w, {"cleanup"}, "each")
  /\ home' = Untracked(home)
  /\ thread' = [thread EXCEPT ![w] =
                  Step(@, "drop", {o \in Ids : Tracked(Untracked(home), o)}, 0)]
  /\ UNCHANGED <<statuses, relations, account, queue, bounds>>

\* clean_feeds!, first pipeline: delete the feed and what it tracks, and
\* keep what was tracked
Untrack(w) ==
  /\ Doing(w, {"cleanup"}, "each")
  /\ home' = Untracked(home)
  /\ thread' = [thread EXCEPT ![w] =
                  Step(@, "drop", {o \in Ids : Tracked(home, o)}, 0)]
  /\ UNCHANGED <<statuses, relations, account, queue, bounds>>

\* clean_feeds!, second pipeline
Drop(w) ==
  /\ Doing(w, {"cleanup"}, "drop")
  /\ home' = DropExtras(home, thread[w].todo)
  /\ Finish(w)
  /\ UNCHANGED <<statuses, relations, account, queue, bounds>>

\* The process shuts down, or the job fails and is retried: it goes back to
\* the queue and nothing it did is undone
Interrupt(w) ==
  /\ Busy(w) /\ thread[w].job.kind \in Interruptible
  /\ interrupts < MaxInterrupts
  /\ interrupts' = interrupts + 1
  /\ queue' = Push(queue, thread[w].job)
  /\ Finish(w)
  /\ UNCHANGED <<statuses, relations, account, home, ops>>

-----------------------------------------------------------------------------
Init ==
  /\ live = {} /\ gone = {}
  /\ following = FollowedAtStart
  /\ hideReblogs = {} /\ blocking = {} /\ muting = {}
  /\ active = TRUE /\ regenerating = FALSE
  /\ home = NoFeed
  /\ queue = [j \in Jobs |-> 0]
  /\ thread = [w \in Workers |-> Idle]
  /\ ops = 0 /\ interrupts = 0

Web ==
  \/ \E s \in Ids : Post(s) \/ Delete(s)
  \/ \E a \in Others :
       \/ Follow(a) \/ Unfollow(a)
       \/ Block(a) \/ Unblock(a)
       \/ Mute(a) \/ Unmute(a)
       \/ \E show \in BOOLEAN : ShowReblogs(a, show)
  \/ GoInactive \/ SignIn \/ FlagExpires \/ ScheduleCleanup

Start(w) ==
  \/ \E s \in Ids : StartDistribute(w, s) \/ StartInsert(w, s) \/ StartRemove(w, s)
  \/ \E a \in Others : StartMerge(w, a) \/ StartUnmerge(w, a) \/ StartClear(w, a)
  \/ StartPopulate(w) \/ StartCleanup(w)

Proceed(w) ==
  \/ Consider(w) \/ AddNext(w) \/ EndPage(w)
  \/ PushToHome(w) \/ TrimHome(w)
  \/ RemoveNext(w)
  \/ Unpush(w) \/ NextReblog(w) \/ EndReblogs(w) \/ Destroy(w)
  \/ Untrack(w) \/ Drop(w)

Next == Web \/ \E w \in Workers : Start(w) \/ Proceed(w) \/ Interrupt(w)

Spec == Init /\ [][Next]_vars

\* Sidekiq's threads go on while there is work
FairSpec == Spec /\ \A w \in Workers : WF_vars(Start(w) \/ Proceed(w))

-----------------------------------------------------------------------------
(* Properties *)

TypeOK ==
  /\ live \subseteq Ids /\ gone \subseteq Ids
  /\ following \subseteq Others /\ hideReblogs \subseteq Others
  /\ blocking \subseteq Others /\ muting \subseteq Others
  /\ active \in BOOLEAN /\ regenerating \in BOOLEAN
  /\ home \in Feeds
  /\ queue \in [Jobs -> Nat]
  /\ thread \in [Workers -> Runs]
  /\ ops \in Nat /\ interrupts \in Nat

\* A set of held-back reblogs is always reachable for the clean-up: trim and
\* FeedCleanupScheduler only find it through the original's entry in
\* `reblogs`.  While a clean-up is between its two pipelines it remembers.
NoOrphanedExtras ==
  \A o \in Ids : home.extras[o] # {} =>
    \/ Tracked(home, o)
    \/ \E w \in Workers : Doing(w, {"cleanup"}, "drop") /\ o \in thread[w].todo

\* Once Owner mutes or blocks an account, its own posts leave the feed and
\* stay out, whatever was queued, half done or merged at that moment: if one
\* is in the feed, the job that clears it is still to finish.
HiddenStayOut ==
  \A s \in home.timeline \cap live :
    ~IsReblog(s) /\ Hidden(AuthorOf[s]) => Pending("clear", AuthorOf[s])

\* The statuses that show the same text as original o
Showing(o) == {s \in Ids : s = o \/ ReblogOf[s] = o}

\* What the grouping of reblogs is for: among the newest REBLOG_FALLOFF
\* entries no text appears twice, be it as original or as reblog.
ShownOnce ==
  \A o \in Ids :
    Cardinality(Newest(home.timeline, REBLOG_FALLOFF) \cap Showing(o)) <= 1

\* "correctly handling cases with reblogs" (remove_from_feed): the reblog put
\* in the place of a removed one is a status that exists
ReplacementExists ==
  [][~(home.timeline \subseteq home'.timeline) =>
       home'.timeline \ home.timeline \subseteq live]_vars

\* While Owner is told that the feed is being regenerated, the job that will
\* say otherwise exists: the flag cannot be left behind.
RegenerationPending == regenerating => Pending("populate", Owner)

\* Regeneration ends, whatever is posted, filtered or retried meanwhile.
RegenerationEnds == regenerating ~> ~regenerating

\* populate_feed does not stop at a page that is filtered as a whole: when
\* the flag is cleared on an empty feed, there is nothing to show that
\* add_to_feed would take, or what there is has a job of its own.
RegenerationFills ==
  [][\A w \in Workers :
       /\ thread[w].job.kind = "populate" /\ ~Busy(w)'
       /\ regenerating /\ ~regenerating'
       => \/ home'.timeline # {}
          \/ \A s \in HomeTimeline :
               \/ Filtered(s) \/ ~WouldAdd(home', s)
               \/ Pending("distribute", s) \/ Pending("insert", s)
               \/ Pending("merge", AuthorOf[s])]_vars
=============================================================================
