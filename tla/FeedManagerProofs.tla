------------------------- MODULE FeedManagerProofs -------------------------
(***************************************************************************)
(* Theorems about the home feed, for any statuses, accounts, limits and    *)
(* number of Sidekiq threads.                                              *)
(***************************************************************************)
EXTENDS FeedManager, FiniteSetTheorems, TLAPS

(* The jobs the actions enqueue are jobs. *)
LEMMA JobsAreJobs ==
  /\ \A s \in Ids : /\ Job("distribute", s) \in Jobs
                    /\ Job("insert", s) \in Jobs
                    /\ Job("remove", s) \in Jobs
  /\ \A a \in Others : /\ Job("merge", a) \in Jobs
                       /\ Job("unmerge", a) \in Jobs
                       /\ Job("clear", a) \in Jobs
  /\ Job("populate", Owner) \in Jobs
  /\ Job("cleanup", Owner) \in Jobs
BY DEF Job, Jobs, StatusJobs, AccountJobs, OwnerJobs

(* perform_async only ever adds to the queue. *)
LEMMA PushType ==
  ASSUME NEW q \in [Jobs -> Nat], NEW j \in Jobs
  PROVE  /\ Push(q, j) \in [Jobs -> Nat]
         /\ Push(q, j)[j] > 0
         /\ \A k \in Jobs : q[k] > 0 => Push(q, j)[k] > 0
BY DEF Push

LEMMA DequeuedType ==
  ASSUME queue \in [Jobs -> Nat], NEW j \in Jobs, queue[j] > 0
  PROVE  /\ Dequeued(j) \in [Jobs -> Nat]
         /\ \A k \in Jobs : k # j /\ queue[k] > 0 => Dequeued(j)[k] > 0
BY DEF Dequeued

LEMMA NewestSubset == \A S, n : Newest(S, n) \subseteq S
BY DEF Newest

LEMMA OldestSubset == \A S : Oldest(S) \subseteq S
BY DEF Oldest

(* The primitives of FeedManager take feeds to feeds. *)
LEMMA AddType ==
  ASSUME NEW f \in Feeds, NEW s \in Ids
  PROVE  AddToFeed(f, s) \in Feeds
BY DEF AddToFeed, Feeds

LEMMA RemoveType ==
  ASSUME NEW f \in Feeds, NEW s \in Ids
  PROVE  RemoveFromFeed(f, s) \in Feeds
<1>1. ASSUME IsReblog(s)
      PROVE  Replacement(f, s) \subseteq Ids
  BY <1>1, StatusesAssumption DEF Replacement, Oldest, Feeds, IsReblog
<1>2. \A o \in Ids : ExtrasWithout(f, s, o) \subseteq Ids
  BY DEF ExtrasWithout, Feeds
<1> QED BY <1>1, <1>2 DEF RemoveFromFeed, Feeds

LEMMA TrimType ==
  ASSUME NEW f \in Feeds
  PROVE  Trim(f) \in Feeds
BY NewestSubset DEF Trim, Feeds

LEMMA CleanupType ==
  ASSUME NEW f \in Feeds, NEW O
  PROVE  Untracked(f) \in Feeds /\ DropExtras(f, O) \in Feeds
BY DEF Untracked, DropExtras, Feeds

(* A run is well typed when its parts are. *)
LEMMA RunType ==
  ASSUME NEW j \in Jobs \cup {NoJob}, NEW step \in Steps,
         NEW todo \in SUBSET Ids, NEW cur \in Ids \cup {0},
         step \in StatusSteps => cur \in Ids
  PROVE  Run(j, step, todo, cur) \in Runs
BY StatusesAssumption DEF Run, Runs

LEMMA IdleType == Idle \in Runs
BY RunType DEF Idle, Steps, StatusSteps

(* What a job selects are statuses. *)
LEMMA SelectionType ==
  ASSUME TypeOK
  PROVE  /\ \A a : MergeSelection(a) \subseteq Ids
         /\ \A a : UnmergeSelection(a) \subseteq Ids
         /\ \A a : ClearSelection(a) \subseteq Ids
         /\ \A o : ReblogsOf(o) \subseteq Ids
         /\ \A m : PopulatePage(m) \subseteq Ids
BY NewestSubset
   DEF TypeOK, MergeSelection, UnmergeSelection, ClearSelection, ReblogsOf,
       PopulatePage, HomeTimeline, StatusesOf

LEMMA StepType ==
  ASSUME NEW run \in Runs, NEW step \in Steps,
         NEW todo \in SUBSET Ids, NEW cur \in Ids \cup {0},
         step \in StatusSteps => cur \in Ids
  PROVE  Step(run, step, todo, cur) \in Runs
BY StatusesAssumption DEF Step, Runs

(* A running job has an argument of its kind. *)
LEMMA ArgType ==
  ASSUME NEW run \in Runs
  PROVE  /\ run.job.kind \in StatusJobs => run.job \in Jobs /\ run.job.arg \in Ids
         /\ run.job.kind \in AccountJobs => run.job \in Jobs /\ run.job.arg \in Others
BY DEF Runs, Jobs, NoJob, StatusJobs, AccountJobs, OwnerJobs

(* A page of populate_feed. *)
LEMMA PageType ==
  ASSUME TypeOK, NEW w \in Workers, NEW m, TurnPage(w, m)
  PROVE  thread' \in [Workers -> Runs]
<1>1. CASE PopulatePage(m) = {}
  BY <1>1, IdleType DEF TurnPage, Finish, TypeOK
<1>2. CASE PopulatePage(m) # {}
  <2>1. PICK last \in Oldest(PopulatePage(m)) :
          thread' = [thread EXCEPT ![w] =
            [job |-> Job("populate", Owner), at |-> "each", todo |-> PopulatePage(m),
             cur |-> 0, added |-> FALSE, maxId |-> last]]
    BY <1>2 DEF TurnPage, ReadPage
  <2>2. last \in Ids /\ PopulatePage(m) \subseteq Ids
    BY OldestSubset, SelectionType
  <2> QED BY <2>1, <2>2, JobsAreJobs DEF Runs, Steps, StatusSteps, TypeOK
<1> QED BY <1>1, <1>2

-----------------------------------------------------------------------------
(* Type correctness *)

LEMMA TypeInit == Init => TypeOK
<1> SUFFICES ASSUME Init PROVE TypeOK
  OBVIOUS
<1>1. home \in Feeds
  BY DEF Init, NoFeed, Feeds
<1>2. queue \in [Jobs -> Nat]
  BY DEF Init
<1>3. thread \in [Workers -> Runs]
  BY IdleType DEF Init
<1> QED BY <1>1, <1>2, <1>3, AccountsAssumption DEF Init, TypeOK

LEMMA TypeWeb ==
  ASSUME TypeOK, Web
  PROVE  TypeOK'
<1> USE DEF TypeOK, vars, statuses, relations, account, bounds, Event
<1>1. ASSUME NEW s \in Ids, Post(s) PROVE TypeOK'
  BY <1>1, JobsAreJobs, PushType DEF Post
<1>2. ASSUME NEW s \in Ids, Delete(s) PROVE TypeOK'
  BY <1>2, JobsAreJobs, PushType DEF Delete
<1>3. ASSUME NEW a \in Others, Follow(a) PROVE TypeOK'
  BY <1>3, JobsAreJobs, PushType DEF Follow
<1>4. ASSUME NEW a \in Others, Unfollow(a) PROVE TypeOK'
  BY <1>4, JobsAreJobs, PushType DEF Unfollow
<1>5. ASSUME NEW a \in Others, Block(a) PROVE TypeOK'
  <2>1. queue' \in [Jobs -> Nat]
    BY <1>5, JobsAreJobs, PushType DEF Block
  <2> QED BY <1>5, <2>1 DEF Block
<1>6. ASSUME NEW a \in Others, Unblock(a) PROVE TypeOK'
  BY <1>6 DEF Unblock
<1>7. ASSUME NEW a \in Others, Mute(a) PROVE TypeOK'
  BY <1>7, JobsAreJobs, PushType DEF Mute
<1>8. ASSUME NEW a \in Others, Unmute(a) PROVE TypeOK'
  <2>1. queue' \in [Jobs -> Nat]
    BY <1>8, JobsAreJobs, PushType DEF Unmute
  <2> QED BY <1>8, <2>1 DEF Unmute
<1>9. ASSUME NEW a \in Others, NEW show \in BOOLEAN, ShowReblogs(a, show)
      PROVE TypeOK'
  BY <1>9 DEF ShowReblogs
<1>10. ASSUME GoInactive PROVE TypeOK'
  <2>1. active' \in BOOLEAN /\ regenerating' \in BOOLEAN
    BY <1>10, Zenon DEF GoInactive
  <2> QED BY <1>10, <2>1 DEF GoInactive
<1>11. ASSUME SignIn PROVE TypeOK'
  <2>1. queue' \in [Jobs -> Nat]
    BY <1>11, JobsAreJobs, PushType DEF SignIn
  <2> QED BY <1>11, <2>1 DEF SignIn
<1>12. ASSUME FlagExpires PROVE TypeOK'
  <2>1. regenerating' \in BOOLEAN /\ active' \in BOOLEAN
    BY <1>12, Zenon DEF FlagExpires
  <2> HIDE DEF TypeOK
  <2>2. UNCHANGED <<live, gone, following, hideReblogs, blocking, muting, home,
                    queue, thread, interrupts>>
    BY <1>12 DEF FlagExpires
  <2>3. ops' \in Nat
    BY <1>12 DEF FlagExpires, TypeOK
  <2> QED BY <2>1, <2>2, <2>3 DEF TypeOK
<1>13. ASSUME ScheduleCleanup PROVE TypeOK'
  BY <1>13, JobsAreJobs, PushType DEF ScheduleCleanup
<1> QED
  BY <1>1, <1>2, <1>3, <1>4, <1>5, <1>6, <1>7, <1>8, <1>9, <1>10, <1>11,
     <1>12, <1>13 DEF Web

(* Every start takes a job off the queue and gives the thread a run. *)
LEMMA StartTypes ==
  ASSUME TypeOK, NEW w \in Workers, Start(w)
  PROVE  queue' \in [Jobs -> Nat] /\ thread' \in [Workers -> Runs]
<1> USE DEF TypeOK, Take
<1>1. ASSUME NEW s \in Ids, StartDistribute(w, s)
      PROVE queue' \in [Jobs -> Nat] /\ thread' \in [Workers -> Runs]
  <2>1. Dequeued(Job("distribute", s)) \in [Jobs -> Nat]
    BY <1>1, JobsAreJobs, DequeuedType DEF StartDistribute
  <2>2. queue' \in [Jobs -> Nat]
    BY <1>1, <2>1, JobsAreJobs, PushType DEF StartDistribute
  <2>3. Run(Job("distribute", s), "add", {}, s) \in Runs
    BY JobsAreJobs, RunType DEF Steps, StatusSteps
  <2> QED BY <1>1, <2>2, <2>3 DEF StartDistribute
<1>2. ASSUME NEW s \in Ids, StartInsert(w, s)
      PROVE queue' \in [Jobs -> Nat] /\ thread' \in [Workers -> Runs]
  <2>1. Run(Job("insert", s), "add", {}, s) \in Runs
    BY JobsAreJobs, RunType DEF Steps, StatusSteps
  <2> QED BY <1>2, <2>1, JobsAreJobs, DequeuedType DEF StartInsert
<1>3. ASSUME NEW s \in Ids, StartRemove(w, s)
      PROVE queue' \in [Jobs -> Nat] /\ thread' \in [Workers -> Runs]
  <2>1. Run(Job("remove", s), "unpush", ReblogsOf(s), s) \in Runs
    BY JobsAreJobs, RunType, SelectionType DEF Steps, StatusSteps
  <2> QED BY <1>3, <2>1, JobsAreJobs, DequeuedType DEF StartRemove
<1>4. ASSUME NEW a \in Others, StartMerge(w, a)
      PROVE queue' \in [Jobs -> Nat] /\ thread' \in [Workers -> Runs]
  <2>1. LoopStep("merge", MergeSelection(a)) \in Steps
    BY DEF LoopStep, Steps
  <2>2. Run(Job("merge", a), LoopStep("merge", MergeSelection(a)),
            MergeSelection(a), 0) \in Runs
    BY <2>1, JobsAreJobs, RunType, SelectionType DEF LoopStep, StatusSteps
  <2> QED BY <1>4, <2>2, JobsAreJobs, DequeuedType DEF StartMerge
<1>5. ASSUME NEW a \in Others, StartUnmerge(w, a)
      PROVE queue' \in [Jobs -> Nat] /\ thread' \in [Workers -> Runs]
  <2>1. Run(Job("unmerge", a), "each", UnmergeSelection(a), 0) \in Runs
    BY JobsAreJobs, RunType, SelectionType DEF Steps, StatusSteps
  <2> QED BY <1>5, <2>1, JobsAreJobs, DequeuedType, IdleType DEF StartUnmerge, Begin
<1>6. ASSUME NEW a \in Others, StartClear(w, a)
      PROVE queue' \in [Jobs -> Nat] /\ thread' \in [Workers -> Runs]
  <2>1. Run(Job("clear", a), "each", ClearSelection(a), 0) \in Runs
    BY JobsAreJobs, RunType, SelectionType DEF Steps, StatusSteps
  <2> QED BY <1>6, <2>1, JobsAreJobs, DequeuedType, IdleType DEF StartClear, Begin
<1>7. ASSUME StartPopulate(w)
      PROVE queue' \in [Jobs -> Nat] /\ thread' \in [Workers -> Runs]
  <2>1. thread' \in [Workers -> Runs]
    BY <1>7, PageType DEF StartPopulate
  <2> QED BY <1>7, <2>1, JobsAreJobs, DequeuedType DEF StartPopulate
<1>8. ASSUME StartCleanup(w)
      PROVE queue' \in [Jobs -> Nat] /\ thread' \in [Workers -> Runs]
  <2>1. Run(Job("cleanup", Owner), "each", {}, 0) \in Runs
    BY JobsAreJobs, RunType DEF Steps, StatusSteps
  <2> QED BY <1>8, <2>1, JobsAreJobs, DequeuedType DEF StartCleanup
<1> QED BY <1>1, <1>2, <1>3, <1>4, <1>5, <1>6, <1>7, <1>8 DEF Start

LEMMA TypeStart ==
  ASSUME TypeOK, NEW w \in Workers, Start(w)
  PROVE  TypeOK'
<1>1. queue' \in [Jobs -> Nat] /\ thread' \in [Workers -> Runs]
  BY StartTypes
<1>2. /\ UNCHANGED <<statuses, relations, active, home, bounds>>
      /\ regenerating' \in BOOLEAN
  BY DEF Start, StartDistribute, StartInsert, StartRemove, StartMerge,
         StartUnmerge, StartClear, StartPopulate, StartCleanup, TurnPage, TypeOK,
         account
<1> QED BY <1>1, <1>2 DEF TypeOK, statuses, relations, bounds

LEMMA TypeProceed ==
  ASSUME TypeOK, NEW w \in Workers, Proceed(w)
  PROVE  TypeOK'
<1> DEFINE run == thread[w]
           done(step, todo, cur) ==
             thread' = [thread EXCEPT ![w] = Step(@, step, todo, cur)]
<1> USE DEF TypeOK, statuses, relations, account, bounds
<1>0. /\ run \in Runs /\ run.todo \subseteq Ids /\ run.cur \in Ids \cup {0}
      /\ run.added \in BOOLEAN /\ run.maxId \in Ids \cup {0}
      /\ run.job \in Jobs \cup {NoJob}
  BY DEF Runs
<1>a. \A n : Newest(run.todo, n) \subseteq Ids
  BY <1>0, NewestSubset
<1>b. ASSUME NEW step \in Steps, NEW todo \in SUBSET Ids, NEW cur \in Ids \cup {0},
             step \in StatusSteps => cur \in Ids, done(step, todo, cur)
      PROVE  thread' \in [Workers -> Runs]
  BY <1>0, <1>b, StepType
<1>c. ASSUME Finish(w) PROVE thread' \in [Workers -> Runs]
  BY <1>c, IdleType DEF Finish
<1>d. \A kind, todo : LoopStep(kind, todo) \in Steps \ StatusSteps
  BY DEF LoopStep, Steps, StatusSteps
<1>e. /\ {"each", "add", "trim", "unpush", "destroy", "drop"} \subseteq Steps
      /\ {"each", "trim", "drop"} \cap StatusSteps = {}
  BY DEF Steps, StatusSteps
<1>f. run.at \in StatusSteps => run.cur \in Ids
  BY DEF Runs
<1>g. \A S : Oldest(S) \subseteq S
  BY OldestSubset
<1> HIDE DEF done
<1>1. ASSUME Consider(w) PROVE TypeOK'
  <2>1. PICK s \in Newest(run.todo, 1) :
          \/ done("add", run.todo \ {s}, s)
          \/ done(LoopStep(run.job.kind, run.todo \ {s}), run.todo \ {s}, 0)
    BY <1>1 DEF Consider, done
  <2>2. thread' \in [Workers -> Runs]
    BY <1>0, <1>a, <1>b, <1>d, <1>e, <2>1
  <2> QED BY <1>1, <2>2 DEF Consider
<1>2. ASSUME AddNext(w) PROVE TypeOK'
  <2>1. run.cur \in Ids
    BY <1>2, <1>f DEF AddNext, Doing, StatusSteps
  <2>2. home' \in Feeds
    BY <1>2, <2>1, AddType DEF AddNext
  <2>3. [job |-> run.job, at |-> LoopStep(run.job.kind, run.todo), todo |-> run.todo,
         cur |-> 0, added |-> run.added \/ WouldAdd(home, run.cur),
         maxId |-> run.maxId] \in Runs
    BY <1>0, <1>d DEF Runs
  <2>4. thread' \in [Workers -> Runs]
    BY <1>2, <2>3 DEF AddNext
  <2> QED BY <1>2, <2>2, <2>4 DEF AddNext
<1>3. ASSUME PushToHome(w) PROVE TypeOK'
  <2>1. run.cur \in Ids
    BY <1>3, <1>f DEF PushToHome, Doing, StatusSteps
  <2>2. home' \in Feeds
    BY <1>3, <2>1, AddType DEF PushToHome
  <2>3. done("trim", {}, 0) \/ Finish(w)
    BY <1>3 DEF PushToHome, done
  <2>4. thread' \in [Workers -> Runs]
    BY <1>b, <1>c, <1>e, <2>3
  <2> QED BY <1>3, <2>2, <2>4 DEF PushToHome
<1>4. ASSUME TrimHome(w) PROVE TypeOK'
  BY <1>4, <1>c, TrimType DEF TrimHome
<1>5. ASSUME EndPage(w) PROVE TypeOK'
  <2>1. thread' \in [Workers -> Runs]
    BY <1>5, <1>c, PageType DEF EndPage
  <2>2. regenerating' \in BOOLEAN
    BY <1>5 DEF EndPage, TurnPage
  <2> QED BY <1>5, <2>1, <2>2 DEF EndPage
<1>6. ASSUME RemoveNext(w) PROVE TypeOK'
  <2>1. PICK s \in run.todo :
          /\ home' = RemoveFromFeed(home, s)
          /\ Begin(w, Step(run, "each", run.todo \ {s}, 0))
    BY <1>6, NewestSubset, OldestSubset DEF RemoveNext
  <2>2. home' \in Feeds
    BY <1>0, <2>1, RemoveType
  <2>3. done("each", run.todo \ {s}, 0) \/ Finish(w)
    BY <2>1 DEF Begin, done, Finish
  <2>4. thread' \in [Workers -> Runs]
    BY <1>0, <1>b, <1>c, <1>e, <2>3
  <2> QED BY <1>6, <2>2, <2>4 DEF RemoveNext
<1>7. ASSUME Unpush(w) PROVE TypeOK'
  <2>1. run.cur \in Ids
    BY <1>7, <1>f DEF Unpush, Doing, StatusSteps
  <2>2. home' \in Feeds
    BY <1>7, <2>1, RemoveType DEF Unpush
  <2>3. done("each", run.todo, 0) \/ done("destroy", run.todo, run.cur)
    BY <1>7 DEF Unpush, done
  <2>4. thread' \in [Workers -> Runs]
    BY <1>0, <1>b, <1>e, <2>1, <2>3
  <2> QED BY <1>7, <2>2, <2>4 DEF Unpush
<1>8. ASSUME NextReblog(w) PROVE TypeOK'
  <2>1. PICK s \in Newest(run.todo, 1) : done("unpush", run.todo \ {s}, s)
    BY <1>8 DEF NextReblog, done
  <2>2. thread' \in [Workers -> Runs]
    BY <1>0, <1>a, <1>b, <1>e, <2>1
  <2> QED BY <1>8, <2>2 DEF NextReblog
<1>9. ASSUME EndReblogs(w) PROVE TypeOK'
  <2>1. run.job.arg \in Ids
    BY <1>0, <1>9, ArgType DEF EndReblogs, Doing, StatusJobs
  <2>2. done("destroy", {}, run.job.arg)
    BY <1>9 DEF EndReblogs, done
  <2>3. thread' \in [Workers -> Runs]
    BY <1>b, <1>e, <2>1, <2>2
  <2> QED BY <1>9, <2>3 DEF EndReblogs
<1>10. ASSUME Destroy(w) PROVE TypeOK'
  <2>1. Finish(w) \/ done("each", run.todo, 0)
    BY <1>10 DEF Destroy, done
  <2>2. thread' \in [Workers -> Runs]
    BY <1>0, <1>b, <1>c, <1>e, <2>1
  <2> QED BY <1>10, <2>2 DEF Destroy
<1>11. ASSUME Untrack(w) PROVE TypeOK'
  <2>1. done("drop", {o \in Ids : Tracked(home, o)}, 0)
    BY <1>11 DEF Untrack, done
  <2>2. thread' \in [Workers -> Runs]
    BY <1>b, <1>e, <2>1
  <2> QED BY <1>11, <2>2, CleanupType DEF Untrack
<1>12. ASSUME Drop(w) PROVE TypeOK'
  BY <1>12, <1>c, CleanupType DEF Drop
<1> QED
  BY <1>1, <1>2, <1>3, <1>4, <1>5, <1>6, <1>7, <1>8, <1>9, <1>10, <1>11, <1>12
     DEF Proceed

LEMMA TypeInterrupt ==
  ASSUME TypeOK, NEW w \in Workers, Interrupt(w)
  PROVE  TypeOK'
<1>1. thread[w].job \in Jobs
  BY InterruptibleAssumption
     DEF Interrupt, TypeOK, Runs, NoJob, StatusJobs, AccountJobs, OwnerJobs
<1>2. queue' \in [Jobs -> Nat]
  BY <1>1, PushType DEF Interrupt, TypeOK
<1>3. thread' \in [Workers -> Runs]
  BY IdleType DEF Interrupt, Finish, TypeOK
<1> QED
  BY <1>2, <1>3
     DEF Interrupt, TypeOK, statuses, relations, account

LEMMA TypeNext == TypeOK /\ [Next]_vars => TypeOK'
<1> SUFFICES ASSUME TypeOK, [Next]_vars PROVE TypeOK'
  OBVIOUS
<1>1. CASE Web
  BY <1>1, TypeWeb
<1>2. CASE \E w \in Workers : Start(w) \/ Proceed(w) \/ Interrupt(w)
  BY <1>2, TypeStart, TypeProceed, TypeInterrupt
<1>3. CASE UNCHANGED vars
  BY <1>3 DEF TypeOK, vars, statuses, relations, account, bounds
<1> QED BY <1>1, <1>2, <1>3 DEF Next

\* The variables keep their types: whatever is posted, deleted, queued or
\* interrupted, a feed only ever holds ids of statuses.
THEOREM TypeCorrect == Spec => []TypeOK
BY TypeInit, TypeNext, PTL DEF Spec

-----------------------------------------------------------------------------
(* Held-back reblogs stay reachable *)

Dropping(w, o) == Doing(w, {"cleanup"}, "drop") /\ o \in thread[w].todo

(* A step of a thread that is not dropping keeps the invariant if it holds *)
(* back only reblogs of what is tracked, and stops tracking only what has   *)
(* nothing held back.                                                       *)
LEMMA OrphanStep ==
  ASSUME NoOrphanedExtras, NEW w \in Workers,
         ~Doing(w, {"cleanup"}, "drop"),
         \A v \in Workers : v # w => thread'[v] = thread[v],
         \A o \in Ids : home'.extras[o] # {} =>
            /\ home.extras[o] # {} \/ Tracked(home, o)
            /\ Tracked(home, o) => Tracked(home', o)
  PROVE  NoOrphanedExtras'
<1> SUFFICES ASSUME NEW o \in Ids, home'.extras[o] # {}
             PROVE  Tracked(home', o) \/ \E v \in Workers : Dropping(v, o)'
  BY DEF NoOrphanedExtras, Dropping
<1>1. CASE Tracked(home, o)
  BY <1>1
<1>2. CASE ~Tracked(home, o)
  <2>1. PICK v \in Workers : Dropping(v, o)
    BY <1>2 DEF NoOrphanedExtras, Dropping
  <2>2. v # w
    BY <2>1 DEF Dropping
  <2>3. Dropping(v, o)'
    BY <2>1, <2>2 DEF Dropping, Doing, Busy
  <2> QED BY <2>3
<1> QED BY <1>1, <1>2

(* The primitives hold back and stop tracking as the lemma wants. *)
LEMMA PrimitivesTrack ==
  ASSUME NEW f \in Feeds, NEW s \in Ids, NEW o \in Ids
  PROVE  /\ AddToFeed(f, s).extras[o] # {} =>
              /\ f.extras[o] # {} \/ Tracked(f, o)
              /\ Tracked(f, o) => Tracked(AddToFeed(f, s), o)
         /\ RemoveFromFeed(f, s).extras[o] # {} =>
              /\ f.extras[o] # {}
              /\ Tracked(f, o) => Tracked(RemoveFromFeed(f, s), o)
         /\ Trim(f).extras[o] # {} =>
              /\ f.extras[o] # {}
              /\ Tracked(f, o) => Tracked(Trim(f), o)
<1>1. AddToFeed(f, s).extras[o] # {} =>
        /\ f.extras[o] # {} \/ Tracked(f, o)
        /\ Tracked(f, o) => Tracked(AddToFeed(f, s), o)
  BY StatusesAssumption DEF AddToFeed, HeldBack, Tracked, Feeds
<1>2. RemoveFromFeed(f, s).extras[o] # {} =>
        /\ f.extras[o] # {}
        /\ Tracked(f, o) => Tracked(RemoveFromFeed(f, s), o)
  BY DEF RemoveFromFeed, ExtrasWithout, Tracked, Feeds
<1>3. Trim(f).extras[o] # {} =>
        /\ f.extras[o] # {}
        /\ Tracked(f, o) => Tracked(Trim(f), o)
  BY DEF Trim, Tracked, Feeds
<1> QED BY <1>1, <1>2, <1>3

LEMMA OrphanProceed ==
  ASSUME TypeOK, NoOrphanedExtras, NEW w \in Workers, Proceed(w)
  PROVE  NoOrphanedExtras'
<1>1. home \in Feeds /\ thread \in [Workers -> Runs] /\ thread[w] \in Runs
  BY DEF TypeOK
<1>2. thread[w].at \in StatusSteps => thread[w].cur \in Ids
  BY <1>1 DEF Runs
<1>3. ASSUME ~Doing(w, {"cleanup"}, "drop"),
             \A v \in Workers : v # w => thread'[v] = thread[v],
             \/ home' = home
             \/ \E s \in Ids : home' = AddToFeed(home, s)
             \/ \E s \in Ids : home' = RemoveFromFeed(home, s)
             \/ home' = Trim(home) /\ Ids # {}
      PROVE  NoOrphanedExtras'
  <2>1. \A o \in Ids : home'.extras[o] # {} =>
            /\ home.extras[o] # {} \/ Tracked(home, o)
            /\ Tracked(home, o) => Tracked(home', o)
    BY <1>1, <1>3, PrimitivesTrack
  <2> QED BY <1>3, <2>1, OrphanStep
<1>4. CASE Consider(w)
  <2>1. \A v \in Workers : v # w => thread'[v] = thread[v]
    BY <1>1, <1>4 DEF Consider
  <2> QED BY <1>3, <1>4, <2>1 DEF Consider, Doing
<1>5. CASE AddNext(w)
  <2>1. thread[w].cur \in Ids
    BY <1>2, <1>5 DEF AddNext, Doing, StatusSteps
  <2> QED BY <1>1, <1>3, <1>5, <2>1 DEF AddNext, Doing
<1>6. CASE PushToHome(w)
  <2>1. thread[w].cur \in Ids
    BY <1>2, <1>6 DEF PushToHome, Doing, StatusSteps
  <2>2. \A v \in Workers : v # w => thread'[v] = thread[v]
    BY <1>1, <1>6 DEF PushToHome, Finish
  <2> QED BY <1>3, <1>6, <2>1, <2>2 DEF PushToHome, Doing
<1>7. CASE TrimHome(w)
  <2>1. \A v \in Workers : v # w => thread'[v] = thread[v]
    BY <1>1, <1>7 DEF TrimHome, Finish
  <2>2. Ids = {} => NoOrphanedExtras'
    BY DEF NoOrphanedExtras
  <2> QED BY <1>3, <1>7, <2>1, <2>2 DEF TrimHome, Doing
<1>8. CASE EndPage(w)
  <2>1. \A v \in Workers : v # w => thread'[v] = thread[v]
    BY <1>1, <1>8 DEF EndPage, TurnPage, ReadPage, Finish
  <2> QED BY <1>3, <1>8, <2>1 DEF EndPage, Doing
<1>9. CASE RemoveNext(w)
  <2>1. \A v \in Workers : v # w => thread'[v] = thread[v]
    BY <1>1, <1>9 DEF RemoveNext, Begin
  <2>2. \E s \in Ids : home' = RemoveFromFeed(home, s)
    BY <1>1, <1>9, NewestSubset, OldestSubset DEF RemoveNext, Runs
  <2> QED BY <1>3, <1>9, <2>1, <2>2 DEF RemoveNext, Doing
<1>10. CASE Unpush(w)
  <2>1. thread[w].cur \in Ids
    BY <1>2, <1>10 DEF Unpush, Doing, StatusSteps
  <2>2. \A v \in Workers : v # w => thread'[v] = thread[v]
    BY <1>1, <1>10 DEF Unpush
  <2> QED BY <1>3, <1>10, <2>1, <2>2 DEF Unpush, Doing
<1>11. CASE NextReblog(w)
  BY <1>1, <1>3, <1>11 DEF NextReblog, Doing
<1>12. CASE EndReblogs(w)
  BY <1>1, <1>3, <1>12 DEF EndReblogs, Doing
<1>13. CASE Destroy(w)
  <2>1. \A v \in Workers : v # w => thread'[v] = thread[v]
    BY <1>1, <1>13 DEF Destroy, Finish
  <2> QED BY <1>3, <1>13, <2>1 DEF Destroy, Doing
\* The clean-up remembers what it stops tracking ...
<1>14. CASE Untrack(w)
  <2>1. thread' = [thread EXCEPT ![w] =
                     Step(thread[w], "drop", {o \in Ids : Tracked(home, o)}, 0)]
    BY <1>1, <1>14 DEF Untrack
  <2>2. thread[w].job.kind = "cleanup"
    BY <1>14 DEF Untrack, Doing
  <2>3. \A o \in Ids : Tracked(home, o) => Dropping(w, o)'
    BY <1>1, <2>1, <2>2 DEF Dropping, Doing, Busy, Step
  <2>4. \A v \in Workers, o \in Ids : v # w /\ Dropping(v, o) => Dropping(v, o)'
    BY <1>1, <2>1 DEF Dropping, Doing, Busy
  <2>5. \A o \in Ids : ~Dropping(w, o)
    BY <1>14 DEF Untrack, Dropping, Doing
  <2>6. \A o \in Ids : home'.extras[o] = home.extras[o]
    BY <1>14 DEF Untrack, Untracked
  <2>7. \A o \in Ids : home.extras[o] # {} => \E v \in Workers : Dropping(v, o)'
    BY <2>3, <2>4, <2>5 DEF NoOrphanedExtras, Dropping
  <2> QED BY <2>6, <2>7 DEF NoOrphanedExtras, Dropping
\* ... and drops all of it
<1>15. CASE Drop(w)
  <2>1. \A v \in Workers : v # w => thread'[v] = thread[v]
    BY <1>1, <1>15 DEF Drop, Finish
  <2>2. \A v \in Workers, o \in Ids : v # w /\ Dropping(v, o) => Dropping(v, o)'
    BY <2>1 DEF Dropping, Doing, Busy
  <2>3. \A o \in Ids : home'.extras[o] # {} => home.extras[o] # {} /\ ~Dropping(w, o)
    BY <1>15 DEF Drop, DropExtras, Dropping
  <2>4. \A o \in Ids : Tracked(home, o) => Tracked(home', o)
    BY <1>15 DEF Drop, DropExtras, Tracked
  <2> QED BY <2>2, <2>3, <2>4 DEF NoOrphanedExtras, Dropping
<1> QED
  BY <1>4, <1>5, <1>6, <1>7, <1>8, <1>9, <1>10, <1>11, <1>12, <1>13, <1>14, <1>15
     DEF Proceed

LEMMA OrphanNext ==
  ASSUME "cleanup" \notin Interruptible, TypeOK, NoOrphanedExtras, [Next]_vars
  PROVE  NoOrphanedExtras'
<1>0. thread \in [Workers -> Runs]
  BY DEF TypeOK
<1>1. CASE Web
  <2>1. UNCHANGED <<home, thread>>
    BY <1>1 DEF Web, Post, Delete, Follow, Unfollow, Block, Unblock, Mute, Unmute,
                ShowReblogs, GoInactive, SignIn, FlagExpires, ScheduleCleanup
  <2> QED BY <2>1 DEF NoOrphanedExtras, Doing, Busy
<1>2. ASSUME NEW w \in Workers, Start(w) PROVE NoOrphanedExtras'
  <2>1. home' = home
    BY <1>2 DEF Start, StartDistribute, StartInsert, StartRemove, StartMerge,
                StartUnmerge, StartClear, StartPopulate, StartCleanup
  <2>2. \A v \in Workers : v # w => thread'[v] = thread[v]
    BY <1>0, <1>2
       DEF Start, StartDistribute, StartInsert, StartRemove, StartMerge, StartUnmerge,
           StartClear, StartPopulate, StartCleanup, Begin, TurnPage, ReadPage, Finish
  <2>3. ~Busy(w)
    BY <1>2 DEF Start, StartDistribute, StartInsert, StartRemove, StartMerge,
                StartUnmerge, StartClear, StartPopulate, StartCleanup, Take
  <2> QED BY <2>1, <2>2, <2>3, OrphanStep DEF Doing
<1>3. ASSUME NEW w \in Workers, Interrupt(w) PROVE NoOrphanedExtras'
  <2>1. \A v \in Workers : v # w => thread'[v] = thread[v]
    BY <1>0, <1>3 DEF Interrupt, Finish
  <2>2. home' = home /\ ~Doing(w, {"cleanup"}, "drop")
    BY <1>3 DEF Interrupt, Doing
  <2> QED BY <2>1, <2>2, OrphanStep
<1>4. CASE UNCHANGED vars
  BY <1>4 DEF NoOrphanedExtras, Doing, Busy, vars
<1> QED BY <1>1, <1>2, <1>3, <1>4, OrphanProceed DEF Next

\* If clean-ups are not interrupted, no set of held-back reblogs is ever left
\* without the entry that leads to it, with any number of threads running
\* add_to_feed, remove_from_feed, trim and the clean-up.
THEOREM HeldBackReachable ==
  ASSUME "cleanup" \notin Interruptible
  PROVE  Spec => []NoOrphanedExtras
<1>1. Init => NoOrphanedExtras
  BY DEF Init, NoFeed, NoOrphanedExtras
<1>2. TypeOK /\ NoOrphanedExtras /\ [Next]_vars => NoOrphanedExtras'
  BY OrphanNext
<1> QED BY <1>1, <1>2, TypeCorrect, PTL DEF Spec

-----------------------------------------------------------------------------
(* Hidden accounts stay out, with one Sidekiq thread                       *)
(*                                                                         *)
(* HiddenStayOut is not inductive: a thread may be about to add a status   *)
(* (MutedNext), a clearing job may have gone past it (ClearCovers), a      *)
(* held-back entry may come back (HeldBackAreReblogs), and an id in the    *)
(* feed may become the id of a new status (SeenExist).                     *)

OneThread == \A v, w \in Workers : v = w

Adding == {"insert", "distribute", "merge", "populate"}

SeenExist ==
  /\ home.timeline \subseteq live \cup gone
  /\ \A o \in Ids : home.extras[o] \subseteq live \cup gone
  /\ \A w \in Workers :
       /\ Doing(w, Adding, "add") => thread[w].cur \in live \cup gone
       /\ Busy(w) /\ thread[w].job.kind \in {"merge", "populate"} =>
            thread[w].todo \subseteq live \cup gone

HeldBackAreReblogs ==
  \A o \in Ids : \A r \in home.extras[o] : IsReblog(r)

MutedNext ==
  \A w \in Workers :
    LET s == thread[w].cur IN
    Doing(w, Adding, "add") /\ ~IsReblog(s) /\ Hidden(AuthorOf[s]) =>
      Waiting("clear", AuthorOf[s])

Originals(a) == {s \in home.timeline \cap live : ~IsReblog(s) /\ AuthorOf[s] = a}

ClearCovers ==
  \A w \in Workers :
    Busy(w) /\ thread[w].job.kind = "clear" =>
      /\ thread[w].at = "each"
      /\ Originals(thread[w].job.arg) \subseteq thread[w].todo

HiddenInv ==
  /\ TypeOK /\ SeenExist /\ HeldBackAreReblogs
  /\ MutedNext /\ ClearCovers /\ HiddenStayOut

(* The hidden accounts are others, and what the filter lets through of     *)
(* theirs is not their own.                                                *)
LEMMA FilterHides ==
  ASSUME TypeOK, NEW s \in Ids, ~Filtered(s)
  PROVE  ~Hidden(AuthorOf[s])
<1>1. CASE AuthorOf[s] = Owner
  BY <1>1, AccountsAssumption DEF Hidden, TypeOK, Others
<1>2. CASE AuthorOf[s] # Owner
  BY <1>2 DEF Filtered, Involved
<1> QED BY <1>1, <1>2

(* A request may hide an account only if it queues the clearing job. *)
LEMMA HiddenRequest ==
  ASSUME HiddenInv,
         TypeOK',
         UNCHANGED <<home, thread>>,
         live \subseteq live', live \cup gone \subseteq live' \cup gone',
         live' \ live \subseteq Ids \ (live \cup gone),
         \A j \in Jobs : queue[j] > 0 => queue'[j] > 0,
         \A a \in Others : Hidden(a)' => Hidden(a) \/ Waiting("clear", a)'
  PROVE  HiddenInv'
<1>1. SeenExist' /\ HeldBackAreReblogs'
  BY DEF HiddenInv, SeenExist, HeldBackAreReblogs, Doing, Busy
<1>2. home'.timeline \cap live' = home.timeline \cap live
  BY DEF HiddenInv, SeenExist
<1>3. \A a \in Others : Waiting("clear", a) => Waiting("clear", a)'
  BY JobsAreJobs DEF Waiting
<1>4. \A a : Hidden(a)' => a \in Others
  BY DEF TypeOK, Hidden
<1>5. MutedNext'
  BY <1>3, <1>4 DEF HiddenInv, MutedNext, Doing, Busy
<1>6. ClearCovers'
  BY <1>2 DEF HiddenInv, ClearCovers, Originals, Busy
<1>7. HiddenStayOut'
  <2> SUFFICES ASSUME NEW s \in home'.timeline \cap live', ~IsReblog(s),
                      Hidden(AuthorOf[s])'
               PROVE  Pending("clear", AuthorOf[s])'
    BY DEF HiddenStayOut
  <2>1. CASE Waiting("clear", AuthorOf[s])'
    BY <2>1 DEF Pending
  <2>2. CASE Hidden(AuthorOf[s])
    <3>1. Pending("clear", AuthorOf[s])
      BY <1>2, <2>2 DEF HiddenInv, HiddenStayOut
    <3>2. RunningJob("clear", AuthorOf[s]) => RunningJob("clear", AuthorOf[s])'
      BY DEF RunningJob, Busy
    <3> QED BY <1>3, <1>4, <3>1, <3>2 DEF Pending
  <2> QED BY <1>4, <2>1, <2>2
<1> QED BY <1>1, <1>5, <1>6, <1>7 DEF HiddenInv

LEMMA HiddenWeb ==
  ASSUME HiddenInv, Web
  PROVE  HiddenInv'
<1> USE DEF Event, relations, statuses
<1>0. TypeOK /\ TypeOK'
  BY TypeWeb DEF HiddenInv
<1>1. UNCHANGED <<home, thread>>
  BY DEF Web, Post, Delete, Follow, Unfollow, Block, Unblock, Mute, Unmute,
         ShowReblogs, GoInactive, SignIn, FlagExpires, ScheduleCleanup
<1>2. /\ live \subseteq live' /\ live \cup gone \subseteq live' \cup gone'
      /\ live' \ live \subseteq Ids \ (live \cup gone)
  BY DEF Web, Post, Delete, Follow, Unfollow, Block, Unblock, Mute, Unmute,
         ShowReblogs, GoInactive, SignIn, FlagExpires, ScheduleCleanup
<1>3. /\ \A j \in Jobs : queue[j] > 0 => queue'[j] > 0
      /\ \A a \in Others : Hidden(a)' => Hidden(a) \/ Waiting("clear", a)'
  <2>0. queue \in [Jobs -> Nat]
    BY <1>0 DEF TypeOK
  <2>1. ASSUME NEW a \in Others, Block(a)
        PROVE  /\ \A j \in Jobs : queue[j] > 0 => queue'[j] > 0
               /\ queue'[Job("clear", a)] > 0
    <3>1. PICK q \in [Jobs -> Nat] : /\ \A j \in Jobs : queue[j] > 0 => q[j] > 0
                                    /\ queue' = Push(q, Job("clear", a))
      <4>1. CASE a \in following
        BY <2>0, <2>1, <4>1, JobsAreJobs, PushType DEF Block
      <4>2. CASE a \notin following
        BY <2>0, <2>1, <4>2 DEF Block
      <4> QED BY <4>1, <4>2
    <3> QED BY <3>1, JobsAreJobs, PushType
  <2>2. ASSUME NEW a \in Others, Mute(a)
        PROVE  /\ \A j \in Jobs : queue[j] > 0 => queue'[j] > 0
               /\ queue'[Job("clear", a)] > 0
    BY <2>0, <2>2, JobsAreJobs, PushType DEF Mute
  <2>3. ASSUME \/ \E s \in Ids : Post(s) \/ Delete(s)
               \/ \E a \in Others :
                    \/ Follow(a) \/ Unfollow(a) \/ Unblock(a) \/ Unmute(a)
                    \/ \E show \in BOOLEAN : ShowReblogs(a, show)
               \/ GoInactive \/ SignIn \/ FlagExpires \/ ScheduleCleanup
        PROVE  /\ \A j \in Jobs : queue[j] > 0 => queue'[j] > 0
               /\ blocking' \subseteq blocking /\ muting' \subseteq muting
    <3>1. queue' = queue \/ \E j \in Jobs : queue' = Push(queue, j)
      BY <2>3, JobsAreJobs
         DEF Post, Delete, Follow, Unfollow, Unblock, Unmute, ShowReblogs,
             GoInactive, SignIn, FlagExpires, ScheduleCleanup
    <3>2. blocking' \subseteq blocking /\ muting' \subseteq muting
      BY <2>3
         DEF Post, Delete, Follow, Unfollow, Unblock, Unmute, ShowReblogs,
             GoInactive, SignIn, FlagExpires, ScheduleCleanup
    <3> QED BY <2>0, <3>1, <3>2, PushType
  <2>4. ASSUME NEW a \in Others, Block(a)
        PROVE  \A b : Hidden(b)' => Hidden(b) \/ b = a
    BY <2>4 DEF Block, Hidden
  <2>5. ASSUME NEW a \in Others, Mute(a)
        PROVE  \A b : Hidden(b)' => Hidden(b) \/ b = a
    BY <2>5 DEF Mute, Hidden
  <2>6. CASE \E a \in Others : Block(a) \/ Mute(a)
    BY <2>1, <2>2, <2>4, <2>5, <2>6 DEF Waiting
  <2>7. CASE ~\E a \in Others : Block(a) \/ Mute(a)
    BY <2>3, <2>7 DEF Web, Hidden
  <2> QED BY <2>6, <2>7
<1> QED BY <1>0, <1>1, <1>2, <1>3, HiddenRequest

(* A thread takes a job when no thread is busy. *)
LEMMA HiddenStart ==
  ASSUME OneThread, HiddenInv, NEW w \in Workers, Start(w)
  PROVE  HiddenInv'
<1>0. TypeOK /\ TypeOK'
  BY TypeStart DEF HiddenInv
<1>1. /\ UNCHANGED <<home, live, gone, blocking, muting>>
      /\ \A v \in Workers : v = w
      /\ ~Busy(w)
      /\ home \in Feeds /\ thread \in [Workers -> Runs] /\ queue \in [Jobs -> Nat]
  BY <1>0
     DEF Start, StartDistribute, StartInsert, StartRemove, StartMerge, StartUnmerge,
         StartClear, StartPopulate, StartCleanup, Take, OneThread, TypeOK,
         statuses, relations
<1>2. HeldBackAreReblogs'
  BY <1>1 DEF HiddenInv, HeldBackAreReblogs
<1>3. ASSUME NEW s \in home.timeline \cap live, ~IsReblog(s), Hidden(AuthorOf[s])
      PROVE  Waiting("clear", AuthorOf[s])
  BY <1>1, <1>3 DEF HiddenInv, HiddenStayOut, Pending, RunningJob
\* What is to be shown of the new run
<1>4. ASSUME NEW j \in Jobs, j.kind # "clear",
             \A k \in Jobs : k # j /\ queue[k] > 0 => queue'[k] > 0,
             Busy(w)' =>
               /\ thread'[w].job = j
               /\ j.kind \in {"merge", "populate"} =>
                    thread'[w].todo \subseteq live \cup gone /\ thread'[w].at # "add"
               /\ thread'[w].at = "add" =>
                    /\ thread'[w].cur \in live \cup gone
                    /\ ~Hidden(AuthorOf[thread'[w].cur])
      PROVE  HiddenInv'
  <2>1. ASSUME NEW a \in Others, Waiting("clear", a)
        PROVE  Waiting("clear", a)'
    <3>1. Job("clear", a) # j
      BY <1>4 DEF Job
    <3> QED BY <1>4, <2>1, <3>1, JobsAreJobs DEF Waiting
  <2>2. SeenExist'
    BY <1>1, <1>4 DEF HiddenInv, SeenExist, Doing, Busy
  <2>3. \A a : Hidden(a)' <=> Hidden(a)
    BY <1>1 DEF Hidden
  <2>4. MutedNext'
    BY <1>1, <1>4, <2>3 DEF MutedNext, Doing, Busy
  <2>5. ClearCovers'
    BY <1>1, <1>4 DEF ClearCovers, Busy
  <2>6. HiddenStayOut'
    <3>1. \A a : Hidden(a) => a \in Others
      BY <1>0 DEF TypeOK, Hidden
    <3> QED BY <1>1, <1>3, <2>1, <2>3, <3>1 DEF HiddenStayOut, Pending
  <2> QED BY <1>0, <1>2, <2>2, <2>4, <2>5, <2>6 DEF HiddenInv
<1>5. ASSUME NEW j \in Jobs, Take(w, j)
      PROVE  \A k \in Jobs : k # j /\ queue[k] > 0 => Dequeued(j)[k] > 0
  BY <1>1, <1>5, DequeuedType DEF Take
<1>6. ASSUME NEW s \in Ids, StartDistribute(w, s) PROVE HiddenInv'
  <2>1. PICK j \in Jobs : j = Job("distribute", s) /\ j.kind # "clear" /\ Take(w, j)
    BY <1>6, JobsAreJobs DEF StartDistribute, Job
  <2>2. \A k \in Jobs : k # j /\ queue[k] > 0 => queue'[k] > 0
    <3>1. Dequeued(j) \in [Jobs -> Nat]
      BY <1>1, <2>1, DequeuedType DEF Take
    <3>2. queue' = Dequeued(j) \/ queue' = Push(Dequeued(j), Job("insert", s))
      BY <1>6, <2>1 DEF StartDistribute
    <3> QED BY <1>5, <2>1, <3>1, <3>2, PushType, JobsAreJobs
  <2>3. Busy(w)' => /\ s \in live /\ AuthorOf[s] = Owner
                    /\ thread'[w] = Run(j, "add", {}, s)
    BY <1>1, <1>6, <2>1 DEF StartDistribute, Busy
  <2>4. ~Hidden(Owner)
    BY <1>0 DEF TypeOK, Hidden, Others
  <2>5. j.kind \notin {"merge", "populate"}
    BY <2>1 DEF Job
  <2> QED BY <1>4, <2>1, <2>2, <2>3, <2>4, <2>5 DEF Run
<1>7. ASSUME NEW s \in Ids, StartInsert(w, s) PROVE HiddenInv'
  <2>1. PICK j \in Jobs : j = Job("insert", s) /\ j.kind = "insert" /\ Take(w, j)
    BY <1>7, JobsAreJobs DEF StartInsert, Job
  <2>2. Busy(w)' => /\ s \in live /\ ~Filtered(s)
                    /\ thread'[w] = Run(j, "add", {}, s)
    BY <1>1, <1>7, <2>1 DEF StartInsert, Busy
  <2>3. queue' = Dequeued(j)
    BY <1>7, <2>1 DEF StartInsert
  <2> QED BY <1>0, <1>4, <1>5, <2>1, <2>2, <2>3, FilterHides DEF Run
<1>8. ASSUME NEW s \in Ids, StartRemove(w, s) PROVE HiddenInv'
  <2>1. PICK j \in Jobs : j = Job("remove", s) /\ j.kind = "remove" /\ Take(w, j)
    BY <1>8, JobsAreJobs DEF StartRemove, Job
  <2>2. Busy(w)' => thread'[w] = Run(j, "unpush", ReblogsOf(s), s)
    BY <1>1, <1>8, <2>1 DEF StartRemove, Busy
  <2>3. queue' = Dequeued(j)
    BY <1>8, <2>1 DEF StartRemove
  <2> QED BY <1>4, <1>5, <2>1, <2>2, <2>3 DEF Run
<1>9. ASSUME NEW a \in Others, StartMerge(w, a) PROVE HiddenInv'
  <2>1. PICK j \in Jobs : j = Job("merge", a) /\ j.kind = "merge" /\ Take(w, j)
    BY <1>9, JobsAreJobs DEF StartMerge, Job
  <2>2. thread'[w] = Run(j, LoopStep("merge", MergeSelection(a)), MergeSelection(a), 0)
    BY <1>1, <1>9, <2>1 DEF StartMerge
  <2>3. MergeSelection(a) \subseteq live
    BY NewestSubset DEF MergeSelection, StatusesOf
  <2>4. queue' = Dequeued(j)
    BY <1>9, <2>1 DEF StartMerge
  <2>5. LoopStep("merge", MergeSelection(a)) # "add"
    BY DEF LoopStep
  <2> QED BY <1>4, <1>5, <2>1, <2>2, <2>3, <2>4, <2>5 DEF Run
<1>10. ASSUME NEW a \in Others, StartUnmerge(w, a) PROVE HiddenInv'
  <2>1. PICK j \in Jobs : j = Job("unmerge", a) /\ j.kind = "unmerge" /\ Take(w, j)
    BY <1>10, JobsAreJobs DEF StartUnmerge, Job
  <2>2. Busy(w)' => thread'[w] = Run(j, "each", UnmergeSelection(a), 0)
    BY <1>1, <1>10, <2>1 DEF StartUnmerge, Begin, Busy, Idle, Run
  <2>3. queue' = Dequeued(j)
    BY <1>10, <2>1 DEF StartUnmerge
  <2> QED BY <1>4, <1>5, <2>1, <2>2, <2>3 DEF Run
<1>11. ASSUME StartPopulate(w) PROVE HiddenInv'
  <2>1. PICK j \in Jobs : j = Job("populate", Owner) /\ j.kind = "populate" /\ Take(w, j)
    BY <1>11, JobsAreJobs DEF StartPopulate, Job
  <2>2. Busy(w)' => /\ thread'[w].job = j /\ thread'[w].at = "each"
                    /\ thread'[w].todo \subseteq live
    <3>1. PopulatePage(0) \subseteq live
      BY NewestSubset DEF PopulatePage, HomeTimeline
    <3> QED
      BY <1>1, <1>11, <2>1, <3>1
         DEF StartPopulate, TurnPage, ReadPage, Finish, Busy, Idle, Run
  <2>3. queue' = Dequeued(j)
    BY <1>11, <2>1 DEF StartPopulate
  <2> QED BY <1>4, <1>5, <2>1, <2>2, <2>3
<1>12. ASSUME StartCleanup(w) PROVE HiddenInv'
  <2>1. PICK j \in Jobs : j = Job("cleanup", Owner) /\ j.kind = "cleanup" /\ Take(w, j)
    BY <1>12, JobsAreJobs DEF StartCleanup, Job
  <2>2. Busy(w)' => thread'[w] = Run(j, "each", {}, 0)
    BY <1>1, <1>12, <2>1 DEF StartCleanup, Busy
  <2>3. queue' = Dequeued(j)
    BY <1>12, <2>1 DEF StartCleanup
  <2> QED BY <1>4, <1>5, <2>1, <2>2, <2>3 DEF Run
\* The clearing job has before it all it is to clear
<1>13. ASSUME NEW a \in Others, StartClear(w, a) PROVE HiddenInv'
  <2>1. PICK j \in Jobs : /\ j = Job("clear", a) /\ j.kind = "clear" /\ j.arg = a
                         /\ Take(w, j)
    BY <1>13, JobsAreJobs DEF StartClear, Job
  <2>2. queue' = Dequeued(j)
    BY <1>13, <2>1 DEF StartClear
  <2>3. thread'[w] = IF ClearSelection(a) = {} THEN Idle
                     ELSE Run(j, "each", ClearSelection(a), 0)
    BY <1>1, <1>13, <2>1 DEF StartClear, Begin, Run
  <2>4. Originals(a) \subseteq ClearSelection(a)
    BY DEF Originals, ClearSelection, StatusesOf
  <2>5. Busy(w)' <=> ClearSelection(a) # {}
    BY <2>3 DEF Busy, Idle, Run
  <2>6. \A b \in Others : b # a /\ Waiting("clear", b) => Waiting("clear", b)'
    BY <1>5, <2>1, <2>2, JobsAreJobs DEF Waiting, Job
  <2>7. SeenExist' /\ MutedNext'
    BY <1>1, <2>1, <2>3
       DEF HiddenInv, SeenExist, MutedNext, Doing, Busy, Idle, Run, Adding
  <2>8. ClearCovers'
    BY <1>1, <2>1, <2>3, <2>4 DEF ClearCovers, Originals, Busy, Idle, Run
  <2>9. HiddenStayOut'
    <3> SUFFICES ASSUME NEW s \in home.timeline \cap live, ~IsReblog(s),
                        Hidden(AuthorOf[s])
                 PROVE  Pending("clear", AuthorOf[s])'
      BY <1>1 DEF HiddenStayOut, Hidden
    <3>1. CASE AuthorOf[s] # a
      BY <1>0, <1>3, <2>6, <3>1 DEF Pending, TypeOK, Hidden
    <3>2. CASE AuthorOf[s] = a
      <4>1. ClearSelection(a) # {}
        BY <2>4, <3>2 DEF Originals
      <4>2. thread'[w].job = Job("clear", a)
        BY <2>1, <2>3, <4>1 DEF Run
      <4> QED BY <2>5, <3>2, <4>1, <4>2 DEF Pending, RunningJob
    <3> QED BY <3>1, <3>2
  <2> QED BY <1>0, <1>2, <2>7, <2>8, <2>9 DEF HiddenInv
<1> QED
  BY <1>6, <1>7, <1>8, <1>9, <1>10, <1>11, <1>12, <1>13 DEF Start

(* What the primitives do to the timeline and to what is held back. *)
Reblogs == {r \in live \cup gone : IsReblog(r)}

LEMMA PrimitivesHide ==
  ASSUME home \in Feeds, SeenExist, HeldBackAreReblogs, NEW s \in Ids
  PROVE  /\ AddToFeed(home, s).timeline \subseteq home.timeline \cup {s}
         /\ RemoveFromFeed(home, s).timeline \subseteq
              (home.timeline \cup Reblogs) \ {s}
         /\ Trim(home).timeline \subseteq home.timeline
         /\ \A o \in Ids :
              /\ AddToFeed(home, s).extras[o] \subseteq
                   home.extras[o] \cup IF IsReblog(s) THEN {s} ELSE {}
              /\ RemoveFromFeed(home, s).extras[o] \subseteq home.extras[o]
              /\ Trim(home).extras[o] \subseteq home.extras[o]
<1>1. ASSUME IsReblog(s) PROVE Replacement(home, s) \subseteq Reblogs
  <2>1. ReblogOf[s] \in Ids
    BY <1>1, StatusesAssumption DEF IsReblog
  <2> QED
    BY <2>1, OldestSubset DEF Replacement, Reblogs, SeenExist, HeldBackAreReblogs
<1>2. RemoveFromFeed(home, s).timeline \subseteq (home.timeline \cup Reblogs) \ {s}
  BY <1>1 DEF RemoveFromFeed
<1>3. Trim(home).timeline \subseteq home.timeline
  BY NewestSubset DEF Trim
<1>4. AddToFeed(home, s).timeline \subseteq home.timeline \cup {s}
  BY DEF AddToFeed
<1>5. ASSUME NEW o \in Ids
      PROVE  AddToFeed(home, s).extras[o] \subseteq
               home.extras[o] \cup IF IsReblog(s) THEN {s} ELSE {}
  BY <1>5 DEF AddToFeed, HeldBack
<1>6. ASSUME NEW o \in Ids
      PROVE  /\ RemoveFromFeed(home, s).extras[o] \subseteq home.extras[o]
             /\ Trim(home).extras[o] \subseteq home.extras[o]
  BY <1>6 DEF RemoveFromFeed, ExtrasWithout, Trim
<1> QED BY <1>2, <1>3, <1>4, <1>5, <1>6

(* A step of a job other than the clearing one. *)
LEMMA HiddenStep ==
  ASSUME OneThread, HiddenInv, TypeOK', NEW w \in Workers,
         Busy(w), thread[w].job.kind # "clear",
         UNCHANGED <<queue, blocking, muting>>,
         live' \subseteq live, live' \cup gone' = live \cup gone,
         home'.timeline \subseteq live \cup gone,
         \A s \in home'.timeline \ home.timeline :
           ~IsReblog(s) /\ Hidden(AuthorOf[s]) => Waiting("clear", AuthorOf[s]),
         \A o \in Ids : \A r \in home'.extras[o] :
           r \in live \cup gone /\ IsReblog(r),
         Busy(w)' =>
           /\ thread'[w].job = thread[w].job
           /\ thread[w].job.kind \in {"merge", "populate"} =>
                thread'[w].todo \subseteq live \cup gone
           /\ thread'[w].at = "add" =>
                /\ thread'[w].cur \in live \cup gone
                /\ ~Hidden(AuthorOf[thread'[w].cur])
  PROVE  HiddenInv'
<1>1. /\ \A v \in Workers : v = w
      /\ \A a : Hidden(a)' <=> Hidden(a)
      /\ \A a : Waiting("clear", a)' <=> Waiting("clear", a)
      /\ \A a : ~RunningJob("clear", a)
  BY DEF OneThread, Hidden, Waiting, RunningJob, Job
<1>2. HeldBackAreReblogs'
  BY DEF HeldBackAreReblogs
<1>3. SeenExist'
  BY <1>1 DEF SeenExist, Doing, Busy
<1>4. MutedNext'
  BY <1>1 DEF MutedNext, Doing, Busy
<1>5. ClearCovers'
  BY <1>1 DEF ClearCovers, Busy
<1>6. HiddenStayOut'
  BY <1>1 DEF HiddenStayOut, HiddenInv, Pending
<1> QED BY <1>2, <1>3, <1>4, <1>5, <1>6 DEF HiddenInv

LEMMA HiddenProceed ==
  ASSUME OneThread, HiddenInv, NEW w \in Workers, Proceed(w)
  PROVE  HiddenInv'
<1> USE DEF relations, statuses
<1>0. /\ TypeOK /\ TypeOK' /\ SeenExist /\ HeldBackAreReblogs
      /\ home \in Feeds /\ thread \in [Workers -> Runs] /\ thread[w] \in Runs
      /\ home.timeline \subseteq live \cup gone
      /\ \A o \in Ids : \A r \in home.extras[o] : r \in live \cup gone /\ IsReblog(r)
  BY TypeProceed DEF HiddenInv, TypeOK, SeenExist, HeldBackAreReblogs
\* Steps that leave the feed alone
<1>1. CASE Consider(w)
  <2>1. PICK s \in Newest(thread[w].todo, 1) :
          \/ /\ ~Filtered(s)
             /\ thread'[w] = Step(thread[w], "add", thread[w].todo \ {s}, s)
          \/ thread'[w] = Step(thread[w],
               LoopStep(thread[w].job.kind, thread[w].todo \ {s}),
               thread[w].todo \ {s}, 0)
    BY <1>0, <1>1 DEF Consider
  <2>2. s \in thread[w].todo /\ s \in Ids
    BY <1>0, NewestSubset DEF Runs
  <2>3. thread[w].todo \subseteq live \cup gone
    BY <1>0, <1>1 DEF SeenExist, Consider, Doing
  <2>4. LoopStep(thread[w].job.kind, thread[w].todo \ {s}) # "add"
    BY DEF LoopStep
  <2>5. Busy(w)' =>
          /\ thread'[w].job = thread[w].job
          /\ thread'[w].todo \subseteq live \cup gone
          /\ thread'[w].at = "add" =>
               thread'[w].cur \in live \cup gone /\ ~Hidden(AuthorOf[thread'[w].cur])
    BY <1>0, <2>1, <2>2, <2>3, <2>4, FilterHides DEF Step
  <2> QED BY <1>0, <1>1, <2>5, HiddenStep DEF Consider, Doing
<1>2. CASE EndPage(w)
  <2>1. UNCHANGED <<queue, home, live, gone, blocking, muting>>
    BY <1>2 DEF EndPage
  <2>2. Busy(w)' => /\ thread'[w].job = Job("populate", Owner)
                    /\ thread'[w].at = "each"
                    /\ thread'[w].todo \subseteq live
    <3>1. \A m : PopulatePage(m) \subseteq live
      BY NewestSubset DEF PopulatePage, HomeTimeline
    <3> QED
      BY <1>0, <1>2, <3>1 DEF EndPage, TurnPage, ReadPage, Finish, Busy, Idle, Run
  <2>3. thread[w].job = Job("populate", Owner)
    BY <1>0, <1>2
       DEF EndPage, Doing, Runs, Jobs, NoJob, Job, StatusJobs, AccountJobs, OwnerJobs
  <2>4. Busy(w) /\ thread[w].job.kind # "clear"
    BY <1>2 DEF EndPage, Doing
  <2> QED BY <1>0, <2>1, <2>2, <2>3, <2>4, HiddenStep
<1>3. CASE NextReblog(w) \/ EndReblogs(w) \/ Destroy(w)
  <2>1. Busy(w) /\ thread[w].job.kind = "remove"
    BY <1>3 DEF NextReblog, EndReblogs, Destroy, Doing
  <2>2. /\ UNCHANGED <<queue, home, blocking, muting>>
        /\ live' \subseteq live /\ live' \cup gone' = live \cup gone
    BY <1>3 DEF NextReblog, EndReblogs, Destroy
  <2>3. Busy(w)' => thread'[w].job = thread[w].job /\ thread'[w].at # "add"
    BY <1>0, <1>3
       DEF NextReblog, EndReblogs, Destroy, Finish, Busy, Idle, Run, Step
  <2> QED BY <1>0, <2>1, <2>2, <2>3, HiddenStep
\* Steps that add
<1>4. CASE AddNext(w) \/ PushToHome(w)
  <2> DEFINE s == thread[w].cur
  <2>1. Doing(w, Adding, "add") /\ Busy(w) /\ thread[w].job.kind # "clear"
    BY <1>4 DEF AddNext, PushToHome, Doing, Adding
  <2>2. s \in Ids /\ s \in live \cup gone
    BY <1>0, <2>1 DEF Runs, StatusSteps, Doing, SeenExist
  <2>3. ~IsReblog(s) /\ Hidden(AuthorOf[s]) => Waiting("clear", AuthorOf[s])
    BY <2>1 DEF HiddenInv, MutedNext
  <2>4. home' = AddToFeed(home, s) /\ UNCHANGED <<queue, live, gone, blocking, muting>>
    BY <1>4 DEF AddNext, PushToHome
  <2>5. /\ home'.timeline \subseteq home.timeline \cup {s}
        /\ \A o \in Ids : home'.extras[o] \subseteq
             home.extras[o] \cup IF IsReblog(s) THEN {s} ELSE {}
    BY <1>0, <2>2, <2>4, PrimitivesHide
  <2>6. /\ home'.timeline \subseteq live \cup gone
        /\ \A r \in home'.timeline \ home.timeline : r = s
        /\ \A o \in Ids : \A r \in home'.extras[o] :
             r \in live \cup gone /\ IsReblog(r)
    BY <1>0, <2>2, <2>5
  <2>7. Busy(w)' => /\ thread'[w].job = thread[w].job /\ thread'[w].at # "add"
                    /\ thread'[w].todo \subseteq thread[w].todo
    BY <1>0, <1>4 DEF AddNext, PushToHome, LoopStep, Step, Finish, Busy, Idle, Run
  <2>8. thread[w].job.kind \in {"merge", "populate"} =>
          thread[w].todo \subseteq live \cup gone
    BY <1>0, <2>1 DEF SeenExist
  <2> HIDE DEF s
  <2> QED BY <1>0, <2>1, <2>3, <2>4, <2>6, <2>7, <2>8, HiddenStep
\* Steps that take away
<1>5. ASSUME Busy(w), thread[w].job.kind # "clear",
             UNCHANGED <<queue, live, gone, blocking, muting>>,
             home'.timeline \subseteq home.timeline \cup Reblogs,
             \A o \in Ids : home'.extras[o] \subseteq home.extras[o],
             Busy(w)' => /\ thread'[w].job = thread[w].job /\ thread'[w].at # "add"
                         /\ thread[w].job.kind \notin {"merge", "populate"}
      PROVE  HiddenInv'
  <2>1. /\ home'.timeline \subseteq live \cup gone
        /\ \A r \in home'.timeline \ home.timeline : IsReblog(r)
        /\ \A o \in Ids : \A r \in home'.extras[o] :
             r \in live \cup gone /\ IsReblog(r)
    BY <1>0, <1>5 DEF Reblogs
  <2> QED BY <1>0, <1>5, <2>1, HiddenStep
<1>6. CASE TrimHome(w)
  <2>1. home' = Trim(home) /\ ~Busy(w)'
    BY <1>0, <1>6 DEF TrimHome, Finish, Busy, Idle, Run
  <2>2. /\ home'.timeline \subseteq home.timeline
        /\ \A o \in Ids : home'.extras[o] \subseteq home.extras[o]
    <3>1. CASE Ids = {}
      BY <1>0, <2>1, <3>1, NewestSubset DEF Trim
    <3>2. CASE Ids # {}
      BY <1>0, <2>1, <3>2, PrimitivesHide
    <3> QED BY <3>1, <3>2
  <2> QED BY <1>5, <1>6, <2>1, <2>2 DEF TrimHome, Doing
<1>7. CASE Unpush(w)
  <2>1. /\ Busy(w) /\ thread[w].job.kind = "remove" /\ thread[w].cur \in Ids
        /\ UNCHANGED <<queue, live, gone, blocking, muting>>
    BY <1>0, <1>7 DEF Unpush, Doing, Runs, StatusSteps
  <2>2. home' = home \/ home' = RemoveFromFeed(home, thread[w].cur)
    BY <1>7 DEF Unpush
  <2>3. thread'[w].job = thread[w].job /\ thread'[w].at # "add"
    BY <1>0, <1>7 DEF Unpush, Step
  <2>4. /\ home'.timeline \subseteq home.timeline \cup Reblogs
        /\ \A o \in Ids : home'.extras[o] \subseteq home.extras[o]
    BY <1>0, <2>1, <2>2, PrimitivesHide
  <2> QED BY <1>5, <2>1, <2>3, <2>4
<1>8. CASE Untrack(w) \/ Drop(w)
  <2>1. /\ Busy(w) /\ thread[w].job.kind = "cleanup"
        /\ UNCHANGED <<queue, live, gone, blocking, muting>>
    BY <1>8 DEF Untrack, Drop, Doing
  <2>2. /\ home'.timeline \subseteq home.timeline
        /\ \A o \in Ids : home'.extras[o] \subseteq home.extras[o]
    BY <1>8 DEF Untrack, Drop, Untracked, DropExtras
  <2>3. Busy(w)' => thread'[w].job = thread[w].job /\ thread'[w].at # "add"
    BY <1>0, <1>8 DEF Untrack, Drop, Finish, Busy, Idle, Run, Step
  <2> QED BY <1>5, <2>1, <2>2, <2>3
<1>9. CASE RemoveNext(w)
  <2>1. PICK s \in thread[w].todo :
          /\ home' = RemoveFromFeed(home, s)
          /\ Begin(w, Step(thread[w], "each", thread[w].todo \ {s}, 0))
    BY <1>9, NewestSubset, OldestSubset DEF RemoveNext
  <2>2. /\ s \in Ids /\ Busy(w)
        /\ thread[w].job.kind \in {"unmerge", "clear"}
        /\ UNCHANGED <<queue, live, gone, blocking, muting>>
    BY <1>0, <1>9, <2>1 DEF RemoveNext, Doing, Runs
  <2>3. thread'[w] = IF thread[w].todo \ {s} = {} THEN Idle
                     ELSE Step(thread[w], "each", thread[w].todo \ {s}, 0)
    BY <1>0, <2>1 DEF Begin, Step
  <2>4. /\ home'.timeline \subseteq (home.timeline \cup Reblogs) \ {s}
        /\ \A o \in Ids : home'.extras[o] \subseteq home.extras[o]
    BY <1>0, <2>1, <2>2, PrimitivesHide
  <2>5. CASE thread[w].job.kind = "unmerge"
    <3>1. Busy(w)' => thread'[w].job = thread[w].job /\ thread'[w].at # "add"
      BY <2>3 DEF Busy, Idle, Run, Step
    <3> QED BY <1>5, <2>2, <2>4, <2>5, <3>1
  \* What is cleared is no longer in the feed, and no longer to be cleared
  <2>6. CASE thread[w].job.kind = "clear"
    <3>1. /\ \A v \in Workers : v = w
          /\ \A a : Hidden(a)' <=> Hidden(a)
          /\ \A a : Waiting("clear", a)' <=> Waiting("clear", a)
      BY <2>2 DEF OneThread, Hidden, Waiting
    <3>2. Busy(w)' <=> thread[w].todo \ {s} # {}
      BY <2>3 DEF Busy, Idle, Run, Step
    <3>3. Busy(w)' => /\ thread'[w].job = thread[w].job /\ thread'[w].at = "each"
                      /\ thread'[w].todo = thread[w].todo \ {s}
      BY <2>3, <3>2 DEF Step
    <3>4. \A a : Originals(a)' \subseteq Originals(a) \ {s}
      BY <2>2, <2>4 DEF Originals, Reblogs
    <3>5. SeenExist' /\ HeldBackAreReblogs'
      BY <1>0, <2>2, <2>4, <2>6, <3>1, <3>3
         DEF SeenExist, HeldBackAreReblogs, Reblogs, Doing, Busy
    <3>6. MutedNext'
      BY <3>1, <3>3 DEF MutedNext, Doing, Busy
    <3>7. ClearCovers'
      BY <2>2, <2>6, <3>1, <3>3, <3>4 DEF HiddenInv, ClearCovers, Busy
    <3>8. HiddenStayOut'
      <4> SUFFICES ASSUME NEW r \in home'.timeline \cap live, ~IsReblog(r),
                          Hidden(AuthorOf[r])
                   PROVE  Pending("clear", AuthorOf[r])'
        BY <2>2, <3>1 DEF HiddenStayOut
      <4>1. r \in home.timeline /\ r # s
        BY <2>4 DEF Reblogs
      <4>2. Pending("clear", AuthorOf[r])
        BY <4>1 DEF HiddenInv, HiddenStayOut
      <4>3. CASE Waiting("clear", AuthorOf[r])
        BY <3>1, <4>3 DEF Pending
      <4>4. CASE RunningJob("clear", AuthorOf[r])
        <5>1. thread[w].job = Job("clear", AuthorOf[r]) /\ thread[w].job.arg = AuthorOf[r]
          BY <3>1, <4>4 DEF RunningJob, Job
        <5>2. r \in thread[w].todo \ {s}
          BY <2>2, <2>6, <4>1, <5>1 DEF HiddenInv, ClearCovers, Originals
        <5> QED BY <3>2, <3>3, <5>1, <5>2 DEF Pending, RunningJob
      <4> QED BY <4>2, <4>3, <4>4 DEF Pending
    <3> QED BY <1>0, <3>5, <3>6, <3>7, <3>8 DEF HiddenInv
  <2> QED BY <2>2, <2>5, <2>6
<1> QED
  BY <1>1, <1>2, <1>3, <1>4, <1>6, <1>7, <1>8, <1>9 DEF Proceed

(* An interrupted job waits again. *)
LEMMA HiddenInterrupt ==
  ASSUME OneThread, HiddenInv, NEW w \in Workers, Interrupt(w)
  PROVE  HiddenInv'
<1>0. TypeOK /\ TypeOK' /\ home \in Feeds /\ queue \in [Jobs -> Nat]
  BY TypeInterrupt DEF HiddenInv, TypeOK
<1>1. /\ UNCHANGED <<home, live, gone, blocking, muting>>
      /\ \A v \in Workers : v = w /\ ~Busy(v)'
  BY <1>0 DEF Interrupt, Finish, OneThread, TypeOK, Busy, Idle, Run, statuses, relations
<1>2. thread[w].job \in Jobs
  BY <1>0, InterruptibleAssumption
     DEF Interrupt, TypeOK, Runs, NoJob, StatusJobs, AccountJobs, OwnerJobs
<1>3. \A a \in Others : Pending("clear", a) => Waiting("clear", a)'
  <2>1. ASSUME NEW a \in Others, Waiting("clear", a) PROVE Waiting("clear", a)'
    BY <1>0, <1>2, <2>1, PushType, JobsAreJobs DEF Interrupt, Waiting
  <2>2. ASSUME NEW a \in Others, RunningJob("clear", a) PROVE Waiting("clear", a)'
    BY <1>0, <1>1, <1>2, <2>2, PushType DEF Interrupt, Waiting, RunningJob
  <2> QED BY <2>1, <2>2 DEF Pending
<1>4. SeenExist' /\ HeldBackAreReblogs' /\ MutedNext' /\ ClearCovers'
  BY <1>1
     DEF HiddenInv, SeenExist, HeldBackAreReblogs, MutedNext, ClearCovers, Doing
<1>5. HiddenStayOut'
  <2>1. \A a : Hidden(a)' => Hidden(a) /\ a \in Others
    BY <1>0, <1>1 DEF Hidden, TypeOK
  <2> QED BY <1>1, <1>3, <2>1 DEF HiddenInv, HiddenStayOut, Pending
<1> QED BY <1>0, <1>4, <1>5 DEF HiddenInv

LEMMA HiddenNext ==
  ASSUME OneThread, HiddenInv, [Next]_vars
  PROVE  HiddenInv'
<1>1. CASE UNCHANGED vars
  <2>1. TypeOK'
    BY <1>1, TypeNext DEF HiddenInv
  <2> QED
    BY <1>1, <2>1
       DEF HiddenInv, SeenExist, HeldBackAreReblogs, MutedNext, ClearCovers, Originals,
           HiddenStayOut, Pending, Waiting, RunningJob, Hidden, Doing, Busy,
           vars, statuses, relations
<1> QED BY <1>1, HiddenWeb, HiddenStart, HiddenProceed, HiddenInterrupt DEF Next

\* With one Sidekiq thread, the posts of a muted or blocked account that are in
\* the feed are always on their way out: nothing queued, merged, regenerated or
\* put back in the place of a reblog brings one in behind the clearing job.
THEOREM HiddenOut ==
  ASSUME OneThread
  PROVE  Spec => []HiddenStayOut
<1>1. Init => HiddenInv
  <2> SUFFICES ASSUME Init PROVE HiddenInv
    OBVIOUS
  <2>1. \A w \in Workers : ~Busy(w)
    BY DEF Init, Busy, Idle, Run
  <2> QED
    BY <2>1, TypeInit
       DEF HiddenInv, SeenExist, HeldBackAreReblogs, MutedNext, ClearCovers,
           HiddenStayOut, Doing, Init, NoFeed
<1>2. HiddenInv /\ [Next]_vars => HiddenInv'
  BY HiddenNext
<1>3. HiddenInv => HiddenStayOut
  BY DEF HiddenInv
<1> QED BY <1>1, <1>2, <1>3, PTL DEF Spec

-----------------------------------------------------------------------------
(* The flag of a regeneration does not stay behind *)

Populate == Job("populate", Owner)

Populating(w) == Busy(w) /\ thread[w].job = Populate

LEMMA OtherJobs ==
  /\ \A s : Job("distribute", s) # Populate /\ Job("insert", s) # Populate /\ Job("remove", s) # Populate
  /\ \A a : Job("merge", a) # Populate /\ Job("unmerge", a) # Populate /\ Job("clear", a) # Populate
  /\ Job("cleanup", Owner) # Populate
  /\ Populate \in Jobs
BY JobsAreJobs DEF Job, Populate

(* It is enough to look at where the job was. *)
LEMMA StillPending ==
  ASSUME RegenerationPending, regenerating' => regenerating,
         queue[Populate] > 0 => Pending("populate", Owner)',
         \A w \in Workers : Populating(w) => Pending("populate", Owner)'
  PROVE  RegenerationPending'
BY DEF RegenerationPending, Pending, Waiting, RunningJob, Populating, Populate

LEMMA PendingWeb ==
  ASSUME TypeOK, RegenerationPending, Web
  PROVE  RegenerationPending'
<1>1. UNCHANGED thread
  BY DEF Web, Post, Delete, Follow, ShowReblogs, Unfollow, Block, Unblock, Mute, Unmute, GoInactive,
         SignIn, FlagExpires, ScheduleCleanup
<1>2. queue \in [Jobs -> Nat]
  BY DEF TypeOK
<1>3. queue[Populate] > 0 => queue'[Populate] > 0
  <2>1. CASE \E s \in Ids : Post(s) \/ Delete(s)
    BY <1>2, <2>1, PushType, JobsAreJobs, OtherJobs DEF Post, Delete
  <2>2. CASE \E a \in Others : Follow(a) \/ Unfollow(a) \/ Mute(a) \/ Unmute(a)
    BY <1>2, <2>2, PushType, JobsAreJobs, OtherJobs DEF Follow, Unfollow, Mute, Unmute
  <2>3. ASSUME NEW a \in Others, Block(a) PROVE queue[Populate] > 0 => queue'[Populate] > 0
    <3> DEFINE q == IF a \in following THEN Push(queue, Job("unmerge", a)) ELSE queue
    <3>1. q \in [Jobs -> Nat] /\ (queue[Populate] > 0 => q[Populate] > 0)
      BY <1>2, PushType, JobsAreJobs, OtherJobs
    <3>2. queue' = Push(q, Job("clear", a))
      BY <2>3 DEF Block
    <3> HIDE DEF q
    <3> QED BY <3>1, <3>2, PushType, JobsAreJobs, OtherJobs
  <2>4. CASE \/ \E a \in Others : Unblock(a) \/ \E show \in BOOLEAN : ShowReblogs(a, show)
             \/ GoInactive \/ FlagExpires
    BY <2>4 DEF Unblock, ShowReblogs, GoInactive, FlagExpires
  <2>5. CASE SignIn \/ ScheduleCleanup
    BY <1>2, <2>5, PushType, JobsAreJobs, OtherJobs DEF SignIn, ScheduleCleanup
  <2> QED BY <2>1, <2>2, <2>3, <2>4, <2>5 DEF Web
<1>4. Pending("populate", Owner) => Pending("populate", Owner)'
  BY <1>1, <1>3 DEF Pending, Waiting, RunningJob, Busy, Populate
<1>5. CASE SignIn
  <2>1. Pending("populate", Owner)'
    <3>1. CASE Pending("populate", Owner)
      BY <3>1, <1>4
    <3>2. CASE ~ Pending("populate", Owner)
      BY <1>2, <1>5, <3>2, PushType, JobsAreJobs DEF SignIn, Pending, Waiting
    <3> QED BY <3>1, <3>2
  <2> QED BY <2>1 DEF RegenerationPending
<1>6. CASE ~ SignIn
  <2>1. regenerating' => regenerating
    BY <1>6 DEF Web, Post, Delete, Follow, ShowReblogs, Unfollow, Block, Unblock, Mute, Unmute, GoInactive,
           FlagExpires, ScheduleCleanup, account
  <2> QED BY <1>4, <2>1 DEF RegenerationPending
<1> QED BY <1>5, <1>6

(* A thread that begins was idle; only the start of a regeneration takes its *)
(* job from the queue, and then it performs it or the flag is deleted.       *)
LEMMA PendingStart ==
  ASSUME TypeOK, RegenerationPending, NEW w \in Workers, Start(w)
  PROVE  RegenerationPending'
<1>1. queue \in [Jobs -> Nat] /\ thread \in [Workers -> Runs]
  BY DEF TypeOK
<1>2. ~ Busy(w)
  BY DEF Start, StartDistribute, StartInsert, StartRemove, StartMerge, StartUnmerge, StartClear,
         StartPopulate, StartCleanup, Take
<1>3. \A u \in Workers \ {w} : thread'[u] = thread[u]
  BY <1>1 DEF Start, StartDistribute, StartInsert, StartRemove, StartMerge, StartUnmerge, StartClear,
         StartPopulate, StartCleanup, TurnPage, ReadPage, Begin, Finish
<1>4. \A u \in Workers : Populating(u) => Pending("populate", Owner)'
  BY <1>2, <1>3 DEF Populating, Populate, Busy, Pending, RunningJob
<1>5. CASE StartPopulate(w)
  <2>1. CASE PopulatePage(0) = {}
    BY <1>5, <2>1 DEF StartPopulate, TurnPage, RegenerationPending
  <2>2. CASE PopulatePage(0) # {}
    <3>1. PICK last : thread' = [thread EXCEPT ![w] =
            [job |-> Job("populate", Owner), at |-> "each", todo |-> PopulatePage(0),
             cur |-> 0, added |-> FALSE, maxId |-> last]]
      BY <1>5, <2>2 DEF StartPopulate, TurnPage, ReadPage
    <3>2. thread'[w].at = "each" /\ thread'[w].job = Job("populate", Owner)
      BY <1>1, <3>1
    <3> QED BY <3>2 DEF RegenerationPending, Pending, RunningJob, Busy
  <2> QED BY <2>1, <2>2
<1>6. CASE ~ StartPopulate(w)
  <2>1. regenerating' = regenerating
    BY <1>6 DEF Start, StartDistribute, StartInsert, StartRemove, StartMerge, StartUnmerge, StartClear,
           StartCleanup, account
  <2>2. queue[Populate] > 0 => queue'[Populate] > 0
    <3>1. ASSUME NEW s \in Ids, StartDistribute(w, s)
          PROVE  queue[Populate] > 0 => queue'[Populate] > 0
      <4>1. /\ Dequeued(Job("distribute", s)) \in [Jobs -> Nat]
            /\ queue[Populate] > 0 => Dequeued(Job("distribute", s))[Populate] > 0
        BY <1>1, <3>1, DequeuedType, JobsAreJobs, OtherJobs DEF StartDistribute, Take
      <4> QED BY <3>1, <4>1, PushType, JobsAreJobs, OtherJobs DEF StartDistribute
    <3>2. CASE \E s \in Ids : StartInsert(w, s) \/ StartRemove(w, s)
      BY <1>1, <3>2, DequeuedType, JobsAreJobs, OtherJobs DEF StartInsert, StartRemove, Take
    <3>3. CASE \E a \in Others : StartMerge(w, a) \/ StartUnmerge(w, a) \/ StartClear(w, a)
      BY <1>1, <3>3, DequeuedType, JobsAreJobs, OtherJobs DEF StartMerge, StartUnmerge, StartClear, Take
    <3>4. CASE StartCleanup(w)
      BY <1>1, <3>4, DequeuedType, JobsAreJobs, OtherJobs DEF StartCleanup, Take
    <3> QED BY <1>6, <3>1, <3>2, <3>3, <3>4 DEF Start
  <2>3. queue[Populate] > 0 => Pending("populate", Owner)'
    BY <2>2 DEF Pending, Waiting, Populate
  <2> QED BY <1>4, <2>1, <2>3, StillPending
<1> QED BY <1>5, <1>6

(* A regeneration goes on with its page, turns it, or deletes the flag. *)
LEMMA PendingProceed ==
  ASSUME TypeOK, RegenerationPending, NEW w \in Workers, Proceed(w)
  PROVE  RegenerationPending'
<1>1. thread \in [Workers -> Runs] /\ UNCHANGED queue
  BY DEF TypeOK, Proceed, Consider, AddNext, EndPage, PushToHome, TrimHome, RemoveNext, Unpush, NextReblog,
         EndReblogs, Destroy, Untrack, Drop
<1>2. \A u \in Workers \ {w} : thread'[u] = thread[u]
  BY <1>1 DEF Proceed, Consider, AddNext, EndPage, TurnPage, ReadPage, PushToHome, TrimHome, RemoveNext,
         Unpush, NextReblog, EndReblogs, Destroy, Untrack, Drop, Begin, Finish
<1>3. \A u \in Workers \ {w} : Populating(u) => Pending("populate", Owner)'
  BY <1>2 DEF Populating, Populate, Busy, Pending, RunningJob
<1>4. queue[Populate] > 0 => Pending("populate", Owner)'
  BY <1>1 DEF Pending, Waiting, Populate
<1>5. regenerating' => regenerating
  BY DEF Proceed, Consider, AddNext, EndPage, TurnPage, PushToHome, TrimHome, RemoveNext, Unpush, NextReblog,
         EndReblogs, Destroy, Untrack, Drop, account
<1>6. ASSUME regenerating', Populating(w) PROVE Populating(w)'
  <2>1. thread[w].job.kind = "populate"
    BY <1>6 DEF Populating, Populate, Job
  <2>2. Consider(w) \/ AddNext(w) \/ EndPage(w)
    BY <2>1 DEF Proceed, PushToHome, TrimHome, RemoveNext, Unpush, NextReblog, EndReblogs, Destroy, Untrack,
           Drop, Doing
  <2>3. thread'[w].job = thread[w].job /\ thread'[w].at # "idle"
    <3>1. CASE Consider(w)
      BY <1>1, <3>1 DEF Consider, Step, LoopStep
    <3>2. CASE AddNext(w)
      BY <1>1, <3>2 DEF AddNext, LoopStep
    <3>3. CASE EndPage(w)
      <4>1. ReadPage(w, PopulatePage(thread[w].maxId))
        BY <1>6, <3>3 DEF EndPage, TurnPage
      <4> QED BY <1>1, <1>6, <4>1 DEF ReadPage, Populating, Populate
    <3> QED BY <2>2, <3>1, <3>2, <3>3
  <2> QED BY <1>6, <2>3 DEF Populating, Busy
<1>7. regenerating' /\ Populating(w) => Pending("populate", Owner)'
  BY <1>6 DEF Populating, Populate, Pending, RunningJob
<1> QED BY <1>3, <1>4, <1>5, <1>7, StillPending DEF RegenerationPending

LEMMA PendingInterrupt ==
  ASSUME TypeOK, RegenerationPending, NEW w \in Workers, Interrupt(w)
  PROVE  RegenerationPending'
<1>1. queue \in [Jobs -> Nat] /\ thread \in [Workers -> Runs]
  BY DEF TypeOK
<1>2. thread[w].job \in Jobs
  BY <1>1, InterruptibleAssumption DEF Interrupt, Runs, NoJob, StatusJobs, AccountJobs, OwnerJobs
<1>3. queue' = Push(queue, thread[w].job) /\ \A u \in Workers \ {w} : thread'[u] = thread[u]
  BY <1>1 DEF Interrupt, Finish
<1>4. queue[Populate] > 0 \/ Populating(w) => queue'[Populate] > 0
  BY <1>1, <1>2, <1>3, PushType, OtherJobs DEF Populating
<1>5. \A u \in Workers \ {w} : Populating(u) => Pending("populate", Owner)'
  BY <1>3 DEF Populating, Populate, Busy, Pending, RunningJob
<1>6. queue'[Populate] > 0 => Pending("populate", Owner)'
  BY DEF Pending, Waiting, Populate
<1>7. regenerating' = regenerating
  BY DEF Interrupt, account
<1> QED BY <1>4, <1>5, <1>6, <1>7, StillPending

\* Whatever is signed in, interrupted, retried or run twice: while the flag
\* account:ID:regeneration is set, a job is there that will delete it
\* (User#regenerate_feed!, PrecomputeFeedService).
THEOREM FlagIsMeant == Spec => []RegenerationPending
<1>1. Init => RegenerationPending
  BY DEF Init, RegenerationPending
<1>2. TypeOK /\ RegenerationPending /\ [Next]_vars => RegenerationPending'
  <2> SUFFICES ASSUME TypeOK, RegenerationPending, [Next]_vars PROVE RegenerationPending'
    OBVIOUS
  <2>1. CASE UNCHANGED vars
    BY <2>1 DEF vars, account, RegenerationPending, Pending, Waiting, RunningJob, Busy
  <2>2. CASE Next
    BY <2>2, PendingWeb, PendingStart, PendingProceed, PendingInterrupt DEF Next
  <2> QED BY <2>1, <2>2
<1> QED BY <1>1, <1>2, TypeCorrect, PTL DEF Spec
-----------------------------------------------------------------------------
(* Ranks in a feed *)

LEMMA RankType ==
  ASSUME NEW S \in SUBSET Ids, NEW x \in Ids
  PROVE  /\ IsFiniteSet({y \in S : y > x})
         /\ Rank(S, x) \in Nat
<1>1. {y \in S : y > x} \subseteq Ids
  OBVIOUS
<1>2. IsFiniteSet({y \in S : y > x})
  BY <1>1, FS_Subset, StatusesAssumption
<1> QED BY <1>2, FS_CardinalityType DEF Rank

(* The more there is, the further down an entry is. *)
LEMMA RankMonotonic ==
  ASSUME NEW T \in SUBSET Ids, NEW S \in SUBSET T, NEW x \in Ids
  PROVE  Rank(S, x) <= Rank(T, x)
<1>1. {y \in S : y > x} \subseteq {y \in T : y > x}
  OBVIOUS
<1> QED BY <1>1, RankType, FS_Subset DEF Rank

(* A new entry pushes the older ones one down. *)
LEMMA RankBelow ==
  ASSUME NEW S \in SUBSET Ids, NEW x \in Ids, NEW s \in Ids \ S, s > x
  PROVE  Rank(S \cup {s}, x) = Rank(S, x) + 1
<1>1. {y \in S \cup {s} : y > x} = {y \in S : y > x} \cup {s}
  OBVIOUS
<1>2. s \notin {y \in S : y > x}
  OBVIOUS
<1>3. IsFiniteSet({y \in S : y > x})
  BY RankType
<1>4. Cardinality({y \in S : y > x} \cup {s}) = Cardinality({y \in S : y > x}) + 1
  BY <1>2, <1>3, FS_AddElement
<1> QED BY <1>1, <1>4 DEF Rank

(* What is older than an entry is further down. *)
LEMMA RankOlder ==
  ASSUME NEW S \in SUBSET Ids, NEW a \in Ids, NEW b \in S, a < b
  PROVE  Rank(S, b) + 1 <= Rank(S, a)
<1>1. S \subseteq Nat /\ a \in Nat /\ b \in Nat
  BY StatusesAssumption
<1>2. {y \in S : y > b} \cup {b} \subseteq {y \in S : y > a}
  <2>1. \A y \in S : y > b => y > a
    BY <1>1
  <2> QED BY <1>1, <2>1
<1>3. b \notin {y \in S : y > b}
  BY <1>1
<1>4. Cardinality({y \in S : y > b} \cup {b}) = Rank(S, b) + 1
  BY <1>3, RankType, FS_AddElement DEF Rank
<1> QED BY <1>2, <1>4, RankType, FS_Subset DEF Rank

(* zremrangebyrank leaves the ranks of what it keeps. *)
LEMMA RankKept ==
  ASSUME NEW S \in SUBSET Ids, NEW n \in Nat, NEW x \in Newest(S, n)
  PROVE  Rank(Newest(S, n), x) = Rank(S, x)
<1>1. x \in S /\ Rank(S, x) < n /\ S \subseteq Nat
  BY StatusesAssumption DEF Newest
<1>2. ASSUME NEW y \in S, y > x PROVE y \in Newest(S, n)
  <2>1. Rank(S, y) + 1 <= Rank(S, x) /\ Rank(S, y) \in Nat /\ Rank(S, x) \in Nat
    BY <1>1, <1>2, RankOlder, RankType
  <2> QED BY <1>1, <2>1 DEF Newest
<1>3. {y \in Newest(S, n) : y > x} = {y \in S : y > x}
  BY <1>2 DEF Newest
<1> QED BY <1>3 DEF Rank

-----------------------------------------------------------------------------
(* What is shown once *)

\* Of two entries with the same text the older is below the first
\* REBLOG_FALLOFF.
RepeatedFarDown(f) ==
  \A o \in Ids : \A a, b \in f.timeline \cap Showing(o) :
    a < b => Rank(f.timeline, a) >= REBLOG_FALLOFF

\* A reblog that does not stand for its original in `reblogs` any more is no
\* higher than the entry trim measures with.
UntrackedFarDown(f) ==
  \A x \in f.timeline :
    IsReblog(x) => \/ f.reblogs[ReblogOf[x]] = x
                   \/ Rank(f.timeline, x) >= REBLOG_FALLOFF - 1

Grouped(f) == f \in Feeds /\ RepeatedFarDown(f) /\ UntrackedFarDown(f)

(* add_to_feed asks for the original near the top and for the reblog that *)
(* stands for it: what it lets through repeats nothing near the top.      *)
LEMMA AddGroups ==
  ASSUME NEW f, Grouped(f), NEW s \in Ids
  PROVE  Grouped(AddToFeed(f, s))
<1> DEFINE g == AddToFeed(f, s)
           T == f.timeline
           U == T \cup {s}
<1>0. /\ f \in Feeds /\ g \in Feeds /\ T \subseteq Ids /\ U \subseteq Ids
      /\ Ids \subseteq Nat \ {0} /\ REBLOG_FALLOFF \in Nat \ {0}
  BY AddType, StatusesAssumption, LimitsAssumption DEF Grouped, Feeds
<1>1. CASE ~ WouldAdd(f, s)
  <2>1. g.timeline = T /\ \A o \in Ids : g.reblogs[o] = f.reblogs[o]
    BY <1>1 DEF AddToFeed
  <2>2. RepeatedFarDown(g)
    BY <2>1 DEF Grouped, RepeatedFarDown
  <2>3. UntrackedFarDown(g)
    BY <1>0, <2>1, StatusesAssumption DEF Grouped, UntrackedFarDown, IsReblog
  <2> QED BY <1>0, <2>2, <2>3 DEF Grouped
<1>2. CASE WouldAdd(f, s)
  <2>1. /\ g.timeline = U
        /\ \A o \in Ids : g.reblogs[o] = IF ReblogOf[s] = o THEN s ELSE f.reblogs[o]
    BY <1>2 DEF AddToFeed
  <2>2. \A x \in U : /\ x \in Ids /\ Rank(T, x) \in Nat /\ Rank(U, x) \in Nat
                    /\ Rank(T, x) <= Rank(U, x)
    BY <1>0, RankType, RankMonotonic
  \* what shows the text of s already
  <2>3. ASSUME NEW o \in Ids, s \in Showing(o), NEW x \in T \cap Showing(o), x # s
        PROVE  /\ Rank(T, x) >= REBLOG_FALLOFF - 1
               /\ s < x => Rank(T, x) >= REBLOG_FALLOFF - 1
               /\ ~ IsReblog(x) => Rank(T, x) >= REBLOG_FALLOFF
    <3>1. CASE IsReblog(x)
      <4>1. ReblogOf[x] = o /\ (IsReblog(s) => ReblogOf[s] = o) /\ (~ IsReblog(s) => s = o)
        BY <1>0, <2>3, <3>1, StatusesAssumption DEF Showing, IsReblog
      <4>2. f.reblogs[o] = 0
        BY <1>2, <4>1 DEF WouldAdd, Tracked
      <4>3. Rank(T, x) >= REBLOG_FALLOFF - 1
        BY <1>0, <3>1, <4>1, <4>2 DEF Grouped, UntrackedFarDown
      <4> QED BY <3>1, <4>3
    <3>2. CASE ~ IsReblog(x)
      <4>1. x = o /\ IsReblog(s) /\ ReblogOf[s] = o
        BY <1>0, <2>3, <3>2, StatusesAssumption DEF Showing, IsReblog
      <4>2. ~ (Rank(T, o) < REBLOG_FALLOFF)
        BY <1>2, <4>1 DEF WouldAdd, OriginalNearTop
      <4> QED BY <1>0, <2>2, <4>1, <4>2
    <3> QED BY <3>1, <3>2
  <2>4. RepeatedFarDown(g)
    <3> SUFFICES ASSUME NEW o \in Ids, NEW a \in U \cap Showing(o), NEW b \in U \cap Showing(o), a < b
                 PROVE  Rank(U, a) >= REBLOG_FALLOFF
      BY <2>1 DEF RepeatedFarDown
    <3>1. CASE a \in T /\ b \in T
      <4>1. Rank(T, a) >= REBLOG_FALLOFF
        BY <3>1 DEF Grouped, RepeatedFarDown
      <4> QED BY <1>0, <2>2, <4>1
    <3>2. CASE b = s /\ s \notin T
      <4>1. a \in T /\ a # s
        BY <1>0, <3>2
      <4>2. Rank(T, a) >= REBLOG_FALLOFF - 1
        BY <2>3, <3>2, <4>1
      <4>3. Rank(U, a) = Rank(T, a) + 1
        BY <1>0, <3>2, <4>1, RankBelow
      <4> QED BY <1>0, <2>2, <4>1, <4>2, <4>3
    <3>3. CASE a = s /\ s \notin T
      <4>1. b \in T /\ b # s
        BY <1>0, <3>3
      <4>2. Rank(T, b) >= REBLOG_FALLOFF - 1
        BY <2>3, <3>3, <4>1
      <4>3. Rank(U, b) + 1 <= Rank(U, a)
        BY <1>0, <3>3, RankOlder
      <4> QED BY <1>0, <2>2, <4>2, <4>3
    <3> QED BY <3>1, <3>2, <3>3
  <2>5. UntrackedFarDown(g)
    <3> SUFFICES ASSUME NEW x \in U, IsReblog(x), g.reblogs[ReblogOf[x]] # x
                 PROVE  Rank(U, x) >= REBLOG_FALLOFF - 1
      BY <2>1 DEF UntrackedFarDown
    <3>1. ReblogOf[x] \in Ids /\ ReblogOf[ReblogOf[x]] = 0
      BY <1>0, StatusesAssumption DEF IsReblog
    <3>2. /\ x # s /\ x \in T
          /\ Rank(T, x) \in Nat /\ Rank(U, x) \in Nat /\ Rank(T, x) <= Rank(U, x)
      BY <2>1, <2>2, <3>1
    <3>3. CASE ReblogOf[s] = ReblogOf[x]
      <4>1. Rank(T, x) >= REBLOG_FALLOFF - 1
        BY <1>0, <2>3, <3>1, <3>2, <3>3 DEF Showing
      <4> QED BY <1>0, <3>2, <4>1
    <3>4. CASE ReblogOf[s] # ReblogOf[x]
      <4>1. f.reblogs[ReblogOf[x]] # x
        BY <2>1, <3>1, <3>4
      <4>2. Rank(T, x) >= REBLOG_FALLOFF - 1
        BY <3>2, <4>1 DEF Grouped, UntrackedFarDown
      <4> QED BY <1>0, <3>2, <4>2
    <3> QED BY <3>3, <3>4
  <2> QED BY <1>0, <2>4, <2>5 DEF Grouped
<1> QED BY <1>1, <1>2

(* trim forgets a reblog only where the REBLOG_FALLOFF'th entry is above it. *)
LEMMA TrimGroups ==
  ASSUME NEW f, Grouped(f)
  PROVE  Grouped(Trim(f))
<1> DEFINE g == Trim(f)
           T == f.timeline
           K == Newest(T, MAX_ITEMS)
<1>0. /\ f \in Feeds /\ g \in Feeds /\ T \subseteq Ids /\ K \subseteq T
      /\ Ids \subseteq Nat \ {0} /\ REBLOG_FALLOFF \in Nat \ {0} /\ MAX_ITEMS \in Nat
  BY TrimType, NewestSubset, StatusesAssumption, LimitsAssumption DEF Grouped, Feeds
<1>1. g.timeline = K
  BY DEF Trim
<1>2. \A x \in K : Rank(K, x) = Rank(T, x)
  BY <1>0, RankKept
<1>3. RepeatedFarDown(g)
  BY <1>0, <1>1, <1>2 DEF Grouped, RepeatedFarDown
<1>4. UntrackedFarDown(g)
  <2> SUFFICES ASSUME NEW x \in K, IsReblog(x), g.reblogs[ReblogOf[x]] # x
               PROVE  Rank(K, x) >= REBLOG_FALLOFF - 1
    BY <1>1 DEF UntrackedFarDown
  <2>1. ReblogOf[x] \in Ids
    BY <1>0, StatusesAssumption DEF IsReblog
  <2>2. CASE f.reblogs[ReblogOf[x]] # x
    <3>1. Rank(T, x) >= REBLOG_FALLOFF - 1
      BY <1>0, <2>2 DEF Grouped, UntrackedFarDown
    <3> QED BY <1>2, <3>1
  <2>3. CASE f.reblogs[ReblogOf[x]] = x
    <3>1. FallenOff(f, ReblogOf[x])
      BY <2>1, <2>3 DEF Trim
    <3>2. x <= FalloffScore(K)
      BY <2>3, <3>1 DEF FallenOff
    <3>3. x \in Nat \ {0} /\ K \subseteq Ids /\ x \in Ids
      BY <1>0
    <3>4. \E y \in K : Rank(K, y) = REBLOG_FALLOFF - 1
      BY <3>2, <3>3 DEF FalloffScore
    <3>5. PICK y \in K : Rank(K, y) = REBLOG_FALLOFF - 1 /\ y = FalloffScore(K)
      BY <3>4 DEF FalloffScore
    <3>6. y \in Nat /\ Rank(K, x) \in Nat /\ (x = y \/ x < y)
      <4>1. y \in Nat /\ x <= y /\ x \in Nat
        BY <1>0, <3>2, <3>3, <3>5
      <4>2. Rank(K, x) \in Nat
        BY <3>3, RankType
      <4>3. x = y \/ x < y
        BY <4>1
      <4> QED BY <4>1, <4>2, <4>3
    <3>7. x < y => Rank(K, y) + 1 <= Rank(K, x)
      BY <3>3, RankOlder
    <3> HIDE DEF K
    <3> QED BY <1>0, <3>5, <3>6, <3>7
  <2> QED BY <2>2, <2>3
<1> QED BY <1>0, <1>3, <1>4 DEF Grouped

LEMMA CleanupGroups ==
  ASSUME NEW f, Grouped(f), NEW O
  PROVE  Grouped(Untracked(f)) /\ Grouped(DropExtras(f, O))
<1>1. f \in Feeds /\ Untracked(f) \in Feeds /\ DropExtras(f, O) \in Feeds
  BY CleanupType DEF Grouped
<1>2. Untracked(f).timeline = {}
  BY DEF Untracked
<1>3. DropExtras(f, O).timeline = f.timeline /\ DropExtras(f, O).reblogs = f.reblogs
  BY DEF DropExtras
<1> QED BY <1>1, <1>2, <1>3 DEF Grouped, RepeatedFarDown, UntrackedFarDown

\* Nothing is taken out of the feed for itself: nobody deletes, unfollows,
\* blocks or mutes.  (The clean-up, which takes everything, may.)
NothingTakenOut == \A w \in Workers : ~ RemoveNext(w) /\ ~ Unpush(w)

LEMMA GroupedNext ==
  ASSUME TypeOK, Grouped(home), [Next]_vars, [NothingTakenOut]_vars
  PROVE  Grouped(home')
<1>1. CASE home' = home
  BY <1>1
<1>2. CASE home' # home
  <2>1. Next /\ NothingTakenOut
    BY <1>2 DEF vars
  <2>2. PICK w \in Workers : Proceed(w) /\ ~ RemoveNext(w) /\ ~ Unpush(w)
    <3>1. Web => UNCHANGED home
      BY DEF Web, Post, Delete, Follow, ShowReblogs, Unfollow, Block, Unblock, Mute, Unmute, GoInactive,
             SignIn, FlagExpires, ScheduleCleanup
    <3>2. \A w \in Workers : Start(w) => UNCHANGED home
      BY DEF Start, StartDistribute, StartInsert, StartRemove, StartMerge, StartUnmerge, StartClear,
             StartPopulate, StartCleanup
    <3>3. \A w \in Workers : Interrupt(w) => UNCHANGED home
      BY DEF Interrupt
    <3> QED BY <1>2, <2>1, <3>1, <3>2, <3>3 DEF Next, NothingTakenOut
  <2>3. CASE AddNext(w) \/ PushToHome(w)
    <3>1. thread[w].cur \in Ids
      BY <2>3, StatusesAssumption DEF TypeOK, Runs, AddNext, PushToHome, Doing, StatusSteps
    <3> QED BY <2>3, <3>1, AddGroups DEF AddNext, PushToHome
  <2>4. CASE TrimHome(w)
    BY <2>4, TrimGroups DEF TrimHome
  <2>5. CASE Untrack(w) \/ Drop(w)
    BY <2>5, CleanupGroups DEF Untrack, Drop
  <2>6. CASE Consider(w) \/ EndPage(w) \/ NextReblog(w) \/ EndReblogs(w) \/ Destroy(w)
    BY <1>2, <2>6 DEF Consider, EndPage, NextReblog, EndReblogs, Destroy
  <2> QED BY <2>2, <2>3, <2>4, <2>5, <2>6 DEF Proceed
<1> QED BY <1>1, <1>2

LEMMA GroupedShownOnce == Grouped(home) => ShownOnce
<1> SUFFICES ASSUME Grouped(home), NEW o \in Ids
             PROVE  Cardinality(Newest(home.timeline, REBLOG_FALLOFF) \cap Showing(o)) <= 1
  BY DEF ShownOnce
<1> DEFINE T == home.timeline
           N == Newest(T, REBLOG_FALLOFF) \cap Showing(o)
<1>1. T \subseteq Ids /\ Ids \subseteq Nat \ {0} /\ REBLOG_FALLOFF \in Nat /\ N \subseteq T
  BY StatusesAssumption, LimitsAssumption DEF Grouped, Feeds, Newest
<1>2. ASSUME NEW a \in N, NEW b \in N, a < b PROVE FALSE
  <2>1. Rank(T, a) >= REBLOG_FALLOFF
    BY <1>1, <1>2 DEF Grouped, RepeatedFarDown
  <2>2. Rank(T, a) < REBLOG_FALLOFF
    BY DEF Newest
  <2>3. Rank(T, a) \in Nat
    BY <1>1, RankType
  <2> HIDE DEF T, N
  <2> QED BY <1>1, <2>1, <2>2, <2>3
<1>3. \A a, b \in N : a \in Nat /\ b \in Nat
  BY <1>1
<1> HIDE DEF N
<1>4. \A a, b \in N : a = b
  BY <1>2, <1>3
<1>5. N = {} \/ \E a : N = {a}
  BY <1>4
<1>6. Cardinality(N) \in {0, 1}
  BY <1>5, FS_EmptySet, FS_Singleton
<1> QED BY <1>6 DEF N

\* As long as nothing is taken out of the feed for itself, no text appears
\* twice among its newest REBLOG_FALLOFF entries, whatever is posted, merged,
\* regenerated, trimmed or cleaned up, by any number of threads
\* (FeedManager#add_to_feed, FeedManager#trim).
THEOREM GroupingWorks == Spec /\ [][NothingTakenOut]_vars => []ShownOnce
<1>1. Init => Grouped(home)
  <2> SUFFICES ASSUME Init PROVE Grouped(home)
    OBVIOUS
  <2>1. home \in Feeds
    BY TypeInit DEF TypeOK
  <2> QED BY <2>1 DEF Init, NoFeed, Grouped, RepeatedFarDown, UntrackedFarDown
<1>2. TypeOK /\ Grouped(home) /\ [Next]_vars /\ [NothingTakenOut]_vars => Grouped(home)'
  BY GroupedNext
<1>3. Grouped(home) => ShownOnce
  BY GroupedShownOnce
<1> QED BY <1>1, <1>2, <1>3, TypeCorrect, PTL DEF Spec
-----------------------------------------------------------------------------
(* A regeneration leaves nothing out *)

\* What a regeneration can count on while it runs: Owner stays active and
\* follows nobody new, the filter lets nothing through that it refused, and
\* neither a removal nor a clean-up empties the feed under it.
Undisturbed ==
  (\E w \in Workers : Populating(w)) =>
    /\ active
    /\ following' \subseteq following
    /\ \A s \in Ids : Filtered(s) => Filtered(s)'
    /\ home.timeline # {} => home'.timeline # {}
    /\ \A w \in Workers : ~ Untrack(w)

\* A job is on its way that will call add_to_feed with s, or see it filtered.
BeingAdded(s) ==
  \E w \in Workers : /\ thread[w].at = "add"
                     /\ thread[w].job = Job("distribute", s) \/ thread[w].job = Job("insert", s)

Coming(s) == Waiting("distribute", s) \/ Waiting("insert", s) \/ BeingAdded(s)

AddsItsOwn ==
  \A w \in Workers :
    /\ thread[w].at = "add" /\ thread[w].job.kind \in {"insert", "distribute"}
         => thread[w].cur = thread[w].job.arg
    /\ thread[w].at = "idle" => thread[w].job = NoJob

\* Why nothing but the rest of the page and what is older is left to do for s
Settled(s) == Filtered(s) \/ ~ WouldAdd(home, s) \/ Coming(s)

\* What a regeneration has gone through while the feed is empty
Looked(w) ==
  Populating(w) /\ home.timeline = {} =>
    /\ ~ thread[w].added
    /\ \A s \in HomeTimeline :
         \/ s < thread[w].maxId \/ s \in thread[w].todo
         \/ thread[w].at = "add" /\ s = thread[w].cur
         \/ Settled(s)

FillInv == TypeOK /\ AddsItsOwn /\ \A w \in Workers : Looked(w)

LEMMA NoJobIsNone == NoJob \notin Jobs /\ NoJob # Populate /\ NoJob.kind = "none"
BY DEF NoJob, Jobs, Populate, Job, StatusJobs, AccountJobs, OwnerJobs

LEMMA PopulateKind ==
  ASSUME TypeOK, NEW w \in Workers
  PROVE  thread[w].job.kind = "populate" <=> thread[w].job = Populate
<1>1. thread[w].job \in Jobs \cup {NoJob}
  BY DEF TypeOK, Runs
<1>2. thread[w].job \in Jobs => (thread[w].job.kind = "populate" <=> thread[w].job = Populate)
  BY DEF Jobs, Populate, Job, StatusJobs, AccountJobs, OwnerJobs
<1> QED BY <1>1, <1>2, NoJobIsNone

LEMMA OwnWeb ==
  ASSUME TypeOK, Web
  PROVE  /\ UNCHANGED <<thread, home>>
         /\ \A j \in Jobs : queue[j] > 0 => queue'[j] > 0
         /\ \A s \in live' \ live : queue'[Job("distribute", s)] > 0
<1>1. UNCHANGED <<thread, home>>
  BY DEF Web, Post, Delete, Follow, ShowReblogs, Unfollow, Block, Unblock, Mute, Unmute, GoInactive,
         SignIn, FlagExpires, ScheduleCleanup
<1>2. queue \in [Jobs -> Nat]
  BY DEF TypeOK
<1>3. ASSUME NEW s \in Ids, Post(s)
      PROVE  /\ \A j \in Jobs : queue[j] > 0 => queue'[j] > 0
             /\ live' \ live \subseteq {s} /\ queue'[Job("distribute", s)] > 0
  BY <1>2, <1>3, PushType, JobsAreJobs DEF Post
<1>4. CASE \E s \in Ids : Post(s)
  BY <1>1, <1>3, <1>4
<1>5. CASE ~ \E s \in Ids : Post(s)
  <2>1. live' = live
    BY <1>5 DEF Web, Delete, Follow, ShowReblogs, Unfollow, Block, Unblock, Mute, Unmute, GoInactive,
           SignIn, FlagExpires, ScheduleCleanup, statuses
  <2>2. ASSUME \E s \in Ids : Delete(s) PROVE \A j \in Jobs : queue[j] > 0 => queue'[j] > 0
    BY <1>2, <2>2, PushType, JobsAreJobs DEF Delete
  <2>3. ASSUME \E a \in Others : Follow(a) \/ Unfollow(a) \/ Mute(a) \/ Unmute(a)
        PROVE  \A j \in Jobs : queue[j] > 0 => queue'[j] > 0
    BY <1>2, <2>3, PushType, JobsAreJobs DEF Follow, Unfollow, Mute, Unmute
  <2>4. ASSUME NEW a \in Others, Block(a) PROVE \A j \in Jobs : queue[j] > 0 => queue'[j] > 0
    <3> DEFINE q == IF a \in following THEN Push(queue, Job("unmerge", a)) ELSE queue
    <3>1. q \in [Jobs -> Nat] /\ \A j \in Jobs : queue[j] > 0 => q[j] > 0
      BY <1>2, PushType, JobsAreJobs
    <3>2. queue' = Push(q, Job("clear", a))
      BY <2>4 DEF Block
    <3> HIDE DEF q
    <3> QED BY <3>1, <3>2, PushType, JobsAreJobs
  <2>5. ASSUME \/ \E a \in Others : Unblock(a) \/ \E show \in BOOLEAN : ShowReblogs(a, show)
               \/ GoInactive \/ FlagExpires
        PROVE  \A j \in Jobs : queue[j] > 0 => queue'[j] > 0
    BY <2>5 DEF Unblock, ShowReblogs, GoInactive, FlagExpires
  <2>6. ASSUME SignIn \/ ScheduleCleanup PROVE \A j \in Jobs : queue[j] > 0 => queue'[j] > 0
    BY <1>2, <2>6, PushType, JobsAreJobs DEF SignIn, ScheduleCleanup
  <2>7. \A j \in Jobs : queue[j] > 0 => queue'[j] > 0
    BY <1>5, <2>2, <2>3, <2>4, <2>5, <2>6 DEF Web
  <2> QED BY <1>1, <2>1, <2>7
<1> QED BY <1>4, <1>5

(* Only the thread that takes the step is changed. *)
LEMMA OneMoves ==
  ASSUME TypeOK, NEW w \in Workers, Start(w) \/ Proceed(w) \/ Interrupt(w)
  PROVE  /\ \A u \in Workers \ {w} : thread'[u] = thread[u]
         /\ live' \subseteq live
         /\ Start(w) => home' = home
         /\ Interrupt(w) => home' = home /\ live' = live
<1>1. thread \in [Workers -> Runs]
  BY DEF TypeOK
<1>2. CASE Start(w)
  BY <1>1, <1>2
     DEF Start, StartDistribute, StartInsert, StartRemove, StartMerge, StartUnmerge, StartClear,
         StartPopulate, StartCleanup, TurnPage, ReadPage, Begin, Finish, statuses
<1>3. CASE Proceed(w)
  <2>1. \A u \in Workers \ {w} : thread'[u] = thread[u]
    BY <1>1, <1>3 DEF Proceed, Consider, AddNext, EndPage, TurnPage, ReadPage, PushToHome, TrimHome, RemoveNext,
           Unpush, NextReblog, EndReblogs, Destroy, Untrack, Drop, Begin, Finish
  <2>2. live' \subseteq live
    BY <1>3 DEF Proceed, Consider, AddNext, EndPage, PushToHome, TrimHome, RemoveNext,
           Unpush, NextReblog, EndReblogs, Destroy, Untrack, Drop, statuses
  <2>3. (~ Start(w) /\ ~ Interrupt(w)) \/ home' = home
    BY DEF Start, StartDistribute, StartInsert, StartRemove, StartMerge, StartUnmerge, StartClear,
           StartPopulate, StartCleanup, Interrupt
  <2>4. Interrupt(w) => live' = live
    BY DEF Interrupt, statuses
  <2> QED BY <2>1, <2>2, <2>3, <2>4
<1>4. CASE Interrupt(w)
  BY <1>1, <1>4 DEF Interrupt, Finish, statuses
<1> QED BY <1>2, <1>3, <1>4

(* add_to_feed of a thread adds the status its job is about. *)
LEMMA OwnNext ==
  ASSUME TypeOK, AddsItsOwn, [Next]_vars
  PROVE  AddsItsOwn'
<1>1. thread \in [Workers -> Runs]
  BY DEF TypeOK
<1>2. CASE UNCHANGED thread
  BY <1>2 DEF AddsItsOwn
<1>3. CASE ~ UNCHANGED thread
  <2>1. PICK w \in Workers : Start(w) \/ Proceed(w) \/ Interrupt(w)
    BY <1>3, OwnWeb DEF Next, vars
  <2>2. \A u \in Workers \ {w} : thread'[u] = thread[u]
    BY <2>1, OneMoves
  <2> DEFINE r == thread'[w]
             Own == /\ r.at = "add" /\ r.job.kind \in {"insert", "distribute"} => r.cur = r.job.arg
                    /\ r.at = "idle" => r.job = NoJob
  <2> SUFFICES Own
    BY <2>2 DEF AddsItsOwn
  <2>3. thread'[w] = thread[w] \/ thread'[w] = Idle => Own
    BY DEF AddsItsOwn, Idle, Run
  <2>4. CASE Start(w)
    <3>1. ASSUME NEW s \in Ids, StartDistribute(w, s) \/ StartInsert(w, s) PROVE Own
      BY <1>1, <2>3, <3>1 DEF StartDistribute, StartInsert, Run, Job
    <3>2. ASSUME NEW s \in Ids, StartRemove(w, s) PROVE Own
      BY <1>1, <2>3, <3>2 DEF StartRemove, Run
    <3>3. ASSUME NEW a \in Others, StartMerge(w, a) PROVE Own
      BY <1>1, <2>3, <3>3 DEF StartMerge, Run, LoopStep
    <3>4. ASSUME NEW a \in Others, StartUnmerge(w, a) \/ StartClear(w, a) PROVE Own
      BY <1>1, <2>3, <3>4 DEF StartUnmerge, StartClear, Run, Begin
    <3>5. ASSUME StartPopulate(w) PROVE Own
      BY <1>1, <2>3, <3>5 DEF StartPopulate, TurnPage, ReadPage, Finish
    <3>6. ASSUME StartCleanup(w) PROVE Own
      BY <1>1, <2>3, <3>6 DEF StartCleanup, Run
    <3> QED BY <2>4, <3>1, <3>2, <3>3, <3>4, <3>5, <3>6 DEF Start
  <2>5. CASE Proceed(w)
    <3>1. CASE Consider(w)
      BY <1>1, <3>1 DEF Consider, Doing, Step, LoopStep
    <3>2. CASE AddNext(w)
      BY <1>1, <3>2 DEF AddNext, LoopStep
    <3>3. CASE EndPage(w)
      BY <1>1, <2>3, <3>3 DEF EndPage, TurnPage, ReadPage, Finish
    <3>4. CASE PushToHome(w) \/ TrimHome(w)
      BY <1>1, <2>3, <3>4 DEF PushToHome, TrimHome, Finish, Step
    <3>5. CASE RemoveNext(w)
      BY <1>1, <2>3, <3>5 DEF RemoveNext, Begin, Step
    <3>6. CASE Unpush(w) \/ NextReblog(w) \/ EndReblogs(w)
      BY <1>1, <3>6 DEF Unpush, NextReblog, EndReblogs, Step
    <3>7. CASE Destroy(w)
      BY <1>1, <2>3, <3>7 DEF Destroy, Finish, Step
    <3>8. CASE Untrack(w) \/ Drop(w)
      BY <1>1, <2>3, <3>8 DEF Untrack, Drop, Finish, Step
    <3> QED BY <2>5, <3>1, <3>2, <3>3, <3>4, <3>5, <3>6, <3>7, <3>8 DEF Proceed
  <2>6. CASE Interrupt(w)
    BY <1>1, <2>3, <2>6 DEF Interrupt, Finish
  <2> QED BY <2>1, <2>4, <2>5, <2>6
<1> QED BY <1>2, <1>3

(* While the feed stays empty, add_to_feed refuses what it refused. *)
LEMMA RefusedStays ==
  ASSUME TypeOK, NEW w \in Workers, Proceed(w), ~ Untrack(w), home.timeline = {}, home'.timeline = {}
  PROVE  \A s \in Ids : WouldAdd(home', s) <=> WouldAdd(home, s)
<1>1. home \in Feeds /\ Ids \subseteq Nat \ {0}
  BY StatusesAssumption DEF TypeOK
<1>2. \A o \in Ids : home'.reblogs[o] = home.reblogs[o]
  <2>1. CASE AddNext(w) \/ PushToHome(w)
    <3>1. home' = AddToFeed(home, thread[w].cur)
      BY <2>1 DEF AddNext, PushToHome
    <3>2. ~ WouldAdd(home, thread[w].cur)
      BY <3>1 DEF AddToFeed
    <3> QED BY <3>1, <3>2 DEF AddToFeed
  <2>2. CASE TrimHome(w)
    <3>1. home' = Trim(home) /\ Newest(home.timeline, MAX_ITEMS) = {}
      BY <2>2 DEF TrimHome, Newest
    <3>2. FalloffScore({}) = 0
      BY DEF FalloffScore
    <3>3. \A o \in Ids : home.reblogs[o] \in Nat
      <4>1. home.reblogs \in [Ids -> Ids \cup {0}]
        BY <1>1 DEF Feeds
      <4>2. \A o \in Ids : home.reblogs[o] \in Ids \cup {0}
        BY <4>1
      <4>3. \A x \in Ids \cup {0} : x \in Nat
        BY <1>1
      <4> QED BY <4>2, <4>3
    <3>4. \A o \in Ids : ~ FallenOff(home, o)
      BY <3>1, <3>2, <3>3 DEF FallenOff, Tracked
    <3> QED BY <3>1, <3>4 DEF Trim
  <2>3. CASE RemoveNext(w) \/ Unpush(w)
    <3>1. \A s : RemoveFromFeed(home, s).reblogs = home.reblogs
      BY DEF RemoveFromFeed
    <3> QED BY <2>3, <3>1 DEF RemoveNext, Unpush
  <2>4. CASE Drop(w)
    BY <2>4 DEF Drop, DropExtras
  <2>5. CASE Consider(w) \/ EndPage(w) \/ NextReblog(w) \/ EndReblogs(w) \/ Destroy(w)
    BY <2>5 DEF Consider, EndPage, NextReblog, EndReblogs, Destroy
  <2> QED BY <2>1, <2>2, <2>3, <2>4, <2>5 DEF Proceed
<1>3. \A s \in Ids : IsReblog(s) => ReblogOf[s] \in Ids
  BY StatusesAssumption DEF IsReblog
<1> QED BY <1>2, <1>3 DEF WouldAdd, OriginalNearTop, Tracked

(* The job that adds a status does so, or hands it on. *)
LEMMA ComingGoesOn ==
  ASSUME TypeOK, AddsItsOwn, active, NEW w \in Workers, Start(w) \/ Proceed(w) \/ Interrupt(w), ~ Untrack(w),
         home.timeline = {}, home'.timeline = {},
         NEW s \in HomeTimeline, Coming(s)
  PROVE  Filtered(s) \/ ~ WouldAdd(home', s) \/ Coming(s)'
<1> DEFINE D == Job("distribute", s)
           I == Job("insert", s)
<1>1. /\ queue \in [Jobs -> Nat] /\ thread \in [Workers -> Runs]
      /\ s \in Ids /\ D \in Jobs /\ I \in Jobs /\ D # I
      /\ s \in live /\ AuthorOf[s] \in following \cup {Owner} /\ Visibility[s] = "public"
  BY JobsAreJobs DEF TypeOK, HomeTimeline, Job
<1>2. \A u \in Workers \ {w} : thread'[u] = thread[u]
  BY OneMoves
<1>3. Coming(s) <=> queue[D] > 0 \/ queue[I] > 0 \/ BeingAdded(s)
  BY DEF Coming, Waiting
<1>4. queue'[D] > 0 \/ queue'[I] > 0 => Coming(s)'
  BY DEF Coming, Waiting
<1>5. ASSUME NEW u \in Workers, thread'[u].at = "add", thread'[u].job = D \/ thread'[u].job = I
      PROVE  Coming(s)'
  BY <1>5 DEF Coming, BeingAdded
<1>6. \A u \in Workers \ {w} : thread[u].at = "add" /\ (thread[u].job = D \/ thread[u].job = I) => Coming(s)'
  BY <1>2, <1>5
<1>7. CASE Start(w)
  <2>1. ~ Busy(w) /\ thread[w].at = "idle"
    BY <1>7 DEF Busy, Start, StartDistribute, StartInsert, StartRemove, StartMerge, StartUnmerge, StartClear,
           StartPopulate, StartCleanup, Take
  <2>2. CASE BeingAdded(s)
    BY <1>6, <2>1, <2>2 DEF BeingAdded
  <2>3. CASE StartDistribute(w, s)
    <3>1. CASE AuthorOf[s] = Owner
      <4>1. thread'[w] = Run(D, "add", {}, s)
        BY <1>1, <2>3, <3>1 DEF StartDistribute
      <4> QED BY <4>1, <1>5 DEF Run
    <3>2. CASE AuthorOf[s] \in following
      <4>1. queue[D] > 0
        BY <2>3 DEF StartDistribute, Take
      <4>2. queue' = Push(Dequeued(D), I)
        BY <1>1, <2>3, <3>2 DEF StartDistribute
      <4>3. queue'[I] > 0
        BY <1>1, <4>1, <4>2, DequeuedType, PushType
      <4> QED BY <1>4, <4>3
    <3> QED BY <1>1, <3>1, <3>2
  <2>4. CASE StartInsert(w, s)
    <3>1. CASE Filtered(s)
      BY <3>1
    <3>2. CASE ~ Filtered(s)
      <4>1. thread'[w] = Run(I, "add", {}, s)
        BY <1>1, <2>4, <3>2 DEF StartInsert
      <4> QED BY <4>1, <1>5 DEF Run
    <3> QED BY <3>1, <3>2
  <2>5. CASE ~ StartDistribute(w, s) /\ ~ StartInsert(w, s)
    <3>1. \A j \in {D, I} : queue[j] > 0 => queue'[j] > 0
      <4>1. ASSUME NEW t \in Ids, StartDistribute(w, t), t # s
            PROVE  \A j \in {D, I} : queue[j] > 0 => queue'[j] > 0
        <5>1. /\ Dequeued(Job("distribute", t)) \in [Jobs -> Nat]
              /\ \A j \in Jobs : j # Job("distribute", t) /\ queue[j] > 0 => Dequeued(Job("distribute", t))[j] > 0
          BY <1>1, <4>1, DequeuedType, JobsAreJobs DEF StartDistribute, Take
        <5>2. D # Job("distribute", t) /\ I # Job("distribute", t)
          BY <4>1 DEF Job
        <5>3. \A j \in {D, I} : queue[j] > 0 => Dequeued(Job("distribute", t))[j] > 0
          BY <1>1, <5>1, <5>2
        <5>4. \/ queue' = Dequeued(Job("distribute", t))
              \/ queue' = Push(Dequeued(Job("distribute", t)), Job("insert", t))
          BY <4>1 DEF StartDistribute
        <5> QED BY <1>1, <5>1, <5>3, <5>4, PushType, JobsAreJobs
      <4>2. ASSUME NEW j \in Jobs, j # D, j # I, queue[j] > 0, queue' = Dequeued(j)
            PROVE  \A k \in {D, I} : queue[k] > 0 => queue'[k] > 0
        BY <1>1, <4>2, DequeuedType
      <4>3. ASSUME NEW t \in Ids, StartInsert(w, t), t # s
            PROVE  \A j \in {D, I} : queue[j] > 0 => queue'[j] > 0
        <5>1. Job("insert", t) # D /\ Job("insert", t) # I
          BY <4>3 DEF Job
        <5> QED BY <4>2, <4>3, <5>1, JobsAreJobs DEF StartInsert, Take
      <4>4. ASSUME NEW t \in Ids, StartRemove(w, t)
            PROVE  \A j \in {D, I} : queue[j] > 0 => queue'[j] > 0
        <5>1. Job("remove", t) # D /\ Job("remove", t) # I
          BY DEF Job
        <5> QED BY <4>2, <4>4, <5>1, JobsAreJobs DEF StartRemove, Take
      <4>5. ASSUME NEW a \in Others, StartMerge(w, a) \/ StartUnmerge(w, a) \/ StartClear(w, a)
            PROVE  \A j \in {D, I} : queue[j] > 0 => queue'[j] > 0
        <5>1. \A k \in {"merge", "unmerge", "clear"} : Job(k, a) # D /\ Job(k, a) # I
          BY DEF Job
        <5> QED BY <4>2, <4>5, <5>1, JobsAreJobs DEF StartMerge, StartUnmerge, StartClear, Take
      <4>6. ASSUME StartPopulate(w) \/ StartCleanup(w)
            PROVE  \A j \in {D, I} : queue[j] > 0 => queue'[j] > 0
        <5>1. \A k \in {"populate", "cleanup"} : Job(k, Owner) # D /\ Job(k, Owner) # I
          BY DEF Job
        <5> QED BY <4>2, <4>6, <5>1, JobsAreJobs DEF StartPopulate, StartCleanup, Take
      <4> QED BY <1>7, <2>5, <4>1, <4>3, <4>4, <4>5, <4>6 DEF Start
    <3> QED BY <1>3, <1>4, <2>2, <3>1
  <2> QED BY <2>3, <2>4, <2>5
<1>8. CASE Proceed(w)
  <2>1. queue' = queue
    BY <1>8 DEF Proceed, Consider, AddNext, EndPage, PushToHome, TrimHome, RemoveNext, Unpush, NextReblog,
           EndReblogs, Destroy, Untrack, Drop
  <2>2. CASE queue[D] > 0 \/ queue[I] > 0
    BY <1>4, <2>1, <2>2
  <2>3. CASE BeingAdded(s)
    <3>1. PICK u \in Workers : thread[u].at = "add" /\ (thread[u].job = D \/ thread[u].job = I)
      BY <2>3 DEF BeingAdded
    <3>2. CASE u # w
      BY <1>6, <3>1, <3>2
    <3>3. CASE u = w
      <4>1. thread[w].job.kind \in {"insert", "distribute"} /\ thread[w].job.arg = s
        BY <3>1, <3>3 DEF Job
      <4>2. thread[w].cur = s
        BY <3>1, <3>3, <4>1 DEF AddsItsOwn
      <4>3. PushToHome(w)
        BY <1>8, <3>1, <3>3, <4>1 DEF Proceed, Consider, AddNext, EndPage, TrimHome, RemoveNext, Unpush,
               NextReblog, EndReblogs, Destroy, Untrack, Drop, Doing
      <4>4. home' = AddToFeed(home, s)
        BY <4>2, <4>3 DEF PushToHome
      <4>5. ~ WouldAdd(home, s)
        BY <4>4 DEF AddToFeed
      <4> QED BY <1>1, <1>8, <4>5, RefusedStays
    <3> QED BY <3>2, <3>3
  <2> QED BY <1>3, <2>2, <2>3
<1>9. CASE Interrupt(w)
  <2>1. thread[w].job \in Jobs
    BY <1>1, <1>9, InterruptibleAssumption DEF Interrupt, Runs, NoJob, StatusJobs, AccountJobs, OwnerJobs
  <2>2. queue' = Push(queue, thread[w].job)
    BY <1>9 DEF Interrupt
  <2>3. /\ queue'[thread[w].job] > 0
        /\ \A j \in Jobs : queue[j] > 0 => queue'[j] > 0
    BY <1>1, <2>1, <2>2, PushType
  <2>4. CASE queue[D] > 0 \/ queue[I] > 0
    BY <1>1, <1>4, <2>3, <2>4
  <2>5. CASE BeingAdded(s)
    BY <1>4, <1>6, <2>3, <2>5 DEF BeingAdded
  <2> QED BY <1>3, <2>4, <2>5
<1> QED BY <1>7, <1>8, <1>9

(* The least of a set of naturals. *)
LEMMA LeastNatural ==
  ASSUME NEW T \in SUBSET Nat, T # {}
  PROVE  \E n \in T : \A m \in T : n <= m
<1>1. IsWellFoundedOn(OpToRel(<, Nat), Nat)
  BY NatLessThanWellFounded
<1>2. PICK n \in T : \A m \in T : ~ (<<m, n>> \in OpToRel(<, Nat))
  BY <1>1, WFMin
<1>3. \A m \in T : ~ (m < n)
  BY <1>2 DEF OpToRel
<1> QED BY <1>3

(* Where there are statuses there is a newest one. *)
LEMMA NewestIsSome ==
  ASSUME NEW S \in SUBSET Ids, S # {}, NEW n \in Nat \ {0}
  PROVE  Newest(S, n) # {}
<1> DEFINE R == {Rank(S, x) : x \in S}
<1>1. R \subseteq Nat /\ R # {}
  BY RankType
<1>2. PICK x \in S : \A y \in S : Rank(S, x) <= Rank(S, y)
  <2>1. PICK r \in R : \A m \in R : r <= m
    BY <1>1, LeastNatural
  <2>2. PICK x \in S : r = Rank(S, x)
    BY <2>1
  <2> QED BY <2>1, <2>2
<1>3. ASSUME NEW y \in S, y > x PROVE FALSE
  <2>1. x \in Nat /\ y \in Nat /\ x \in Ids
    BY StatusesAssumption
  <2>2. Rank(S, y) + 1 <= Rank(S, x) /\ Rank(S, x) <= Rank(S, y)
    BY <1>2, <1>3, <2>1, RankOlder
  <2>3. Rank(S, y) \in Nat /\ Rank(S, x) \in Nat
    BY <2>1, RankType
  <2> QED BY <2>2, <2>3
<1>4. {y \in S : y > x} = {}
  BY <1>3
<1>5. Rank(S, x) = 0
  BY <1>4, FS_EmptySet DEF Rank
<1> QED BY <1>5 DEF Newest

(* A page ends where the next one begins. *)
LEMMA PageCovers ==
  ASSUME TypeOK, NEW m \in Ids \cup {0}, NEW last \in Oldest(PopulatePage(m)),
         NEW s \in HomeTimeline, m = 0 \/ s < m
  PROVE  s < last \/ s \in PopulatePage(m)
<1> DEFINE H == {t \in HomeTimeline : m = 0 \/ t < m}
           n == MAX_ITEMS \div 2
<1>a. H \subseteq Ids /\ Ids \subseteq Nat \ {0} /\ s \in H
  BY StatusesAssumption DEF TypeOK, HomeTimeline
<1>b. n \in Nat
  BY LimitsAssumption
<1>c. PopulatePage(m) = Newest(H, n)
  BY DEF PopulatePage
<1>1. /\ H \subseteq Ids /\ Ids \subseteq Nat \ {0} /\ n \in Nat /\ s \in H
      /\ PopulatePage(m) = Newest(H, n)
  BY <1>a, <1>b, <1>c
<1>2. last \in H /\ Rank(H, last) < n
  BY <1>1, OldestSubset DEF Newest
<1> HIDE DEF H, n
<1>3. s \in Nat /\ last \in Nat /\ s \in Ids /\ last \in Ids
  BY <1>1, <1>2
<1>4. CASE s = last
  BY <1>1, <1>4, OldestSubset
<1>5. CASE s > last
  <2>1. Rank(H, s) + 1 <= Rank(H, last) /\ Rank(H, s) \in Nat /\ Rank(H, last) \in Nat
    BY <1>1, <1>3, <1>5, RankOlder, RankType
  <2>2. Rank(H, s) < n
    BY <1>1, <1>2, <2>1
  <2> QED BY <1>1, <2>2 DEF Newest
<1> QED BY <1>3, <1>4, <1>5

(* What is settled stays so while the feed is empty, and what is new has a *)
(* job of its own.                                                         *)
LEMMA SettledStays ==
  ASSUME TypeOK, AddsItsOwn, Next, Undisturbed, NEW w \in Workers, Populating(w), home'.timeline = {}
  PROVE  /\ \A s \in HomeTimeline : Settled(s) => Settled(s)'
         /\ \A s \in HomeTimeline' \ HomeTimeline : Settled(s)'
<1>1. /\ active /\ following' \subseteq following /\ home.timeline = {}
      /\ \A s \in Ids : Filtered(s) => Filtered(s)'
      /\ \A u \in Workers : ~ Untrack(u)
  BY DEF Undisturbed
<1>2. HomeTimeline \subseteq Ids /\ \A s \in HomeTimeline : Job("distribute", s) \in Jobs /\ Job("insert", s) \in Jobs
  BY JobsAreJobs DEF TypeOK, HomeTimeline
<1>3. HomeTimeline' \ HomeTimeline \subseteq live' \ live
  BY <1>1 DEF HomeTimeline
<1>4. CASE Web
  <2>1. /\ UNCHANGED <<thread, home>>
        /\ \A j \in Jobs : queue[j] > 0 => queue'[j] > 0
        /\ \A s \in live' \ live : queue'[Job("distribute", s)] > 0
    BY <1>4, OwnWeb
  <2>2. ASSUME NEW s \in HomeTimeline, Settled(s) PROVE Settled(s)'
    <3>1. CASE Filtered(s)
      BY <1>1, <1>2, <3>1 DEF Settled
    <3>2. CASE ~ WouldAdd(home, s)
      BY <2>1, <3>2 DEF Settled
    <3>3. CASE Coming(s)
      <4>1. Coming(s)'
        BY <1>2, <2>1, <3>3 DEF Coming, Waiting, BeingAdded
      <4> QED BY <4>1 DEF Settled
    <3> QED BY <2>2, <3>1, <3>2, <3>3 DEF Settled
  <2>3. ASSUME NEW s \in HomeTimeline' \ HomeTimeline PROVE Settled(s)'
    <3>1. Coming(s)'
      BY <1>3, <2>1 DEF Coming, Waiting
    <3> QED BY <3>1 DEF Settled
  <2> QED BY <2>2, <2>3
<1>5. CASE \E u \in Workers : Start(u) \/ Proceed(u) \/ Interrupt(u)
  <2>1. PICK u \in Workers : Start(u) \/ Proceed(u) \/ Interrupt(u)
    BY <1>5
  <2>2. live' \subseteq live
    BY <2>1, OneMoves
  <2>3. ASSUME NEW s \in HomeTimeline, ~ WouldAdd(home, s) PROVE ~ WouldAdd(home', s)
    <3>1. CASE home' = home
      BY <2>3, <3>1
    <3>2. CASE home' # home
      <4>1. Proceed(u)
        BY <2>1, <3>2, OneMoves
      <4> QED BY <1>1, <1>2, <2>3, <4>1, RefusedStays
    <3> QED BY <3>1, <3>2
  <2>4. ASSUME NEW s \in HomeTimeline, Settled(s) PROVE Settled(s)'
    <3>1. CASE Filtered(s)
      BY <1>1, <1>2, <3>1 DEF Settled
    <3>2. CASE ~ WouldAdd(home, s)
      BY <2>3, <3>2 DEF Settled
    <3>3. CASE Coming(s)
      <4>1. Filtered(s) \/ ~ WouldAdd(home', s) \/ Coming(s)'
        BY <1>1, <2>1, <3>3, ComingGoesOn
      <4> QED BY <1>1, <1>2, <4>1 DEF Settled
    <3> QED BY <2>4, <3>1, <3>2, <3>3 DEF Settled
  <2> QED BY <1>3, <2>2, <2>4
<1> QED BY <1>4, <1>5 DEF Next

(* Only its start makes a thread regenerate. *)
LEMMA PopulateStarts ==
  ASSUME TypeOK, AddsItsOwn, Next, NEW w \in Workers, Populating(w)', ~ Populating(w)
  PROVE  StartPopulate(w)
<1>1. thread \in [Workers -> Runs]
  BY DEF TypeOK
<1>2. thread'[w] # thread[w]
  BY DEF Populating, Busy
<1>3. Start(w) \/ Proceed(w) \/ Interrupt(w)
  BY <1>2, OwnWeb, OneMoves DEF Next
<1>4. thread'[w] # Idle /\ thread'[w].job = Populate
  BY DEF Populating, Busy, Idle, Run
<1>5. CASE Start(w)
  <2>1. ASSUME NEW s \in Ids, StartDistribute(w, s) PROVE FALSE
    BY <1>1, <1>2, <1>4, <2>1, OtherJobs DEF StartDistribute, Run
  <2>2. ASSUME NEW s \in Ids, StartInsert(w, s) \/ StartRemove(w, s) PROVE FALSE
    BY <1>1, <1>2, <1>4, <2>2, OtherJobs DEF StartInsert, StartRemove, Run
  <2>3. ASSUME NEW a \in Others, StartMerge(w, a) PROVE FALSE
    BY <1>1, <1>4, <2>3, OtherJobs DEF StartMerge, Run
  <2>4. ASSUME NEW a \in Others, StartUnmerge(w, a) \/ StartClear(w, a) PROVE FALSE
    BY <1>1, <1>4, <2>4, OtherJobs DEF StartUnmerge, StartClear, Run, Begin
  <2>5. ~ StartCleanup(w)
    BY <1>1, <1>2, <1>4, OtherJobs DEF StartCleanup, Run
  <2> QED BY <1>5, <2>1, <2>2, <2>3, <2>4, <2>5 DEF Start
<1>6. CASE Proceed(w)
  <2>1. Busy(w)
    BY <1>6 DEF Proceed, Consider, AddNext, EndPage, PushToHome, TrimHome, RemoveNext, Unpush, NextReblog,
           EndReblogs, Destroy, Untrack, Drop, Doing
  <2>2. thread[w].job # Populate /\ thread[w].job.kind # "populate"
    BY <2>1, PopulateKind DEF Populating
  <2>3. thread'[w] = Idle \/ thread'[w].job = thread[w].job
    <3>1. CASE Consider(w)
      BY <1>1, <3>1 DEF Consider, Step
    <3>6. CASE AddNext(w)
      BY <1>1, <3>6 DEF AddNext
    <3>2. CASE EndPage(w)
      BY <2>2, <3>2 DEF EndPage, Doing
    <3>3. CASE PushToHome(w) \/ TrimHome(w) \/ RemoveNext(w)
      BY <1>1, <3>3 DEF PushToHome, TrimHome, RemoveNext, Begin, Finish, Step
    <3>4. CASE Unpush(w) \/ NextReblog(w) \/ EndReblogs(w) \/ Destroy(w)
      BY <1>1, <3>4 DEF Unpush, NextReblog, EndReblogs, Destroy, Finish, Step
    <3>5. CASE Untrack(w) \/ Drop(w)
      BY <1>1, <3>5 DEF Untrack, Drop, Finish, Step
    <3> QED BY <1>6, <3>1, <3>2, <3>3, <3>4, <3>5, <3>6 DEF Proceed
  <2> QED BY <1>4, <2>2, <2>3
<1>7. CASE Interrupt(w)
  BY <1>1, <1>4, <1>7 DEF Interrupt, Finish
<1> QED BY <1>3, <1>5, <1>6, <1>7

\* A page of populate_feed that was just read
LEMMA PageRead ==
  ASSUME TypeOK, NEW w \in Workers, NEW m, TurnPage(w, m), Populating(w)'
  PROVE  \E last \in Oldest(PopulatePage(m)) :
           /\ ~ thread'[w].added /\ thread'[w].at = "each"
           /\ thread'[w].maxId = last /\ thread'[w].todo = PopulatePage(m)
<1>1. thread \in [Workers -> Runs]
  BY DEF TypeOK
<1>2. PopulatePage(m) # {}
  BY <1>1 DEF TurnPage, Finish, Populating, Busy, Idle, Run
<1> QED BY <1>1, <1>2 DEF TurnPage, ReadPage

LEMMA LookedNext ==
  ASSUME TypeOK, AddsItsOwn, Next, Undisturbed, NEW w \in Workers, Looked(w)
  PROVE  Looked(w)'
<1> DEFINE Done(s) == \/ s < thread'[w].maxId \/ s \in thread'[w].todo
                      \/ thread'[w].at = "add" /\ s = thread'[w].cur
                      \/ Settled(s)'
<1> SUFFICES ASSUME Populating(w)', home'.timeline = {}
             PROVE  ~ thread'[w].added /\ \A s \in HomeTimeline' : Done(s)
  BY DEF Looked
<1>1. thread \in [Workers -> Runs]
  BY DEF TypeOK
<1>2. CASE ~ Populating(w)
  <2>1. StartPopulate(w)
    BY <1>2, PopulateStarts
  <2>2. HomeTimeline' = HomeTimeline
    BY <2>1 DEF StartPopulate, HomeTimeline, statuses, relations
  <2>3. PICK last \in Oldest(PopulatePage(0)) :
          /\ ~ thread'[w].added /\ thread'[w].at = "each"
          /\ thread'[w].maxId = last /\ thread'[w].todo = PopulatePage(0)
    BY <2>1, PageRead DEF StartPopulate
  <2>4. \A s \in HomeTimeline : s < last \/ s \in PopulatePage(0)
    BY PageCovers
  <2> QED BY <2>2, <2>3, <2>4
<1>3. CASE Populating(w)
  <2>1. /\ \A s \in HomeTimeline : Settled(s) => Settled(s)'
        /\ \A s \in HomeTimeline' \ HomeTimeline : Settled(s)'
    BY <1>3, SettledStays
  <2>2. home.timeline = {} /\ thread[w].job.kind = "populate" /\ thread[w].job = Populate
    BY <1>3, PopulateKind DEF Undisturbed, Populating
  <2>3. /\ ~ thread[w].added
        /\ \A s \in HomeTimeline :
             \/ s < thread[w].maxId \/ s \in thread[w].todo
             \/ thread[w].at = "add" /\ s = thread[w].cur
             \/ Settled(s)
    BY <1>3, <2>2 DEF Looked
  <2>4. CASE thread'[w] = thread[w]
    <3>1. \A s \in HomeTimeline : Settled(s) => Done(s)
      BY <2>1
    <3> QED BY <2>1, <2>3, <2>4, <3>1
  <2>5. CASE thread'[w] # thread[w]
    <3>1. Start(w) \/ Proceed(w) \/ Interrupt(w)
      BY <2>5, OwnWeb, OneMoves DEF Next
    <3>2. ~ Start(w)
      BY <1>3 DEF Populating, Busy, Start, StartDistribute, StartInsert, StartRemove, StartMerge, StartUnmerge,
             StartClear, StartPopulate, StartCleanup, Take
    <3>3. ~ Interrupt(w)
      BY <1>1 DEF Interrupt, Finish, Populating, Busy, Idle, Run
    <3>4. Consider(w) \/ AddNext(w) \/ EndPage(w)
      BY <2>2, <3>1, <3>2, <3>3 DEF Proceed, PushToHome, TrimHome, RemoveNext, Unpush, NextReblog,
             EndReblogs, Destroy, Untrack, Drop, Doing
    <3>5. CASE Consider(w)
      <4>1. HomeTimeline' = HomeTimeline
        BY <3>5 DEF Consider, HomeTimeline, statuses, relations
      <4>2. PICK s \in Newest(thread[w].todo, 1) :
              \/ ~ Filtered(s) /\ thread' = [thread EXCEPT ![w] = Step(@, "add", thread[w].todo \ {s}, s)]
              \/ Filtered(s) /\ thread' = [thread EXCEPT ![w] =
                                   Step(@, LoopStep("populate", thread[w].todo \ {s}), thread[w].todo \ {s}, 0)]
        BY <2>2, <3>5 DEF Consider
      <4>3. /\ thread'[w].added = thread[w].added /\ thread'[w].maxId = thread[w].maxId
            /\ thread'[w].todo = thread[w].todo \ {s}
        BY <1>1, <4>2 DEF Step
      <4>4. thread[w].at # "add"
        BY <3>5 DEF Consider, Doing
      <4>5. (thread'[w].at = "add" /\ thread'[w].cur = s) \/ Filtered(s)
        BY <1>1, <4>2 DEF Step
      <4>6. s \in HomeTimeline => Settled(s)' \/ (thread'[w].at = "add" /\ thread'[w].cur = s)
        BY <2>1, <4>5 DEF Settled
      <4> QED BY <2>1, <2>3, <4>1, <4>3, <4>4, <4>6
    <3>6. CASE AddNext(w)
      <4>1. HomeTimeline' = HomeTimeline
        BY <3>6 DEF AddNext, HomeTimeline, statuses, relations
      <4>2. ~ WouldAdd(home, thread[w].cur)
        BY <3>6 DEF AddNext, AddToFeed
      <4>3. /\ thread'[w].added = (thread[w].added \/ WouldAdd(home, thread[w].cur))
            /\ thread'[w].maxId = thread[w].maxId /\ thread'[w].todo = thread[w].todo
        BY <1>1, <3>6 DEF AddNext
      <4>4. \A s \in HomeTimeline : s = thread[w].cur => Settled(s)'
        BY <2>1, <4>2 DEF Settled
      <4>5. ~ thread'[w].added
        BY <2>3, <4>2, <4>3, Zenon
      <4> QED BY <2>1, <2>3, <4>1, <4>3, <4>4, <4>5
    <3>7. CASE EndPage(w)
      <4>1. HomeTimeline' = HomeTimeline
        BY <3>7 DEF EndPage, HomeTimeline, statuses, relations
      <4>2. thread[w].todo = {} /\ thread[w].at # "add" /\ TurnPage(w, thread[w].maxId)
        BY <2>3, <3>7 DEF EndPage, Doing
      <4>3. PICK last \in Oldest(PopulatePage(thread[w].maxId)) :
              /\ ~ thread'[w].added /\ thread'[w].at = "each"
              /\ thread'[w].maxId = last /\ thread'[w].todo = PopulatePage(thread[w].maxId)
        BY <4>2, PageRead
      <4>4. thread[w].maxId \in Ids \cup {0}
        BY <1>1 DEF Runs
      <4>5. \A s \in HomeTimeline : s < thread[w].maxId => Done(s)
        BY <4>3, <4>4, PageCovers
      <4>6. \A s \in HomeTimeline : Settled(s) => Done(s)
        BY <2>1
      <4> QED BY <2>3, <4>1, <4>2, <4>3, <4>5, <4>6
    <3> QED BY <3>4, <3>5, <3>6, <3>7
  <2> QED BY <2>4, <2>5
<1> QED BY <1>2, <1>3

LEMMA FillInit == Init => FillInv
<1> SUFFICES ASSUME Init PROVE FillInv
  OBVIOUS
<1>1. \A w \in Workers : thread[w] = Idle
  BY DEF Init
<1>2. AddsItsOwn /\ \A w \in Workers : ~ Populating(w)
  BY <1>1 DEF AddsItsOwn, Populating, Busy, Idle, Run
<1> QED BY <1>2, TypeInit DEF FillInv, Looked

LEMMA FillNext == FillInv /\ [Next]_vars /\ [Undisturbed]_vars => FillInv'
<1> SUFFICES ASSUME FillInv, [Next]_vars, [Undisturbed]_vars PROVE FillInv'
  OBVIOUS
<1>1. TypeOK' /\ AddsItsOwn'
  BY TypeNext, OwnNext DEF FillInv
<1>2. CASE UNCHANGED vars
  <2>1. \A s \in Ids : Filtered(s) => Filtered(s)'
    BY <1>2 DEF vars, statuses, relations, Filtered, Dangling, ReplyFiltered, ReblogFiltered, Hidden
  <2>2. ASSUME NEW w \in Workers PROVE Looked(w)'
    <3>1. Looked(w) /\ TypeOK
      BY DEF FillInv
    <3> QED
      BY <1>2, <2>1, <3>1
         DEF Looked, Populating, Busy, Settled, Coming, BeingAdded, Waiting, HomeTimeline, TypeOK, vars, statuses, relations
  <2> QED BY <1>1, <2>2 DEF FillInv
<1>3. CASE Next /\ Undisturbed
  BY <1>1, <1>3, LookedNext DEF FillInv
<1> QED BY <1>2, <1>3 DEF vars

\* Where the flag goes, everything on the home timeline has been looked at.
LEMMA FlagGoesLast ==
  ASSUME MAX_ITEMS >= 2, FillInv, [Next]_vars, [Undisturbed]_vars,
         NEW w \in Workers, thread[w].job.kind = "populate", ~ Busy(w)', regenerating, ~ regenerating'
  PROVE  \/ home'.timeline # {}
         \/ \A s \in HomeTimeline : Filtered(s) \/ ~ WouldAdd(home', s) \/ Coming(s)
<1>1. TypeOK /\ AddsItsOwn /\ Looked(w) /\ thread \in [Workers -> Runs] /\ Next
  BY DEF FillInv, TypeOK, vars, account
<1>2. thread[w].job = Populate /\ Busy(w) /\ Populating(w)
  BY <1>1, PopulateKind, NoJobIsNone DEF AddsItsOwn, Busy, Populating
<1>3. thread'[w] # thread[w]
  BY <1>2 DEF Busy
<1>4. Start(w) \/ Proceed(w) \/ Interrupt(w)
  BY <1>1, <1>3, OwnWeb, OneMoves DEF Next
<1>5. ~ Start(w)
  BY <1>2 DEF Busy, Start, StartDistribute, StartInsert, StartRemove, StartMerge, StartUnmerge,
         StartClear, StartPopulate, StartCleanup, Take
<1>6. ~ Interrupt(w)
  BY DEF Interrupt, account
<1>7. EndPage(w)
  BY <1>4, <1>5, <1>6 DEF Proceed, Consider, AddNext, PushToHome, TrimHome, RemoveNext, Unpush, NextReblog,
         EndReblogs, Destroy, Untrack, Drop, account
<1>8. home' = home /\ thread[w].todo = {} /\ thread[w].at # "add"
  BY <1>7 DEF EndPage, Doing
<1>9. CASE home.timeline # {}
  BY <1>8, <1>9
<1>10. CASE home.timeline = {}
  <2>1. /\ ~ thread[w].added
        /\ \A s \in HomeTimeline : s < thread[w].maxId \/ Settled(s)
    BY <1>1, <1>2, <1>8, <1>10 DEF Looked
  <2>2. PopulatePage(thread[w].maxId) = {}
    BY <1>7, <2>1 DEF EndPage, TurnPage
  <2>3. ASSUME NEW s \in HomeTimeline, s < thread[w].maxId PROVE FALSE
    <3> DEFINE m == thread[w].maxId
               H == {t \in HomeTimeline : m = 0 \/ t < m}
    <3>1. s \in H /\ H \subseteq Ids
      BY <1>1, <2>3 DEF TypeOK, HomeTimeline
    <3>2. MAX_ITEMS \div 2 \in Nat \ {0}
      BY LimitsAssumption
    <3>3. Newest(H, MAX_ITEMS \div 2) # {}
      BY <3>1, <3>2, NewestIsSome
    <3> QED BY <2>2, <3>3 DEF PopulatePage
  <2> QED BY <1>8, <2>1, <2>3 DEF Settled
<1> QED BY <1>9, <1>10

\* A regeneration that is not disturbed clears its flag on an empty feed only
\* if it has nothing to show: whatever is posted, distributed, merged,
\* trimmed, interrupted or run twice meanwhile, each status of the home
\* timeline is filtered or refused by add_to_feed, or a job is still to add it
\* (FeedManager#populate_feed).
THEOREM RegenerationSkipsNone ==
  ASSUME MAX_ITEMS >= 2
  PROVE  Spec /\ [][Undisturbed]_vars => RegenerationFills
<1>1. Init => FillInv
  BY FillInit
<1>2. FillInv /\ [Next]_vars /\ [Undisturbed]_vars => FillInv'
  BY FillNext
<1>3. FillInv /\ [Next]_vars /\ [Undisturbed]_vars =>
        [\A w \in Workers :
           /\ thread[w].job.kind = "populate" /\ ~Busy(w)'
           /\ regenerating /\ ~regenerating'
           => \/ home'.timeline # {}
              \/ \A s \in HomeTimeline :
                   \/ Filtered(s) \/ ~WouldAdd(home', s)
                   \/ Pending("distribute", s) \/ Pending("insert", s)
                   \/ Pending("merge", AuthorOf[s])]_vars
  <2> SUFFICES ASSUME FillInv, [Next]_vars, [Undisturbed]_vars,
                      NEW w \in Workers, thread[w].job.kind = "populate", ~Busy(w)',
                      regenerating, ~regenerating', home'.timeline = {},
                      NEW s \in HomeTimeline
               PROVE  \/ Filtered(s) \/ ~WouldAdd(home', s)
                      \/ Pending("distribute", s) \/ Pending("insert", s)
    OBVIOUS
  <2>1. Filtered(s) \/ ~WouldAdd(home', s) \/ Coming(s)
    BY FlagGoesLast
  <2>2. Coming(s) => Pending("distribute", s) \/ Pending("insert", s)
    BY DEF Coming, BeingAdded, Pending, RunningJob, Busy
  <2> QED BY <2>1, <2>2
<1> QED BY <1>1, <1>2, <1>3, PTL DEF Spec, RegenerationFills
=============================================================================
