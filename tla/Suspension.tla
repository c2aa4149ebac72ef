------------------------------ MODULE Suspension ------------------------------
(***************************************************************************)
(* How a remote person goes: suspended by a moderator, with its domain, or *)
(* deleted by its own server.  All three end in SuspendAccountService,     *)
(* which marks the account, destroys its statuses in batches, takes them   *)
(* out of the home feeds of its followers and then makes those unfollow.   *)
(* Only the deletions exclude one another, with a key in Redis, and        *)
(* meanwhile the person's statuses go on arriving.                         *)
(*                                                                         *)
(* One home feed stands for all of them.  An action is one access to Redis *)
(* or one transaction of the database.                                     *)
(***************************************************************************)
EXTENDS Naturals

CONSTANTS
  Posts,      \* statuses of the person
  Sidekiq,    \* its threads
  MaxOrders,  \* bound: what moderators and the other server ask for
  MaxCuts     \* bound: jobs that are interrupted

ASSUME SuspensionAssumption == MaxOrders \in Nat /\ MaxCuts \in Nat

VARIABLES
  account,   \* the row of the person: active, suspended or destroyed
  followed,  \* does the owner of the feed follow the person?
  way,       \* Posts -> how far it is on its way into the feed
  kept,      \* posts with a row in our database
  feed,      \* posts in the home feed
  jobs,      \* kinds of purges -> how many wait in Redis
  purge,     \* threads -> the purge it performs
  deleting,  \* is there a key delete_in_progress?
  orders, cuts,
  begun,     \* history: a purge has marked the account
  refused,   \* history: a deletion was kept out by the key
  together,  \* history: two purges were under way at once
  late,      \* history: posts that were written after a purge had begun
  dropped,   \* history: posts destroyed while an insertion had read them,
             \* or by a purge that ended before it came to the feed
  unfinished \* history: a purge was given up, and none was completed since

suspensionVars ==
  <<account, followed, way, kept, feed, jobs, purge, deleting, orders, cuts,
    begun, refused, together, late, dropped, unfinished>>

Database == <<account, followed, kept>>
Pasts    == <<begun, refused, together, late, dropped, unfinished>>

Kinds  == {"delete", "suspend", "block"}
Steps  == {"save", "read", "destroy", "unpush", "unfollow", "raze"}
Ways   == {"unsent", "checked", "written", "pushed", "found", "settled"}
NoPurge == [kind |-> "none", at |-> "idle", active |-> FALSE, batch |-> {}, left |-> {}]

GoOn(w, at) == purge' = [purge EXCEPT ![w].at = at]

-----------------------------------------------------------------------------
(* Moderators, and the server of the person *)

Order == orders < MaxOrders /\ orders' = orders + 1

Enqueue(k) == jobs' = [jobs EXCEPT ![k] = @ + 1]

\* SuspensionsController#create: suspend! and Admin::SuspensionWorker
SuspendPerson ==
  /\ Order /\ account # "destroyed"
  /\ account' = "suspended"
  /\ Enqueue("suspend")
  /\ UNCHANGED <<followed, way, kept, feed, purge, deleting, cuts, Pasts>>

\* SuspensionsController#destroy, which leaves a worker that waits alone
UnsuspendPerson ==
  /\ Order /\ account = "suspended"
  /\ account' = "active"
  /\ UNCHANGED <<followed, way, kept, feed, jobs, purge, deleting, cuts, Pasts>>

\* A domain is blocked, or the Delete of the person arrives, maybe again
Ask(k) ==
  /\ Order /\ k # "suspend" /\ account # "destroyed"
  /\ Enqueue(k)
  /\ UNCHANGED <<Database, way, feed, purge, deleting, cuts, Pasts>>

-----------------------------------------------------------------------------
(* SuspendAccountService *)

\* Activities of a suspended account are ignored, a domain block passes over
\* who is suspended, and an account that is not there raises until the job
\* is dead
Ignored(k) == account = "destroyed" \/ (account = "suspended" /\ k # "suspend")

Take(w, k) ==
  /\ purge[w].at = "idle" /\ jobs[k] > 0
  /\ jobs' = [jobs EXCEPT ![k] = @ - 1]
  /\ purge' = IF Ignored(k) THEN purge
              ELSE [purge EXCEPT ![w] = [NoPurge EXCEPT !.kind = k, !.active = (account = "active"),
                                                        !.at = IF k = "delete" THEN "lock" ELSE "save"]]
  /\ UNCHANGED <<Database, way, feed, deleting, orders, cuts, Pasts>>

\* Variant: the key is written also when it is there
LockAnyway(w) ==
  /\ purge[w].at = "lock"
  /\ deleting' = TRUE
  /\ GoOn(w, "save")
  /\ UNCHANGED <<Database, way, feed, jobs, orders, cuts, Pasts>>

\* lock_or_return: SET NX
Lock(w) ==
  /\ purge[w].at = "lock"
  /\ deleting' = TRUE
  /\ GoOn(w, IF deleting THEN "unlock" ELSE "save")
  /\ refused' = (refused \/ deleting)
  /\ UNCHANGED <<Database, way, feed, jobs, orders, cuts, begun, together, late, dropped, unfinished>>

\* ensure: whoever wrote the key
Unlock(w) ==
  /\ purge[w].at = "unlock"
  /\ deleting' = FALSE
  /\ purge' = [purge EXCEPT ![w] = NoPurge]
  /\ UNCHANGED <<Database, way, feed, jobs, orders, cuts, Pasts>>

\* purge_profile!, which writes the mark only if the account, when it was
\* loaded, had none
SaveProfile(w) ==
  /\ purge[w].at = "save"
  /\ account' = IF account = "active" /\ purge[w].active THEN "suspended" ELSE account
  /\ GoOn(w, "read")
  /\ begun' = TRUE
  /\ together' = (together \/ \E u \in Sidekiq : purge[u].at \in Steps \ {"save"})
  /\ UNCHANGED <<followed, way, kept, feed, jobs, deleting, orders, cuts, refused, late, dropped, unfinished>>

\* Variant: the followers are gone before their feeds are looked after
ReadUnfollowed(w) ==
  /\ purge[w].at = "read"
  /\ purge' = [purge EXCEPT ![w].batch = kept, ![w].left = kept,
                            ![w].at = IF kept = {} THEN "unfollow" ELSE "destroy"]
  /\ followed' = FALSE
  /\ UNCHANGED <<account, kept, way, feed, jobs, deleting, orders, cuts, Pasts>>

\* find_in_batches; all there are make one batch
ReadBatch(w) ==
  /\ purge[w].at = "read"
  /\ purge' = [purge EXCEPT ![w].batch = kept, ![w].left = kept,
                            ![w].at = IF kept = {} THEN "unfollow" ELSE "destroy"]
  /\ UNCHANGED <<Database, way, feed, jobs, deleting, orders, cuts, Pasts>>

\* status.destroy
DestroyPost(w, p) ==
  /\ purge[w].at = "destroy" /\ p \in purge[w].left
  /\ kept' = kept \ {p}
  /\ purge' = [purge EXCEPT ![w].left = @ \ {p},
                            ![w].at = IF purge[w].left = {p} THEN "unpush" ELSE @]
  /\ dropped' = IF way[p] = "found" THEN dropped \cup {p} ELSE dropped
  /\ UNCHANGED <<account, followed, way, feed, jobs, deleting, orders, cuts, begun, refused, together, late, unfinished>>

\* unpush_from_home_timelines
UnpushBatch(w) ==
  /\ purge[w].at = "unpush"
  /\ feed' = IF followed THEN feed \ purge[w].batch ELSE feed
  /\ GoOn(w, "unfollow")
  /\ UNCHANGED <<Database, way, jobs, deleting, orders, cuts, Pasts>>

\* The associations, passive_relationships among them.  It ends the purge
\* but for a deletion
DestroyFollows(w) ==
  /\ purge[w].at = "unfollow"
  /\ followed' = FALSE
  /\ purge' = [purge EXCEPT ![w] = IF @.kind = "delete" THEN [@ EXCEPT !.at = "raze"] ELSE NoPurge]
  /\ unfinished' = FALSE
  /\ UNCHANGED <<account, way, kept, feed, jobs, deleting, orders, cuts, begun, refused, together, late, dropped>>

\* @account.destroy!, which takes every status along
DestroyAccount(w) ==
  /\ purge[w].at = "raze"
  /\ account' = "destroyed" /\ kept' = {} /\ followed' = FALSE
  /\ GoOn(w, "unlock")
  /\ UNCHANGED <<way, feed, jobs, deleting, orders, cuts, Pasts>>

\* What the thread destroyed and has not taken out of the feed
Left(w) == IF purge[w].at \in {"destroy", "unpush"} THEN purge[w].batch \ purge[w].left ELSE {}

\* Something raises, or Sidekiq shuts down: the job is performed again, and
\* on the way out the key is deleted
Stop(w) ==
  /\ purge[w].at # "idle" /\ cuts < MaxCuts
  /\ cuts' = cuts + 1
  /\ Enqueue(purge[w].kind)
  /\ purge' = [purge EXCEPT ![w] = NoPurge]
  /\ deleting' = (deleting /\ ~ (purge[w].kind = "delete" /\ purge[w].at \in Steps))
  /\ dropped' = dropped \cup Left(w)
  /\ unfinished' = (unfinished \/ (purge[w].kind # "suspend" /\ purge[w].at \in Steps \ {"save"}))
  /\ UNCHANGED <<Database, way, feed, orders, begun, refused, together, late>>

\* The process is killed: the job is lost, the key stays
Kill(w) ==
  /\ purge[w].at # "idle" /\ cuts < MaxCuts
  /\ cuts' = cuts + 1
  /\ purge' = [purge EXCEPT ![w] = NoPurge]
  /\ dropped' = dropped \cup Left(w)
  /\ unfinished' = TRUE
  /\ UNCHANGED <<Database, way, feed, jobs, deleting, orders, begun, refused, together, late>>

-----------------------------------------------------------------------------
(* Meanwhile a status arrives *)

Along(p, from, to) == way[p] = from /\ way' = [way EXCEPT ![p] = to]

\* ProcessingWorker gets a Create, and ProcessCollectionService asks whether
\* the account is suspended
CheckAccount(p) ==
  /\ Along(p, "unsent", IF account = "active" THEN "checked" ELSE "settled")
  /\ UNCHANGED <<Database, feed, jobs, purge, deleting, orders, cuts, Pasts>>

\* Status.create!, which needs the row of the account
WritePost(p) ==
  /\ Along(p, "checked", IF account = "destroyed" THEN "settled" ELSE "written")
  /\ kept' = IF account = "destroyed" THEN kept ELSE kept \cup {p}
  /\ late' = IF begun THEN late \cup {p} ELSE late
  /\ UNCHANGED <<account, followed, feed, jobs, purge, deleting, orders, cuts, begun, refused, together, dropped, unfinished>>

\* DistributionWorker
FanOut(p) ==
  /\ Along(p, "written", IF p \in kept /\ followed THEN "pushed" ELSE "settled")
  /\ UNCHANGED <<Database, feed, jobs, purge, deleting, orders, cuts, Pasts>>

\* FeedInsertWorker
FindPost(p) ==
  /\ Along(p, "pushed", IF p \in kept THEN "found" ELSE "settled")
  /\ UNCHANGED <<Database, feed, jobs, purge, deleting, orders, cuts, Pasts>>

PushPost(p) ==
  /\ Along(p, "found", "settled")
  /\ feed' = feed \cup {p}
  /\ UNCHANGED <<Database, jobs, purge, deleting, orders, cuts, Pasts>>

-----------------------------------------------------------------------------
SuspensionInit ==
  /\ account = "active" /\ followed = TRUE
  /\ way = [p \in Posts |-> "unsent"]
  /\ kept = {} /\ feed = {}
  /\ jobs = [k \in Kinds |-> 0]
  /\ purge = [w \in Sidekiq |-> NoPurge]
  /\ deleting = FALSE
  /\ orders = 0 /\ cuts = 0
  /\ begun = FALSE /\ refused = FALSE /\ together = FALSE
  /\ late = {} /\ dropped = {} /\ unfinished = FALSE

Purge(w) ==
  \/ \E k \in Kinds : Take(w, k)
  \/ Lock(w) \/ Unlock(w)
  \/ SaveProfile(w) \/ ReadBatch(w) \/ UnpushBatch(w) \/ DestroyFollows(w) \/ DestroyAccount(w)
  \/ \E p \in Posts : DestroyPost(w, p)
  \/ Stop(w) \/ Kill(w)

Travel(p) ==
  CheckAccount(p) \/ WritePost(p) \/ FanOut(p) \/ FindPost(p) \/ PushPost(p)

SuspensionNext ==
  \/ SuspendPerson \/ UnsuspendPerson \/ \E k \in Kinds : Ask(k)
  \/ \E w \in Sidekiq : Purge(w)
  \/ \E p \in Posts : Travel(p)

SuspensionSpec == SuspensionInit /\ [][SuspensionNext]_suspensionVars

-----------------------------------------------------------------------------
SuspensionTypeOK ==
  /\ account \in {"active", "suspended", "destroyed"} /\ followed \in BOOLEAN
  /\ way \in [Posts -> Ways]
  /\ kept \subseteq Posts /\ feed \subseteq Posts
  /\ jobs \in [Kinds -> Nat]
  /\ purge \in [Sidekiq -> [kind : Kinds \cup {"none"}, at : Steps \cup {"idle", "lock", "unlock"},
                            active : BOOLEAN, batch : SUBSET Posts, left : SUBSET Posts]]
  /\ deleting \in BOOLEAN
  /\ orders \in 0..MaxOrders /\ cuts \in 0..MaxCuts
  /\ begun \in BOOLEAN /\ refused \in BOOLEAN /\ together \in BOOLEAN /\ unfinished \in BOOLEAN
  /\ late \subseteq Posts /\ dropped \subseteq Posts

\* Two deletions are carried out at once only if a third was kept out before:
\* it takes the key with it that it was refused by (Activity#lock_or_return)
OneDeletion ==
  \A u, w \in Sidekiq :
    {purge[u].kind, purge[w].kind} = {"delete"} /\ {purge[u].at, purge[w].at} \subseteq Steps
    => u = w \/ refused

Quiet ==
  /\ \A k \in Kinds : jobs[k] = 0
  /\ \A w \in Sidekiq : purge[w].at = "idle"
  /\ \A p \in Posts : way[p] \in {"unsent", "settled"}

\* Once a purge is over, what the person had posted is neither in the database
\* nor in a feed: but for posts that were let in before and written after the
\* purge began, for those whose insertion or purge was caught half-way, and
\* for the feeds when two purges cross (SuspendAccountService#purge_content!)
PurgedIsGone ==
  Quiet /\ begun /\ ~ unfinished =>
    /\ kept \subseteq late
    /\ together \/ feed \subseteq (late \cup dropped)
=============================================================================
