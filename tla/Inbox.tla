-------------------------------- MODULE Inbox --------------------------------
(***************************************************************************)
(* What other servers post to our inbox, app/lib/activitypub/activity/: a  *)
(* note is created, announced (reblogged), deleted; an announcement is     *)
(* undone.                                                                 *)
(*                                                                         *)
(* The controller only enqueues the activity.  Sidekiq's threads perform   *)
(* it: several at once, in any order, again when something raised.  The    *)
(* same activity may be delivered again: to the inbox of another of our    *)
(* accounts, forwarded by a third server, or because our answer was lost.  *)
(* What keeps objects single and the deleted ones away is a lock per note  *)
(* in Redis, a unique index on the URI, and a mark in Redis that remembers *)
(* for six hours what was deleted.                                         *)
(*                                                                         *)
(* An action is one access to Redis or to the database.                    *)
(***************************************************************************)
EXTENDS Naturals

CONSTANTS
  Notes,          \* URIs of remote notes, public and recent
  Announces,      \* URIs of remote reblogs
  Original,       \* Announces -> Notes
  Booster,        \* Announces -> the account that reblogs
  Recipients,     \* our accounts to whose own inbox notes are delivered
  Workers,        \* threads of Sidekiq
  MaxDeliveries,  \* bound: requests to the inbox
  MaxStops,       \* bound: shutdowns that catch a thread at work
  MaxKills        \* bound: threads killed with their process

Objects == Notes \cup Announces
NoOne   == "nobody"
Dead    == "a killed process"
Shared  == "shared inbox"

ASSUME InboxAssumption ==
  /\ Notes \cap Announces = {}
  /\ Original \in [Announces -> Notes]
  /\ Shared \notin Recipients
  /\ {NoOne, Dead} \cap Workers = {}
  /\ MaxDeliveries \in Nat /\ MaxStops \in Nat /\ MaxKills \in Nat

VARIABLES
  origin,      \* Objects -> its life on the server it comes from
  queue,       \* jobs in Redis, those to be retried included
  thread,      \* Workers -> the job it runs, how far it is, what it has found
  row,         \* Objects -> id of its status in our database, 0 if none
  lastId,      \* the last id given to a status
  audience,    \* Notes -> recipients with a mention
  distributed, \* ids of statuses handed to DistributionWorker
  mark,        \* objects with a key delete_upon_arrival
  lock,        \* Notes -> the thread that holds create:URI
  deliveries, stops, kills,
  gone,        \* history: notes whose Delete was carried out
  crossed,     \* history: notes whose Delete met a Create that had looked for
               \* the mark before it was set, or whose mark ran out
  lost,        \* history: jobs that were given up or killed
  cut          \* history: objects whose job was stopped before distribution

vars == <<origin, queue, thread, row, lastId, audience, distributed, mark, lock,
          deliveries, stops, kills, gone, crossed, lost, cut>>

bounds == <<deliveries, stops, kills>>
-----------------------------------------------------------------------------
Jobs ==
  [type : {"Create"}, object : Notes, to : Recipients \cup {Shared}]
  \cup [type : {"Delete"}, object : Notes, to : {Shared}]
  \cup [type : {"Announce", "Undo"}, object : Announces, to : {Shared}]

\* What a server sends of an object
Sent ==
  {j \in Jobs : IF j.type \in {"Create", "Announce"}
                THEN origin[j.object] # "unpublished" ELSE origin[j.object] = "retracted"}

Idle == [at |-> "idle"]

Threads ==
  {Idle}
  \cup [at : {"start", "check", "lock", "find", "create", "distribute", "announceable",
              "announce", "distribute_reblog", "mark", "remove"},
        job : Jobs, id : Nat]

Busy(w) == thread[w] # Idle
Job(w)  == thread[w].job

\* The note a thread creates: that of its Create, or one that it fetches
\* because it was announced
NoteOf(j) == IF j.type = "Announce" THEN Original[j.object] ELSE j.object

Creating(w, n) == Busy(w) /\ thread[w].at \in {"lock", "find", "create"} /\ NoteOf(Job(w)) = n

Go(w, at)        == thread' = [thread EXCEPT ![w].at = at]
GoWith(w, at, i) == thread' = [thread EXCEPT ![w].at = at, ![w].id = i]
Done(w)          == thread' = [thread EXCEPT ![w] = Idle]

Released(w) == [n \in Notes |-> IF lock[n] = w THEN NoOne ELSE lock[n]]

\* An exception: the lock is released on the way out, Sidekiq retries the job
Raise(w) ==
  /\ queue' = queue \cup {Job(w)}
  /\ lock' = Released(w)
  /\ Done(w)

-----------------------------------------------------------------------------
(* The other servers *)

Publish(o) ==
  /\ origin[o] = "unpublished"
  /\ o \in Announces => origin[Original[o]] = "published"
  /\ origin' = [origin EXCEPT ![o] = "published"]
  /\ UNCHANGED <<queue, thread, row, lastId, audience, distributed, mark, lock, bounds, gone, crossed, lost, cut>>

Retract(o) ==
  /\ origin[o] = "published"
  /\ origin' = [origin EXCEPT ![o] = "retracted"]
  /\ UNCHANGED <<queue, thread, row, lastId, audience, distributed, mark, lock, bounds, gone, crossed, lost, cut>>

\* InboxesController#create; early, late or again
Deliver(j) ==
  /\ j \in Sent
  /\ deliveries < MaxDeliveries
  /\ deliveries' = deliveries + 1
  /\ queue' = queue \cup {j}
  /\ UNCHANGED <<origin, thread, row, lastId, audience, distributed, mark, lock, stops, kills, gone, crossed, lost, cut>>

-----------------------------------------------------------------------------
(* Create *)

Take(w, j) ==
  /\ ~ Busy(w)
  /\ j \in queue
  /\ queue' = queue \ {j}
  /\ thread' = [thread EXCEPT ![w] =
       [at |-> IF j.type = "Create" THEN "check" ELSE "start", job |-> j, id |-> 0]]
  /\ UNCHANGED <<origin, row, lastId, audience, distributed, mark, lock, bounds, gone, crossed, lost, cut>>

\* A Delete has found no status of the note and not yet set the mark
AboutToMark(n) ==
  \E w \in Workers : Busy(w) /\ thread[w].at = "mark" /\ thread[w].id = 0 /\ Job(w).object = n

\* delete_arrived_first?
Check(w) ==
  LET n == NoteOf(Job(w)) IN
  /\ thread[w].at = "check"
  /\ IF n \in mark THEN Done(w) ELSE Go(w, "lock")
  /\ crossed' = IF n \notin mark /\ AboutToMark(n) THEN crossed \cup {n} ELSE crossed
  /\ UNCHANGED <<origin, queue, row, lastId, audience, distributed, mark, lock, bounds, gone, lost, cut>>

\* Variant: who does not get the lock gives up, without an exception
LockOrGiveUp(w) ==
  LET n == NoteOf(Job(w)) IN
  /\ thread[w].at = "lock"
  /\ UNCHANGED queue
  /\ IF lock[n] = NoOne
     THEN lock' = [lock EXCEPT ![n] = w] /\ Go(w, "find")
     ELSE Done(w) /\ UNCHANGED lock
  /\ UNCHANGED <<origin, row, lastId, audience, distributed, mark, bounds, gone, crossed, lost, cut>>

\* RedisLock.acquire; who does not get it raises RaceConditionError
Lock(w) ==
  LET n == NoteOf(Job(w)) IN
  /\ thread[w].at = "lock"
  /\ IF lock[n] = NoOne
     THEN lock' = [lock EXCEPT ![n] = w] /\ Go(w, "find") /\ UNCHANGED queue
     ELSE Raise(w)
  /\ UNCHANGED <<origin, row, lastId, audience, distributed, mark, bounds, gone, crossed, lost, cut>>

\* Variant: a known note is left as it is
FindOnly(w) ==
  LET n == NoteOf(Job(w)) IN
  /\ thread[w].at = "find"
  /\ IF row[n] = 0
     THEN Go(w, "create") /\ UNCHANGED lock
     ELSE /\ lock' = Released(w)
          /\ IF Job(w).type = "Announce" THEN GoWith(w, "announceable", row[n]) ELSE Done(w)
  /\ UNCHANGED <<origin, queue, row, lastId, audience, distributed, mark, bounds, gone, crossed, lost, cut>>

\* Variant: it is not asked whether the note came to an inbox of somebody's own
FindForAnybody(w) ==
  LET n == NoteOf(Job(w)) IN
  /\ thread[w].at = "find"
  /\ IF row[n] = 0
     THEN Go(w, "create") /\ UNCHANGED <<audience, lock>>
     ELSE /\ lock' = Released(w)
          /\ audience' = [audience EXCEPT ![n] = @ \cup {Job(w).to}]
          /\ IF Job(w).type = "Announce" THEN GoWith(w, "announceable", row[n]) ELSE Done(w)
  /\ UNCHANGED <<origin, queue, row, lastId, distributed, mark, bounds, gone, crossed, lost, cut>>

\* find_existing_status; a known note gets another recipient, or is what an
\* Announce was looking for
Find(w) ==
  LET n == NoteOf(Job(w)) IN
  /\ thread[w].at = "find"
  /\ IF row[n] = 0
     THEN Go(w, "create") /\ UNCHANGED <<audience, lock>>
     ELSE /\ lock' = Released(w)
          /\ audience' = [audience EXCEPT ![n] = @ \cup ({Job(w).to} \ {Shared})]
          /\ IF Job(w).type = "Announce" THEN GoWith(w, "announceable", row[n]) ELSE Done(w)
  /\ UNCHANGED <<origin, queue, row, lastId, distributed, mark, bounds, gone, crossed, lost, cut>>

\* process_status up to the commit.  The URI is unique.
Create(w) ==
  LET n == NoteOf(Job(w)) IN
  /\ thread[w].at = "create"
  /\ IF row[n] # 0
     THEN Raise(w) /\ UNCHANGED <<row, lastId, audience>>
     ELSE /\ lastId' = lastId + 1
          /\ row' = [row EXCEPT ![n] = lastId']
          /\ audience' = [audience EXCEPT ![n] = {Job(w).to} \ {Shared}]
          /\ GoWith(w, "distribute", lastId')
          /\ UNCHANGED <<queue, lock>>
  /\ UNCHANGED <<origin, distributed, mark, bounds, gone, crossed, lost, cut>>

Distribute(w) ==
  /\ thread[w].at = "distribute"
  /\ distributed' = distributed \cup {thread[w].id}
  /\ lock' = Released(w)
  /\ IF Job(w).type = "Announce" THEN Go(w, "announceable") ELSE Done(w)
  /\ UNCHANGED <<origin, queue, row, lastId, audience, mark, bounds, gone, crossed, lost, cut>>

-----------------------------------------------------------------------------
(* Announce *)

\* status_from_uri, else fetch_remote_original_status, which performs a Create
\* of what the other server answers; if it does not answer, nothing is retried
FindOriginal(w) ==
  LET n == NoteOf(Job(w)) IN
  /\ thread[w].at = "start" /\ Job(w).type = "Announce"
  /\ \/ row[n] # 0 /\ GoWith(w, "announceable", row[n])
     \/ row[n] = 0 /\ origin[n] = "published" /\ Go(w, "check")
     \/ row[n] = 0 /\ Done(w)
  /\ lost' = IF Busy(w)' THEN lost ELSE lost \cup {Job(w)}
  /\ UNCHANGED <<origin, queue, row, lastId, audience, distributed, mark, lock, bounds, gone, crossed, cut>>

\* The booster's reblog of the same note
Reblogged(a) == \E b \in Announces : row[b] # 0 /\ Booster[b] = Booster[a] /\ Original[b] = Original[a]

\* delete_arrived_first? and Status.find_by, which Status.create! repeats as a
\* validation
Announceable(w) ==
  LET a == Job(w).object IN
  /\ thread[w].at = "announceable"
  /\ IF a \in mark \/ Reblogged(a) THEN Done(w) ELSE Go(w, "announce")
  /\ UNCHANGED <<origin, queue, row, lastId, audience, distributed, mark, lock, bounds, gone, crossed, lost, cut>>

\* The INSERT: the URI is unique and the original must be there
Announce(w) ==
  LET a == Job(w).object IN
  /\ thread[w].at = "announce"
  /\ IF row[a] # 0 \/ row[Original[a]] # thread[w].id
     THEN Raise(w) /\ UNCHANGED <<row, lastId>>
     ELSE /\ lastId' = lastId + 1
          /\ row' = [row EXCEPT ![a] = lastId']
          /\ GoWith(w, "distribute_reblog", lastId')
          /\ UNCHANGED <<queue, lock>>
  /\ UNCHANGED <<origin, audience, distributed, mark, bounds, gone, crossed, lost, cut>>

DistributeReblog(w) ==
  /\ thread[w].at = "distribute_reblog"
  /\ distributed' = distributed \cup {thread[w].id}
  /\ Done(w)
  /\ UNCHANGED <<origin, queue, row, lastId, audience, mark, lock, bounds, gone, crossed, lost, cut>>

-----------------------------------------------------------------------------
(* Delete and Undo *)

\* Variant: the mark is left only by a Delete that finds nothing, as by an Undo
LookUpAsUndo(w) ==
  LET n == Job(w).object IN
  /\ thread[w].at = "start" /\ Job(w).type = "Delete"
  /\ GoWith(w, IF row[n] = 0 THEN "mark" ELSE "remove", row[n])
  /\ crossed' = IF row[n] = 0 /\ \E v \in Workers : Creating(v, n)
                THEN crossed \cup {n} ELSE crossed
  /\ UNCHANGED <<origin, queue, row, lastId, audience, distributed, mark, lock, bounds, gone, lost, cut>>

\* delete_note looks for the status, then sets the mark, whatever it found
LookUp(w) ==
  LET n == Job(w).object IN
  /\ thread[w].at = "start" /\ Job(w).type = "Delete"
  /\ GoWith(w, "mark", row[n])
  /\ crossed' = IF row[n] = 0 /\ \E v \in Workers : Creating(v, n)
                THEN crossed \cup {n} ELSE crossed
  /\ UNCHANGED <<origin, queue, row, lastId, audience, distributed, mark, lock, bounds, gone, lost, cut>>

\* undo_announce sets it only if there is nothing to remove
LookUpReblog(w) ==
  LET a == Job(w).object IN
  /\ thread[w].at = "start" /\ Job(w).type = "Undo"
  /\ GoWith(w, IF row[a] = 0 THEN "mark" ELSE "remove", row[a])
  /\ UNCHANGED <<origin, queue, row, lastId, audience, distributed, mark, lock, bounds, gone, crossed, lost, cut>>

\* delete_later!
Mark(w) ==
  /\ thread[w].at = "mark"
  /\ mark' = mark \cup {Job(w).object}
  /\ IF thread[w].id = 0
     THEN Done(w) /\ gone' = gone \cup ({Job(w).object} \cap Notes)
     ELSE Go(w, "remove") /\ UNCHANGED gone
  /\ UNCHANGED <<origin, queue, row, lastId, audience, distributed, lock, bounds, crossed, lost, cut>>

\* RemoveStatusService; the reblogs of a note go with it
Remove(w) ==
  LET o == Job(w).object
      withIt == {b \in Objects : b = o \/ (b \in Announces /\ Original[b] = o)}
  IN
  /\ thread[w].at = "remove"
  /\ row' = IF row[o] = thread[w].id THEN [b \in Objects |-> IF b \in withIt THEN 0 ELSE row[b]] ELSE row
  /\ Done(w)
  /\ gone' = gone \cup ({o} \cap Notes)
  /\ crossed' = crossed \cup {n \in Notes \cap {o} : \E v \in Workers : Creating(v, n)}
  /\ UNCHANGED <<origin, queue, lastId, audience, distributed, mark, lock, bounds, lost, cut>>

-----------------------------------------------------------------------------
(* Time, shutdown, crash *)

\* Six hours are over
Forget(o) ==
  /\ o \in mark
  /\ mark' = mark \ {o}
  /\ crossed' = crossed \cup ({o} \cap Notes)
  /\ UNCHANGED <<origin, queue, thread, row, lastId, audience, distributed, lock, bounds, gone, lost, cut>>

\* A minute is over, whether or not the holder is still at work
Expire(n) ==
  /\ lock[n] # NoOne
  /\ lock' = [lock EXCEPT ![n] = NoOne]
  /\ UNCHANGED <<origin, queue, thread, row, lastId, audience, distributed, mark, bounds, gone, crossed, lost, cut>>

\* What is behind in distributing is not made up for: its retry finds the status
Undistributed(w) ==
  IF thread[w].at \in {"distribute", "distribute_reblog"}
  THEN {o \in Objects : row[o] = thread[w].id} ELSE {}

Stop(w) ==
  /\ Busy(w)
  /\ stops < MaxStops
  /\ stops' = stops + 1
  /\ Raise(w)
  /\ cut' = cut \cup Undistributed(w)
  /\ UNCHANGED <<origin, row, lastId, audience, distributed, mark, deliveries, kills, gone, crossed, lost>>

Kill(w) ==
  /\ Busy(w)
  /\ kills < MaxKills
  /\ kills' = kills + 1
  /\ lock' = [n \in Notes |-> IF lock[n] = w THEN Dead ELSE lock[n]]
  /\ Done(w)
  /\ lost' = lost \cup {Job(w)}
  /\ cut' = cut \cup Undistributed(w)
  /\ UNCHANGED <<origin, queue, row, lastId, audience, distributed, mark, deliveries, stops, gone, crossed>>

-----------------------------------------------------------------------------
Init ==
  /\ origin = [o \in Objects |-> "unpublished"]
  /\ queue = {} /\ mark = {} /\ distributed = {} /\ gone = {} /\ crossed = {} /\ lost = {} /\ cut = {}
  /\ thread = [w \in Workers |-> Idle]
  /\ row = [o \in Objects |-> 0]
  /\ lastId = 0
  /\ audience = [n \in Notes |-> {}]
  /\ lock = [n \in Notes |-> NoOne]
  /\ deliveries = 0 /\ stops = 0 /\ kills = 0

Step(w) ==
  Busy(w) /\ (\/ Check(w) \/ Lock(w) \/ Find(w) \/ Create(w) \/ Distribute(w)
              \/ FindOriginal(w) \/ Announceable(w) \/ Announce(w) \/ DistributeReblog(w)
              \/ LookUp(w) \/ LookUpReblog(w) \/ Mark(w) \/ Remove(w))

Next ==
  \/ \E o \in Objects : Publish(o) \/ Retract(o) \/ Forget(o)
  \/ \E n \in Notes : Expire(n)
  \/ \E j \in Jobs : Deliver(j)
  \/ \E w \in Workers : Step(w) \/ Stop(w) \/ Kill(w) \/ \E j \in queue : Take(w, j)

Spec == Init /\ [][Next]_vars

Work(w) == Step(w) \/ \E j \in queue : Take(w, j)

\* Threads poll and go on; Redis removes a lock whose time is over
Fairness ==
  /\ \A w \in Workers : WF_vars(Work(w))
  /\ \A n \in Notes : WF_vars(Expire(n))

FairSpec == Spec /\ Fairness

-----------------------------------------------------------------------------
(* Properties *)

TypeOK ==
  /\ origin \in [Objects -> {"unpublished", "published", "retracted"}]
  /\ queue \subseteq Jobs
  /\ thread \in [Workers -> Threads]
  /\ row \in [Objects -> Nat]
  /\ lastId \in Nat
  /\ audience \in [Notes -> SUBSET Recipients]
  /\ distributed \subseteq Nat
  /\ mark \subseteq Objects
  /\ lock \in [Notes -> Workers \cup {NoOne, Dead}]
  /\ deliveries \in 0..MaxDeliveries /\ stops \in 0..MaxStops /\ kills \in 0..MaxKills
  /\ gone \subseteq Notes
  /\ crossed \subseteq Notes
  /\ lost \subseteq Jobs
  /\ cut \subseteq Objects

Lost(t, o) == \E j \in lost : j.type = t /\ j.object = o

\* A note that was deleted is not there again, whatever deliveries of its
\* Create and of announcements of it come late or twice, unless a Create was
\* past its look at the mark when the Delete looked for the note.
DeletedStaysGone ==
  \A n \in gone \ crossed : row[n] = 0

\* create.rb:96, "If the payload was delivered to a specific inbox, the inbox
\* owner must have access to it": a job that delivers a note to one of our
\* accounts and ends leaves it among those mentioned, whoever created the note
OwnerReached ==
  [][\A w \in Workers :
       LET j == Job(w) IN
       (Busy(w) /\ ~ Busy(w)' /\ j.type = "Create" /\ j.to # Shared)
       => \/ j.to \in audience'[j.object] \/ row'[j.object] = 0
          \/ j \in queue' \/ kills' # kills
          \/ j.object \in mark \cup crossed]_vars

Arrived(o) == row[o] \in distributed

Excused(o) == o \in mark \cup cut \/ origin[o] = "retracted" \/ Lost("Create", o) \/ Lost("Announce", o)

\* What was delivered is there and distributed in the end, though the lock is
\* refused to jobs, is kept by killed threads and runs out under others
Arrives ==
  /\ \A n \in Notes :
       (\E j \in queue : j.type = "Create" /\ j.object = n) ~> (Arrived(n) \/ Excused(n))
  /\ \A a \in Announces :
       (\E j \in queue : j.type = "Announce" /\ j.object = a)
       ~> (Arrived(a) \/ Excused(a) \/ Excused(Original[a]) \/ Reblogged(a))
=============================================================================
