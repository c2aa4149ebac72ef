---------------------------- MODULE Conversations ----------------------------
(***************************************************************************)
(* Direct messages, app/models/account_conversation.rb: a row of the       *)
(* database per owner and set of other participants lists the statuses of  *)
(* a conversation.                                                         *)
(*                                                                         *)
(* Sidekiq's threads maintain the rows.  A new status is added to its      *)
(* author's row by DistributionWorker and to that of everybody mentioned   *)
(* by LocalNotificationWorker; RemovalWorker takes it out of all of them   *)
(* in the transaction that destroys it.  Each reads a row, changes its     *)
(* copy and writes it back when the row's lock_version is still the same.  *)
(* Owners mark rows as read and dismiss them through the API.              *)
(*                                                                         *)
(* An action is a statement of SQL, or several of which at most one        *)
(* depends on what other threads do.                                       *)
(***************************************************************************)
EXTENDS Naturals

CONSTANTS
  Statuses,   \* ids of the statuses of one conversation
  Accounts,   \* who takes part in it; everybody is local
  Author,     \* Statuses -> Accounts; the others are mentioned
  Workers,    \* threads of Sidekiq
  MaxOps      \* bound: requests other than posts, and shutdowns of Sidekiq

ASSUME ConversationAssumption ==
  /\ Statuses \subseteq Nat \ {0}
  /\ Author \in [Statuses -> Accounts]
  /\ MaxOps \in Nat

VARIABLES
  state,      \* Statuses -> its life
  row,        \* Lists -> the committed row
  lastId,     \* the last id of the table's sequence
  held,       \* Workers -> rows its transaction changed, hence has locked
  notified,   \* pairs of an account and a status it has a notification of
  queue,      \* jobs in Redis, those to be retried included
  thread,     \* Workers -> the job it runs and how far it is
  ops,
  hasty       \* history: a status was deleted while jobs that add it or
              \* another deletion were not through

vars == <<state, row, lastId, held, notified, queue, thread, ops, hasty>>

-----------------------------------------------------------------------------
Lists == {l \in Accounts \X SUBSET Accounts : l[1] \notin l[2]}

NoRow == [id |-> 0, version |-> 0, ids |-> {}, unread |-> FALSE]

Jobs == [kind : {"add", "remove"}, status : Statuses, owner : Accounts]

Job(k, s, o) == [kind |-> k, status |-> s, owner |-> o]

\* The job that adds a status for a person mentioned starts with a notification
Notifies(j) == j.kind = "add" /\ j.owner # Author[j.status]

\* A "doomed" status is one that its removal job has not destroyed yet
Live(s) == state[s] \in {"live", "doomed"}

\* The mentions are destroyed with the status
ListOf(o, s) == <<o, (IF Live(s) THEN Accounts ELSE {Author[s]}) \ {o}>>

\* last_status exists
LastIsLive(ids) == \A s \in ids : (\A t \in ids : t <= s) => Live(s)

Fill(r, s, o) ==
  [r EXCEPT !.ids = @ \cup {s}, !.unread = Author[s] # o]

WithoutKeepingRow(r, s) == [r EXCEPT !.ids = @ \ {s}, !.version = @ + 1]

Without(r, s) ==
  IF r.ids = {s} THEN NoRow
  ELSE [r EXCEPT !.ids = @ \ {s}, !.version = @ + 1]

Idle == [at |-> "idle"]

Loading(j, todo) == [at |-> "load", job |-> j, todo |-> todo]

Holding(a, j, todo, l, r) ==
  [at |-> a, job |-> j, todo |-> todo, list |-> l, base |-> r]

Rows == [id : Nat, version : Nat, ids : SUBSET Statuses, unread : BOOLEAN]

Threads ==
  {Idle} \cup [at : {"load"}, job : Jobs, todo : SUBSET Accounts]
  \cup [at : {"check", "write"}, job : Jobs, todo : SUBSET Accounts, list : Lists, base : Rows]

\* Whose rows a job changes
OwnersOfOthers(j) == IF j.kind = "add" THEN {j.owner} ELSE Accounts \ {Author[j.status]}

OwnersOf(j) == IF j.kind = "add" THEN {j.owner} ELSE Accounts

\* Mentioned accounts come before the author
NextOwners(w) ==
  LET a == Author[thread[w].job.status] IN
  IF thread[w].todo = {a} THEN {a} ELSE thread[w].todo \ {a}

Locked(l) == \E w \in Workers : l \in held[w]

\* The WHERE clause of an UPDATE or DELETE matches the row
Fresh(w) ==
  LET t == thread[w] IN
  /\ row[t.list].id = t.base.id
  /\ row[t.list].version = t.base.version

Done(w)   == thread' = [thread EXCEPT ![w] = Idle]
Reload(w) == thread' = [thread EXCEPT ![w] = Loading(@.job, @.todo)]
Skip(w, o) == thread' = [thread EXCEPT ![w] = Loading(@.job, @.todo \ {o})]

\* The job goes back to Redis; the transaction is rolled back
Requeue(w) ==
  /\ queue' = queue \cup {thread[w].job}
  /\ held' = [held EXCEPT ![w] = {}]
  /\ Done(w)

-----------------------------------------------------------------------------
(* Requests *)

Adding(s) ==
  \/ \E j \in queue : j.kind = "add" /\ j.status = s
  \/ \E w \in Workers : thread[w] # Idle /\ thread[w].job.kind = "add" /\ thread[w].job.status = s

\* A first status, or an answer to one that is there
Post(s) ==
  /\ state[s] = "unposted"
  /\ \A t \in Statuses : state[t] = "unposted" \/ \E u \in Statuses : Live(u)
  /\ state' = [state EXCEPT ![s] = "live"]
  /\ queue' = queue \cup {Job("add", s, o) : o \in Accounts}
  /\ UNCHANGED <<row, lastId, held, notified, thread, ops, hasty>>

Delete(s) ==
  /\ state[s] = "live"
  /\ ops < MaxOps
  /\ ops' = ops + 1
  /\ state' = [state EXCEPT ![s] = "doomed"]
  /\ queue' = queue \cup {Job("remove", s, Author[s])}
  /\ hasty' = (hasty \/ Adding(s) \/ \E t \in Statuses : state[t] = "doomed")
  /\ UNCHANGED <<row, lastId, held, notified, thread>>

\* The statement of a request waits for the row's lock like any other.  A
\* request that finds the row changed since it read it fails, and is left out.
Request(l) ==
  /\ ops < MaxOps
  /\ ops' = ops + 1
  /\ row[l] # NoRow
  /\ ~ Locked(l)
  /\ UNCHANGED <<state, lastId, held, notified, queue, thread, hasty>>

Read(l) ==
  /\ Request(l)
  /\ row[l].unread
  /\ LastIsLive(row[l].ids)
  /\ row' = [row EXCEPT ![l].unread = FALSE, ![l].version = @ + 1]

Dismiss(l) ==
  /\ Request(l)
  /\ row' = [row EXCEPT ![l] = NoRow]

-----------------------------------------------------------------------------
(* Jobs *)

Notified(j) == Notifies(j) /\ <<j.owner, j.status>> \in notified

Begin(w, j) ==
  /\ thread[w] = Idle
  /\ j \in queue
  /\ Live(j.status)
  /\ ~ Notified(j)
  /\ queue' = queue \ {j}
  /\ notified' = IF Notifies(j) THEN notified \cup {<<j.owner, j.status>>} ELSE notified
  /\ thread' = [thread EXCEPT ![w] = Loading(j, OwnersOf(j))]
  /\ UNCHANGED <<state, row, lastId, held, ops, hasty>>

\* RecordNotFound, or RecordInvalid because the notification exists
Discard(j) ==
  /\ j \in queue
  /\ ~ Live(j.status) \/ Notified(j)
  /\ queue' = queue \ {j}
  /\ UNCHANGED <<state, row, lastId, held, notified, thread, ops, hasty>>

Fetch == \E j \in queue : Discard(j) \/ \E w \in Workers : Begin(w, j)

LoadToAdd(w) ==
  /\ thread[w].at = "load"
  /\ thread[w].job.kind = "add"
  /\ LET j == thread[w].job
         l == ListOf(j.owner, j.status)
     IN IF j.status \in row[l].ids THEN Done(w)
        ELSE thread' = [thread EXCEPT ![w] = Holding("check", j, {j.owner}, l, row[l])]
  /\ UNCHANGED <<state, row, lastId, held, notified, queue, ops, hasty>>

LoadToRemove(w) ==
  /\ thread[w].at = "load"
  /\ thread[w].job.kind = "remove"
  /\ \E o \in NextOwners(w) :
       LET j == thread[w].job
           l == ListOf(o, j.status)
       IN IF j.status \notin row[l].ids THEN Skip(w, o)
          ELSE thread' = [thread EXCEPT ![w] =
                 Holding(IF row[l].ids = {j.status} THEN "write" ELSE "check",
                         j, @.todo, l, row[l])]
  /\ UNCHANGED <<state, row, lastId, held, notified, queue, ops, hasty>>

\* The validation that the last status exists
IdsToSave(w) ==
  LET t == thread[w] IN
  IF t.job.kind = "add" THEN t.base.ids \cup {t.job.status} ELSE t.base.ids \ {t.job.status}

\* The query cache may still have the status that the job found
Cached(w) ==
  /\ thread[w].job.kind = "add"
  /\ \A t \in IdsToSave(w) : t <= thread[w].job.status

Check(w) ==
  /\ thread[w].at = "check"
  /\ LastIsLive(IdsToSave(w)) \/ Cached(w)
  /\ thread' = [thread EXCEPT ![w].at = "write"]
  /\ UNCHANGED <<state, row, lastId, held, notified, queue, ops, hasty>>

\* save returns false, which nobody looks at
Refuse(w) ==
  /\ thread[w].at = "check"
  /\ ~ LastIsLive(IdsToSave(w))
  /\ IF thread[w].job.kind = "add" THEN Done(w) ELSE Skip(w, thread[w].list[1])
  /\ UNCHANGED <<state, row, lastId, held, notified, queue, ops, hasty>>

Writing(w, k) ==
  /\ thread[w].at = "write"
  /\ thread[w].job.kind = k
  /\ ~ Locked(thread[w].list)

\* Variant: a row that is there is replaced
InsertOver(w) ==
  /\ Writing(w, "add")
  /\ thread[w].base = NoRow
  /\ LET t == thread[w] IN
     row' = [row EXCEPT ![t.list] =
       [Fill(NoRow, t.job.status, t.job.owner) EXCEPT !.id = lastId + 1]]
  /\ lastId' = lastId + 1
  /\ Done(w)
  /\ UNCHANGED <<state, held, notified, queue, ops, hasty>>

Insert(w) ==
  /\ Writing(w, "add")
  /\ thread[w].base = NoRow
  /\ row[thread[w].list] = NoRow
  /\ LET t == thread[w] IN
     row' = [row EXCEPT ![t.list] =
       [Fill(NoRow, t.job.status, t.job.owner) EXCEPT !.id = lastId + 1]]
  /\ lastId' = lastId + 1
  /\ Done(w)
  /\ UNCHANGED <<state, held, notified, queue, ops, hasty>>

InsertFailsQuietly(w) ==
  /\ Writing(w, "add")
  /\ thread[w].base = NoRow
  /\ row[thread[w].list] # NoRow
  /\ Done(w)
  /\ UNCHANGED <<state, row, lastId, held, notified, queue, ops, hasty>>

\* RecordNotUnique, which only Sidekiq rescues
InsertFails(w) ==
  /\ Writing(w, "add")
  /\ thread[w].base = NoRow
  /\ row[thread[w].list] # NoRow
  /\ Requeue(w)
  /\ UNCHANGED <<state, row, lastId, notified, ops, hasty>>

Update(w) ==
  /\ Writing(w, "add")
  /\ thread[w].base # NoRow
  /\ IF Fresh(w)
       THEN LET t == thread[w] IN
            /\ row' = [row EXCEPT ![t.list] =
                 [Fill(t.base, t.job.status, t.job.owner) EXCEPT !.version = @ + 1]]
            /\ Done(w)
       ELSE Reload(w) /\ UNCHANGED row
  /\ UNCHANGED <<state, lastId, held, notified, queue, ops, hasty>>

\* Nobody sees the change before the transaction commits, but the row is locked
Unlink(w) ==
  /\ Writing(w, "remove")
  /\ IF Fresh(w)
       THEN /\ held' = [held EXCEPT ![w] = @ \cup {thread[w].list}]
            /\ Skip(w, thread[w].list[1])
       ELSE Reload(w) /\ UNCHANGED held
  /\ UNCHANGED <<state, row, lastId, notified, queue, ops, hasty>>

Commit(w) ==
  /\ thread[w].at = "load"
  /\ thread[w].job.kind = "remove"
  /\ thread[w].todo = {}
  /\ LET s == thread[w].job.status IN
     /\ row' = [l \in Lists |-> IF l \in held[w] THEN Without(row[l], s) ELSE row[l]]
     /\ state' = [state EXCEPT ![s] = "gone"]
  /\ held' = [held EXCEPT ![w] = {}]
  /\ Done(w)
  /\ UNCHANGED <<lastId, notified, queue, ops, hasty>>

\* PostgreSQL aborts a transaction of a cycle, Sidekiq runs the job again
WaitsFor(v, w) ==
  /\ thread[v].at = "write"
  /\ thread[v].list \in held[w]

Deadlocked(w) ==
  \E C \in SUBSET Workers :
    /\ w \in C
    /\ \A v \in C : \E u \in C : WaitsFor(v, u)

AbortForGood(w) ==
  /\ Deadlocked(w)
  /\ held' = [held EXCEPT ![w] = {}]
  /\ Done(w)
  /\ UNCHANGED <<state, row, lastId, notified, queue, ops, hasty>>

Abort(w) ==
  /\ Deadlocked(w)
  /\ Requeue(w)
  /\ UNCHANGED <<state, row, lastId, notified, ops, hasty>>

\* Sidekiq is stopped and pushes the jobs it did not finish back
Shutdown(w) ==
  /\ ops < MaxOps
  /\ ops' = ops + 1
  /\ thread[w] # Idle
  /\ Requeue(w)
  /\ UNCHANGED <<state, row, lastId, notified, hasty>>

-----------------------------------------------------------------------------
Init ==
  /\ state = [s \in Statuses |-> "unposted"]
  /\ row = [l \in Lists |-> NoRow]
  /\ lastId = 0
  /\ held = [w \in Workers |-> {}]
  /\ notified = {}
  /\ queue = {}
  /\ thread = [w \in Workers |-> Idle]
  /\ ops = 0
  /\ hasty = FALSE

Step(w) ==
  \/ LoadToAdd(w) \/ LoadToRemove(w)
  \/ Check(w) \/ Refuse(w)
  \/ Insert(w) \/ InsertFails(w) \/ Update(w) \/ Unlink(w)
  \/ Commit(w) \/ Abort(w)

Next ==
  \/ \E s \in Statuses : Post(s) \/ Delete(s)
  \/ \E l \in Lists : Read(l) \/ Dismiss(l)
  \/ Fetch
  \/ \E w \in Workers : Step(w) \/ Shutdown(w)

Spec == Init /\ [][Next]_vars

\* A thread without a job fetches one, if there is one, and a thread that does
\* not wait for a lock goes on.  PostgreSQL grants the lock of a row in the
\* order it was asked for.
Grant(w, o) ==
  /\ thread[w].at = "write"
  /\ thread[w].list[1] = o
  /\ Insert(w) \/ InsertFails(w) \/ Update(w) \/ Unlink(w)

Fairness ==
  /\ WF_vars(Fetch)
  /\ \A w \in Workers : WF_vars(Step(w))
  /\ \A w \in Workers, o \in Accounts : SF_vars(Grant(w, o))

FairSpec == Spec /\ Fairness

-----------------------------------------------------------------------------
TypeOK ==
  /\ state \in [Statuses -> {"unposted", "live", "doomed", "gone"}]
  /\ row \in [Lists -> Rows]
  /\ \A l \in Lists : row[l].ids = {} => row[l] = NoRow
  /\ lastId \in Nat
  /\ held \in [Workers -> SUBSET Lists]
  /\ notified \subseteq Accounts \X Statuses
  /\ queue \subseteq Jobs
  /\ thread \in [Workers -> Threads]
  /\ ops \in 0..MaxOps
  /\ hasty \in BOOLEAN

\* No update is lost: whatever jobs and requests run at the same time, every
\* change of a row is one of the list's operations on what the row was,
\* account_conversation.rb:59-88
List == INSTANCE ConversationList WITH
  list <- [l \in Lists |-> row[l].ids],
  unread <- [l \in Lists |-> row[l].unread]

ImplementsList == List!Spec

\* "removes the record if no other statuses are referenced": no row names a
\* status that was destroyed, status.rb:516-525
Unlinked ==
  \A l \in Lists, s \in Statuses : state[s] = "gone" => s \notin row[l].ids

\* That holds when statuses are deleted one at a time, after the jobs that
\* spread them
UnlinkedAtLeisure == ~ hasty => Unlinked

\* A removal gets through, whatever it collides with,
\* account_conversation.rb:86-87
RemovalEnds == \A s \in Statuses : state[s] = "doomed" ~> state[s] = "gone"

Pending(j) == j \in queue \/ \E w \in Workers : thread[w] # Idle /\ thread[w].job = j

\* While no status is deleted, the job that adds a status to the list of o does
\* not end without it
EndsWell(o, s) ==
  LET j == Job("add", s, o) IN
  Pending(j) /\ ~ Pending(j)'
    => \/ s \in row'[<<o, Accounts \ {o}>>].ids
       \/ \E t \in Statuses : state[t] \in {"doomed", "gone"}

\* The author's own list gets it, however often the job is interrupted,
\* fan_out_on_write_service.rb:94-96
OwnAdded == [][\A s \in Statuses : EndsWell(Author[s], s)]_vars

\* So do the lists of those mentioned, notify_service.rb:126-129: "appends to
\* old record when there is a match"
MentionedAdded ==
  [][\A s \in Statuses, o \in Accounts : o # Author[s] => EndsWell(o, s)]_vars
=============================================================================
