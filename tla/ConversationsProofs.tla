------------------------- MODULE ConversationsProofs -------------------------
(***************************************************************************)
(* Theorems about conversations, for any statuses, accounts and threads.   *)
(***************************************************************************)
EXTENDS Conversations, TLAPS

Loads == [at : {"load"}, job : Jobs, todo : SUBSET Accounts]
Holds == [at : {"check", "write"}, job : Jobs, todo : SUBSET Accounts, list : Lists, base : Rows]

LEMMA ThreadCases ==
  ASSUME TypeOK, NEW w \in Workers
  PROVE  /\ thread[w] = Idle \/ thread[w] \in Loads \/ thread[w] \in Holds
         /\ thread[w].at = "load" => thread[w] \in Loads
         /\ thread[w].at \in {"check", "write"} => thread[w] \in Holds
         /\ thread[w] # Idle => thread[w].job \in Jobs /\ thread[w].todo \in SUBSET Accounts
<1>1. thread[w] \in Threads
  BY DEF TypeOK
<1>2. thread[w] = Idle \/ thread[w] \in Loads \/ thread[w] \in Holds
  BY <1>1 DEF Threads, Loads, Holds
<1>3. thread[w] = Idle => thread[w].at = "idle"
  BY DEF Idle
<1>4. thread[w] \in Loads => thread[w].at = "load" /\ thread[w].job \in Jobs /\ thread[w].todo \in SUBSET Accounts
  BY DEF Loads
<1>5. thread[w] \in Holds => thread[w].at \in {"check", "write"} /\ thread[w].job \in Jobs /\ thread[w].todo \in SUBSET Accounts
  BY DEF Holds
<1> QED BY <1>2, <1>3, <1>4, <1>5

LEMMA NoRowType == NoRow \in Rows
BY DEF NoRow, Rows

LEMMA JobType ==
  ASSUME NEW k \in {"add", "remove"}, NEW s \in Statuses, NEW o \in Accounts
  PROVE  /\ Job(k, s, o) \in Jobs
         /\ Job(k, s, o).kind = k /\ Job(k, s, o).status = s /\ Job(k, s, o).owner = o
BY DEF Job, Jobs

LEMMA ListType ==
  ASSUME NEW o \in Accounts, NEW s \in Statuses
  PROVE  ListOf(o, s) \in Lists /\ ListOf(o, s)[1] = o
BY ConversationAssumption DEF ListOf, Lists

LEMMA LoadingType ==
  ASSUME NEW j \in Jobs, NEW todo \in SUBSET Accounts
  PROVE  /\ Loading(j, todo) \in Threads /\ Loading(j, todo) \in Loads
         /\ Loading(j, todo).job = j /\ Loading(j, todo).todo = todo /\ Loading(j, todo).at = "load"
         /\ Loading(j, todo) # Idle
<1>1. Loading(j, todo).at = "load" /\ Idle.at = "idle"
  BY DEF Loading, Idle
<1>2. Loading(j, todo) \in Loads /\ Loading(j, todo).job = j /\ Loading(j, todo).todo = todo
  BY DEF Loading, Loads
<1> QED BY <1>1, <1>2 DEF Threads, Loads

LEMMA HoldingType ==
  ASSUME NEW a \in {"check", "write"}, NEW j \in Jobs, NEW todo \in SUBSET Accounts, NEW l \in Lists, NEW r \in Rows
  PROVE  /\ Holding(a, j, todo, l, r) \in Threads /\ Holding(a, j, todo, l, r) \in Holds
         /\ Holding(a, j, todo, l, r).job = j /\ Holding(a, j, todo, l, r).todo = todo
         /\ Holding(a, j, todo, l, r).at = a /\ Holding(a, j, todo, l, r).list = l
         /\ Holding(a, j, todo, l, r).base = r
         /\ Holding(a, j, todo, l, r) # Idle
<1> DEFINE h == Holding(a, j, todo, l, r)
<1>1. h.at = a /\ Idle.at = "idle"
  BY DEF Holding, Idle
<1>2. h \in Holds /\ h.job = j /\ h.todo = todo /\ h.list = l /\ h.base = r
  BY DEF Holding, Holds
<1> QED BY <1>1, <1>2 DEF Threads, Holds

LEMMA FillType ==
  ASSUME NEW r \in Rows, NEW s \in Statuses, NEW o \in Accounts
  PROVE  /\ Fill(r, s, o) \in Rows
         /\ Fill(r, s, o).ids = r.ids \cup {s} /\ Fill(r, s, o).unread = (Author[s] # o)
         /\ Fill(r, s, o).id = r.id /\ Fill(r, s, o).version = r.version
BY DEF Fill, Rows

LEMMA WithoutType ==
  ASSUME NEW r \in Rows, NEW s \in Statuses, s \in r.ids
  PROVE  /\ Without(r, s) \in Rows
         /\ Without(r, s).ids = r.ids \ {s}
         /\ Without(r, s).ids = {} => Without(r, s) = NoRow
         /\ Without(r, s).unread = (r.unread /\ r.ids # {s})
         /\ r.ids # {s} => Without(r, s).id = r.id /\ Without(r, s).version = r.version + 1
<1>1. CASE r.ids = {s}
  BY <1>1, NoRowType DEF Without, NoRow
<1>2. CASE r.ids # {s}
  <2> DEFINE x == [id |-> r.id, version |-> r.version + 1, ids |-> r.ids \ {s}, unread |-> r.unread]
  <2>1. Without(r, s) = x
    BY <1>2 DEF Without, Rows
  <2>2. x \in Rows /\ x.ids # {}
    BY <1>2 DEF Rows
  <2>3. r.unread \in BOOLEAN
    BY DEF Rows
  <2> QED BY <1>2, <2>1, <2>2, <2>3
<1> QED BY <1>1, <1>2

LEMMA MarkedRow ==
  ASSUME NEW r \in Rows, NEW b \in BOOLEAN
  PROVE  LET x == [r EXCEPT !.unread = b, !.version = @ + 1] IN
         /\ x \in Rows /\ x.ids = r.ids /\ x.id = r.id
         /\ x.version = r.version + 1 /\ x.unread = b
<1> DEFINE y == [r EXCEPT !.unread = b]
<1>0. y = [id |-> r.id, version |-> r.version, ids |-> r.ids, unread |-> b]
  BY DEF Rows
<1>2. [y EXCEPT !.version = @ + 1]
        = [id |-> r.id, version |-> r.version + 1, ids |-> r.ids, unread |-> b]
  <2>1. y \in Rows /\ y.id = r.id /\ y.version = r.version /\ y.ids = r.ids /\ y.unread = b
    BY <1>0 DEF Rows
  <2> HIDE DEF y
  <2>2. [y EXCEPT !.version = @ + 1]
          = [id |-> y.id, version |-> y.version + 1, ids |-> y.ids, unread |-> y.unread]
    BY <2>1 DEF Rows
  <2> QED BY <2>1, <2>2
<1>1. [r EXCEPT !.unread = b, !.version = @ + 1]
        = [id |-> r.id, version |-> r.version + 1, ids |-> r.ids, unread |-> b]
  BY <1>0, <1>2
<1> QED BY <1>1 DEF Rows

LEMMA ReadRow ==
  ASSUME NEW r \in Rows
  PROVE  LET x == [r EXCEPT !.unread = FALSE, !.version = @ + 1] IN
         /\ x \in Rows /\ x.ids = r.ids /\ x.id = r.id
         /\ x.version = r.version + 1 /\ x.unread = FALSE
BY MarkedRow, Zenon

LEMMA UpdatedRow ==
  ASSUME NEW r \in Rows
  PROVE  LET x == [r EXCEPT !.version = @ + 1] IN
         /\ x \in Rows /\ x.ids = r.ids /\ x.id = r.id
         /\ x.version = r.version + 1 /\ x.unread = r.unread
<1>1. [r EXCEPT !.version = @ + 1]
        = [id |-> r.id, version |-> r.version + 1, ids |-> r.ids, unread |-> r.unread]
  BY DEF Rows
<1> QED BY <1>1 DEF Rows

LEMMA InsertedRow ==
  ASSUME NEW r \in Rows, NEW n \in Nat
  PROVE  LET x == [r EXCEPT !.id = n] IN
         /\ x \in Rows /\ x.ids = r.ids /\ x.id = n
         /\ x.version = r.version /\ x.unread = r.unread
<1>1. [r EXCEPT !.id = n]
        = [id |-> n, version |-> r.version, ids |-> r.ids, unread |-> r.unread]
  BY DEF Rows
<1> QED BY <1>1 DEF Rows

LEMMA DoneType ==
  ASSUME TypeOK, NEW w \in Workers, Done(w)
  PROVE  thread' \in [Workers -> Threads]
BY DEF TypeOK, Done, Threads

LEMMA BackType ==
  ASSUME TypeOK, NEW w \in Workers, thread[w] # Idle,
         Reload(w) \/ \E o : Skip(w, o)
  PROVE  thread' \in [Workers -> Threads]
<1>1. thread[w].job \in Jobs /\ thread[w].todo \in SUBSET Accounts
  BY ThreadCases
<1>2. CASE Reload(w)
  <2>1. Loading(thread[w].job, thread[w].todo) \in Threads
    BY <1>1, LoadingType
  <2> QED BY <1>2, <2>1 DEF TypeOK, Reload
<1>3. ASSUME NEW o, Skip(w, o) PROVE thread' \in [Workers -> Threads]
  <2>1. Loading(thread[w].job, thread[w].todo \ {o}) \in Threads
    BY <1>1, LoadingType
  <2> QED BY <1>3, <2>1 DEF TypeOK, Skip
<1> QED BY <1>2, <1>3

LEMMA RequeueType ==
  ASSUME TypeOK, NEW w \in Workers, thread[w] # Idle, Requeue(w)
  PROVE  /\ thread' \in [Workers -> Threads]
         /\ queue' \subseteq Jobs
         /\ held' \in [Workers -> SUBSET Lists]
<1>1. thread[w].job \in Jobs
  BY ThreadCases
<1> QED BY <1>1, DoneType DEF TypeOK, Requeue

LEMMA NextOwnerType ==
  ASSUME TypeOK, NEW w \in Workers, thread[w] # Idle
  PROVE  NextOwners(w) \subseteq thread[w].todo /\ NextOwners(w) \subseteq Accounts
BY ThreadCases DEF NextOwners

LEMMA NotIdle ==
  ASSUME TypeOK, NEW w \in Workers
  PROVE  thread[w].at \in {"load", "check", "write"} <=> thread[w] # Idle
<1>1. Idle.at = "idle"
  BY DEF Idle
<1> QED BY <1>1, ThreadCases DEF Loads, Holds

LEMMA RequestType ==
  ASSUME TypeOK, NEW s \in Statuses, Post(s) \/ Delete(s)
  PROVE  TypeOK'
<1>1. CASE Post(s)
  <2>1. queue' \subseteq Jobs
    BY <1>1, JobType DEF TypeOK, Post
  <2> QED BY <1>1, <2>1 DEF TypeOK, Post
<1>2. CASE Delete(s)
  <2>1. queue' \subseteq Jobs
    <3>1. Author[s] \in Accounts
      BY ConversationAssumption
    <3>2. Job("remove", s, Author[s]) \in Jobs
      BY <3>1, JobType
    <3> QED BY <1>2, <3>2 DEF TypeOK, Delete
  <2>2. hasty' \in BOOLEAN
    BY <1>2 DEF TypeOK, Delete
  <2>3. ops' \in 0..MaxOps
    BY <1>2, ConversationAssumption DEF TypeOK, Delete
  <2> QED BY <1>2, <2>1, <2>2, <2>3 DEF TypeOK, Delete
<1> QED BY <1>1, <1>2

LEMMA OwnerType ==
  ASSUME TypeOK, NEW l \in Lists, Read(l) \/ Dismiss(l)
  PROVE  TypeOK'
<1>1. ops' \in 0..MaxOps /\ row[l] \in Rows
  BY ConversationAssumption DEF TypeOK, Read, Dismiss, Request
<1>2. CASE Read(l)
  <2> DEFINE r == [row[l] EXCEPT !.unread = FALSE, !.version = @ + 1]
  <2>1. r \in Rows /\ r.ids = row[l].ids
    BY <1>1, ReadRow
  <2>2. row' = [row EXCEPT ![l] = r]
    BY <1>2 DEF Read
  <2>3. row[l].ids # {}
    BY <1>2 DEF TypeOK, Read, Request
  <2>4. row' \in [Lists -> Rows] /\ \A k \in Lists : row'[k].ids = {} => row'[k] = NoRow
    BY <2>1, <2>2, <2>3 DEF TypeOK
  <2> QED BY <1>1, <1>2, <2>4 DEF TypeOK, Read, Request
<1>3. CASE Dismiss(l)
  <2>1. row' \in [Lists -> Rows] /\ \A k \in Lists : row'[k].ids = {} => row'[k] = NoRow
    BY <1>3, NoRowType DEF TypeOK, Dismiss
  <2> QED BY <1>1, <1>3, <2>1 DEF TypeOK, Dismiss, Request
<1> QED BY <1>2, <1>3

LEMMA FetchType ==
  ASSUME TypeOK, Fetch
  PROVE  TypeOK'
<1>1. ASSUME NEW j \in queue, Discard(j) PROVE TypeOK'
  BY <1>1 DEF TypeOK, Discard
<1>2. ASSUME NEW j \in queue, NEW w \in Workers, Begin(w, j) PROVE TypeOK'
  <2>1. j \in Jobs /\ j.owner \in Accounts /\ j.status \in Statuses
    BY DEF TypeOK, Jobs
  <2>2. Loading(j, OwnersOf(j)) \in Threads
    BY <2>1, LoadingType DEF OwnersOf
  <2>3. notified' \subseteq Accounts \X Statuses
    BY <1>2, <2>1 DEF TypeOK, Begin
  <2> QED BY <1>2, <2>1, <2>2, <2>3 DEF TypeOK, Begin
<1> QED BY <1>1, <1>2 DEF Fetch

\* A transaction has locked rows that list the status it removes
Locks ==
  \A w \in Workers : \A l \in held[w] :
    /\ thread[w] # Idle
    /\ thread[w].job.kind = "remove"
    /\ thread[w].job.status \in row[l].ids
    /\ \A v \in Workers : l \in held[v] => v = w

LEMMA StepType ==
  ASSUME TypeOK, Locks, NEW w \in Workers, Step(w)
  PROVE  TypeOK'
<1>1. CASE LoadToAdd(w)
  <2> DEFINE j == thread[w].job
             l == ListOf(j.owner, j.status)
  <2>1. j \in Jobs /\ j.owner \in Accounts /\ j.status \in Statuses
    BY <1>1, ThreadCases DEF LoadToAdd, Loads, Jobs
  <2>2. l \in Lists /\ row[l] \in Rows
    BY <2>1, ListType DEF TypeOK
  <2>3. Holding("check", j, {j.owner}, l, row[l]) \in Threads
    BY <2>1, <2>2, HoldingType
  <2>4. thread' \in [Workers -> Threads]
    BY <1>1, <2>3, DoneType DEF TypeOK, LoadToAdd
  <2> QED BY <1>1, <2>4 DEF TypeOK, LoadToAdd
<1>2. CASE LoadToRemove(w)
  <2>1. PICK o \in NextOwners(w) :
          LET j == thread[w].job
              l == ListOf(o, j.status)
          IN IF j.status \notin row[l].ids THEN Skip(w, o)
             ELSE thread' = [thread EXCEPT ![w] =
                    Holding(IF row[l].ids = {j.status} THEN "write" ELSE "check",
                            j, @.todo, l, row[l])]
    BY <1>2 DEF LoadToRemove
  <2> DEFINE j == thread[w].job
             l == ListOf(o, j.status)
             a == IF row[l].ids = {j.status} THEN "write" ELSE "check"
  <2>2. /\ thread[w] # Idle /\ j \in Jobs /\ j.status \in Statuses /\ o \in Accounts
        /\ thread[w].todo \in SUBSET Accounts
    BY <1>2, NotIdle, ThreadCases, NextOwnerType DEF LoadToRemove, Loads, Jobs
  <2>3. l \in Lists /\ row[l] \in Rows
    BY <2>2, ListType DEF TypeOK
  <2>4. Holding(a, j, thread[w].todo, l, row[l]) \in Threads
    BY <2>2, <2>3, HoldingType
  <2>5. CASE j.status \notin row[l].ids
    BY <2>1, <2>2, <2>5, BackType, <1>2 DEF TypeOK, LoadToRemove
  <2>6. CASE j.status \in row[l].ids
    <3>1. thread' = [thread EXCEPT ![w] = Holding(a, j, thread[w].todo, l, row[l])]
      BY <2>1, <2>6
    <3> QED BY <3>1, <2>4, <1>2 DEF TypeOK, LoadToRemove
  <2> QED BY <2>5, <2>6
<1>3. CASE Check(w)
  <2>1. thread[w] \in Holds
    BY <1>3, ThreadCases DEF Check
  <2>2. [thread[w] EXCEPT !.at = "write"] \in Threads
    BY <2>1 DEF Holds, Threads
  <2> QED BY <1>3, <2>2 DEF TypeOK, Check
<1>4. CASE Refuse(w)
  BY <1>4, NotIdle, DoneType, BackType DEF TypeOK, Refuse
<1>5. CASE Insert(w)
  <2> DEFINE t == thread[w]
             f == Fill(NoRow, t.job.status, t.job.owner)
             r == [f EXCEPT !.id = lastId + 1]
  <2>1. t \in Holds /\ t.job.status \in Statuses /\ t.job.owner \in Accounts /\ t.list \in Lists
    BY <1>5, ThreadCases DEF Insert, Writing, Holds, Jobs
  <2>2. f \in Rows /\ f.ids # {}
    <3>1. f \in Rows /\ f.ids = NoRow.ids \cup {t.job.status}
      BY <2>1, FillType, NoRowType
    <3> QED BY <3>1
  <2>3. r \in Rows /\ r.ids # {}
    <3>1. lastId + 1 \in Nat
      BY DEF TypeOK
    <3> QED BY <2>2, <3>1, InsertedRow
  <2>4. row' = [row EXCEPT ![t.list] = r]
    BY <1>5 DEF Insert
  <2>5. row' \in [Lists -> Rows] /\ \A k \in Lists : row'[k].ids = {} => row'[k] = NoRow
    BY <2>1, <2>3, <2>4 DEF TypeOK
  <2> QED BY <1>5, <2>5, DoneType DEF TypeOK, Insert
<1>6. CASE InsertFails(w)
  BY <1>6, NotIdle, RequeueType DEF TypeOK, InsertFails, Writing
<1>7. CASE Update(w)
  <2> DEFINE t == thread[w]
             f == Fill(t.base, t.job.status, t.job.owner)
             r == [f EXCEPT !.version = @ + 1]
  <2>1. /\ t \in Holds /\ t.job.status \in Statuses /\ t.job.owner \in Accounts /\ t.list \in Lists
        /\ t.base \in Rows /\ t # Idle
    BY <1>7, ThreadCases, NotIdle DEF Update, Writing, Holds, Jobs
  <2>2. f \in Rows /\ f.ids # {}
    <3>1. t.base.ids \cup {t.job.status} # {}
      OBVIOUS
    <3> QED BY <2>1, <3>1, FillType
  <2>3. r \in Rows /\ r.ids # {}
    BY <2>2, UpdatedRow
  <2>4. CASE Fresh(w)
    <3>1. row' = [row EXCEPT ![t.list] = r]
      BY <1>7, <2>4 DEF Update
    <3>2. row' \in [Lists -> Rows] /\ \A k \in Lists : row'[k].ids = {} => row'[k] = NoRow
      BY <2>1, <2>3, <3>1 DEF TypeOK
    <3> QED BY <1>7, <2>4, <3>2, DoneType DEF TypeOK, Update
  <2>5. CASE ~ Fresh(w)
    BY <1>7, <2>1, <2>5, BackType DEF TypeOK, Update
  <2> QED BY <2>4, <2>5
<1>8. CASE Unlink(w)
  <2>1. thread[w] \in Holds /\ thread[w] # Idle /\ thread[w].list \in Lists
    BY <1>8, ThreadCases, NotIdle DEF Unlink, Writing, Holds
  <2>2. held' \in [Workers -> SUBSET Lists]
    BY <1>8, <2>1 DEF TypeOK, Unlink
  <2>3. thread' \in [Workers -> Threads]
    BY <1>8, <2>1, BackType DEF Unlink
  <2> QED BY <1>8, <2>2, <2>3 DEF TypeOK, Unlink
<1>9. CASE Commit(w)
  <2>0. thread[w] \in Loads /\ thread[w].job.status \in Statuses
    BY <1>9, ThreadCases DEF Commit, Loads, Jobs
  <2> DEFINE s == thread[w].job.status
  <2>1. ASSUME NEW l \in held[w] PROVE s \in row[l].ids /\ row[l] \in Rows
    BY DEF Locks, TypeOK
  <2>2. ASSUME NEW l \in Lists PROVE row'[l] \in Rows /\ (row'[l].ids = {} => row'[l] = NoRow)
    <3>1. CASE l \in held[w]
      BY <1>9, <2>0, <2>1, <3>1, WithoutType DEF Commit
    <3>2. CASE l \notin held[w]
      BY <1>9, <3>2 DEF Commit, TypeOK
    <3> QED BY <3>1, <3>2
  <2>3. row' \in [Lists -> Rows]
    BY <1>9, <2>2 DEF Commit
  <2>4. state' \in [Statuses -> {"unposted", "live", "doomed", "gone"}]
    BY <1>9 DEF TypeOK, Commit
  <2>5. held' \in [Workers -> SUBSET Lists]
    BY <1>9 DEF TypeOK, Commit
  <2> QED BY <1>9, <2>2, <2>3, <2>4, <2>5, DoneType DEF TypeOK, Commit
<1>10. CASE Abort(w)
  BY <1>10, NotIdle, RequeueType DEF TypeOK, Abort, Deadlocked, WaitsFor
<1> QED BY <1>1, <1>2, <1>3, <1>4, <1>5, <1>6, <1>7, <1>8, <1>9, <1>10 DEF Step

-----------------------------------------------------------------------------
(* What a step does to the threads *)

\* No other thread moves
OnlyThread(w) == thread' = [thread EXCEPT ![w] = thread'[w]]

\* It has just read the row
Copied(w) ==
  LET t == thread'[w] IN
  /\ t.at \in {"check", "write"}
  /\ t.list \in Lists
  /\ t.base = row[t.list]
  /\ t.job.kind = "add" =>
       t.job.status \notin t.base.ids /\ t.list = ListOf(t.job.owner, t.job.status)
  /\ t.job.kind = "remove" =>
       t.job.status \in t.base.ids /\ \E o \in NextOwners(w) : t.list = ListOf(o, t.job.status)
  /\ t.todo = thread[w].todo \/ t.job.kind = "add"

\* It goes on with the copy it has
Kept(w) ==
  /\ thread[w].at = "check"
  /\ thread'[w].at = "write"
  /\ thread'[w].list = thread[w].list
  /\ thread'[w].base = thread[w].base
  /\ thread'[w].todo = thread[w].todo

\* It has written its status into the list it holds
Added(w) ==
  LET t == thread[w] IN
  /\ row'[t.list].ids = row[t.list].ids \cup {t.job.status}
  /\ \A l \in Lists : l # t.list => row'[l] = row[l]

LEMMA DoneThread ==
  ASSUME TypeOK, NEW w \in Workers, Done(w)
  PROVE  OnlyThread(w) /\ thread'[w] = Idle
BY DEF TypeOK, Done, OnlyThread

LEMMA BackThread ==
  ASSUME TypeOK, NEW w \in Workers, thread[w] # Idle, NEW o, Reload(w) \/ Skip(w, o)
  PROVE  /\ OnlyThread(w) /\ thread'[w].job = thread[w].job /\ thread'[w].at = "load"
         /\ thread'[w] # Idle
         /\ Reload(w) => thread'[w].todo = thread[w].todo
         /\ Skip(w, o) => thread'[w].todo = thread[w].todo \ {o}
<1>1. thread[w].job \in Jobs /\ thread[w].todo \in SUBSET Accounts
  BY ThreadCases
<1>2. CASE Reload(w)
  <2>1. thread'[w] = Loading(thread[w].job, thread[w].todo) /\ OnlyThread(w)
    BY <1>2 DEF TypeOK, Reload, OnlyThread
  <2>2. Skip(w, o) => thread'[w] = Loading(thread[w].job, thread[w].todo \ {o})
    BY DEF TypeOK, Skip
  <2> QED BY <1>1, <1>2, <2>1, <2>2, LoadingType
<1>3. CASE Skip(w, o)
  <2>1. thread'[w] = Loading(thread[w].job, thread[w].todo \ {o}) /\ OnlyThread(w)
    BY <1>3 DEF TypeOK, Skip, OnlyThread
  <2>2. Reload(w) => thread'[w] = Loading(thread[w].job, thread[w].todo)
    BY DEF TypeOK, Reload
  <2> QED BY <1>1, <1>3, <2>1, <2>2, LoadingType
<1> QED BY <1>2, <1>3

LEMMA LoadToAddThread ==
  ASSUME TypeOK, NEW w \in Workers, LoadToAdd(w)
  PROVE  /\ OnlyThread(w)
         /\ \/ /\ thread'[w] = Idle
               /\ thread[w].job.status \in row[ListOf(thread[w].job.owner, thread[w].job.status)].ids
            \/ thread'[w] # Idle /\ thread'[w].job = thread[w].job /\ Copied(w)
<1> DEFINE j == thread[w].job
           l == ListOf(j.owner, j.status)
<1>1. j \in Jobs /\ j.owner \in Accounts /\ j.status \in Statuses /\ j.kind = "add"
  BY ThreadCases DEF LoadToAdd, Loads, Jobs
<1>2. l \in Lists /\ row[l] \in Rows
  BY <1>1, ListType DEF TypeOK
<1>3. CASE j.status \in row[l].ids
  BY <1>3, DoneThread DEF LoadToAdd
<1>4. CASE j.status \notin row[l].ids
  <2> DEFINE h == Holding("check", j, {j.owner}, l, row[l])
  <2>1. /\ h # Idle /\ h.job = j /\ h.at = "check" /\ h.list = l /\ h.base = row[l]
    BY <1>1, <1>2, HoldingType
  <2>2. thread' = [thread EXCEPT ![w] = h]
    BY <1>4 DEF LoadToAdd
  <2> HIDE DEF h
  <2>3. thread'[w] = h /\ OnlyThread(w)
    BY <2>2 DEF TypeOK, OnlyThread
  <2>4. Copied(w)
    BY <1>1, <1>2, <1>4, <2>1, <2>3 DEF Copied
  <2> QED BY <2>1, <2>3, <2>4
<1> QED BY <1>3, <1>4

LEMMA LoadToRemoveThread ==
  ASSUME TypeOK, NEW w \in Workers, LoadToRemove(w)
  PROVE  /\ OnlyThread(w) /\ thread'[w] # Idle /\ thread'[w].job = thread[w].job
         /\ \/ \E o \in NextOwners(w) :
                 /\ Skip(w, o) /\ thread'[w].at = "load"
                 /\ thread[w].job.status \notin row[ListOf(o, thread[w].job.status)].ids
            \/ Copied(w)
<1>1. PICK o \in NextOwners(w) :
        LET j == thread[w].job
            l == ListOf(o, j.status)
        IN IF j.status \notin row[l].ids THEN Skip(w, o)
           ELSE thread' = [thread EXCEPT ![w] =
                  Holding(IF row[l].ids = {j.status} THEN "write" ELSE "check",
                          j, @.todo, l, row[l])]
  BY DEF LoadToRemove
<1> DEFINE j == thread[w].job
           l == ListOf(o, j.status)
           a == IF row[l].ids = {j.status} THEN "write" ELSE "check"
<1>2. /\ thread[w] # Idle /\ j \in Jobs /\ j.status \in Statuses /\ o \in Accounts
      /\ thread[w].todo \in SUBSET Accounts /\ j.kind = "remove"
  BY NotIdle, ThreadCases, NextOwnerType DEF LoadToRemove, Loads, Jobs
<1>3. l \in Lists /\ row[l] \in Rows
  BY <1>2, ListType DEF TypeOK
<1>4. CASE j.status \notin row[l].ids
  <2>1. Skip(w, o)
    BY <1>1, <1>4
  <2> QED BY <1>1, <1>2, <1>4, <2>1, BackThread
<1>5. CASE j.status \in row[l].ids
  <2> DEFINE h == Holding(a, j, thread[w].todo, l, row[l])
  <2>1. /\ h # Idle /\ h.job = j /\ h.at \in {"check", "write"} /\ h.list = l /\ h.base = row[l]
        /\ h.todo = thread[w].todo
    BY <1>2, <1>3, HoldingType
  <2>2. thread' = [thread EXCEPT ![w] = h]
    BY <1>1, <1>5
  <2> HIDE DEF h
  <2>3. thread'[w] = h /\ OnlyThread(w)
    BY <2>2 DEF TypeOK, OnlyThread
  <2>4. Copied(w)
    BY <1>1, <1>2, <1>3, <1>5, <2>1, <2>3 DEF Copied
  <2> QED BY <2>1, <2>3, <2>4
<1> QED BY <1>4, <1>5

LEMMA CheckThread ==
  ASSUME TypeOK, NEW w \in Workers, Check(w)
  PROVE  OnlyThread(w) /\ thread'[w] # Idle /\ thread'[w].job = thread[w].job /\ Kept(w)
<1> DEFINE h == [thread[w] EXCEPT !.at = "write"]
<1>1. thread[w] \in Holds
  BY ThreadCases DEF Check
<1>2. /\ h.at = "write" /\ h.job = thread[w].job /\ h.list = thread[w].list
      /\ h.base = thread[w].base /\ h.todo = thread[w].todo
  BY <1>1 DEF Holds
<1>3. h # Idle
  BY <1>2 DEF Idle
<1>4. thread' = [thread EXCEPT ![w] = h]
  BY DEF Check
<1> HIDE DEF h
<1>5. thread'[w] = h /\ OnlyThread(w)
  BY <1>4 DEF TypeOK, OnlyThread
<1> QED BY <1>2, <1>3, <1>5 DEF Kept, Check

LEMMA BeginThread ==
  ASSUME TypeOK, NEW w \in Workers, NEW j \in queue, Begin(w, j)
  PROVE  /\ OnlyThread(w) /\ thread[w] = Idle /\ thread'[w] # Idle
         /\ thread'[w].job = j /\ thread'[w].at = "load" /\ thread'[w].todo = OwnersOf(j)
<1> DEFINE h == Loading(j, OwnersOf(j))
<1>1. j \in Jobs /\ OwnersOf(j) \in SUBSET Accounts
  BY DEF TypeOK, Jobs, OwnersOf
<1>2. h # Idle /\ h.job = j /\ h.at = "load" /\ h.todo = OwnersOf(j)
  BY <1>1, LoadingType
<1>3. thread' = [thread EXCEPT ![w] = h]
  BY DEF Begin
<1> HIDE DEF h
<1> QED BY <1>2, <1>3 DEF TypeOK, Begin, OnlyThread

-----------------------------------------------------------------------------
(* Rows and the copies of them *)

\* Ids and versions tell rows apart
RowIds ==
  \A l \in Lists : row[l].id <= lastId /\ (row[l].id = 0 <=> row[l] = NoRow)

Copy(w) ==
  LET t == thread[w] IN
  /\ t.base.id <= lastId
  /\ t.base.id = 0 => t.base = NoRow
  /\ t.base.id = row[t.list].id => t.base.version <= row[t.list].version
  /\ Fresh(w) => t.base = row[t.list]

\* A copy whose version is still the row's is the row
Copies == \A w \in Workers : thread[w].at \in {"check", "write"} => Copy(w)

\* What a thread that has a copy is going to do with it
Aims ==
  \A w \in Workers :
    LET t == thread[w] IN
    t.at \in {"check", "write"} =>
      /\ t.job.kind = "add" => t.job.status \notin t.base.ids /\ t.list[1] = t.job.owner
      /\ t.job.kind = "remove" => t.job.status \in t.base.ids

Safe == TypeOK /\ Locks /\ RowIds /\ Copies /\ Aims

\* How a row may change
RowStep(l) ==
  \/ row'[l] = row[l]
  \/ /\ row'[l].id = row[l].id /\ row'[l].version = row[l].version + 1
     /\ row[l] # NoRow /\ row'[l] # NoRow
  \/ row'[l] = NoRow
  \/ row[l] = NoRow /\ row'[l].id = lastId' /\ lastId' = lastId + 1 /\ row'[l] # NoRow

RowSteps == lastId' \in {lastId, lastId + 1} /\ \A l \in Lists : RowStep(l)

LEMMA RowIdsStep ==
  ASSUME TypeOK, RowIds, RowSteps
  PROVE  RowIds'
<1> SUFFICES ASSUME NEW l \in Lists
             PROVE  row'[l].id <= lastId' /\ (row'[l].id = 0 <=> row'[l] = NoRow)
  BY DEF RowIds
<1>1. row[l] \in Rows /\ row[l].id \in Nat /\ lastId \in Nat /\ lastId' \in {lastId, lastId + 1}
  BY DEF TypeOK, Rows, RowSteps
<1>2. row[l].id <= lastId /\ (row[l].id = 0 <=> row[l] = NoRow)
  BY DEF RowIds
<1>3. NoRow.id = 0
  BY DEF NoRow
<1> QED BY <1>1, <1>2, <1>3 DEF RowSteps, RowStep

\* A thread that does not move keeps what is true of its copy
LEMMA CopyStep ==
  ASSUME TypeOK, RowIds, RowSteps, NEW w \in Workers,
         thread[w].at \in {"check", "write"}, Copy(w),
         thread'[w].list = thread[w].list, thread'[w].base = thread[w].base
  PROVE  Copy(w)'
<1> DEFINE b == thread[w].base
           l == thread[w].list
<1>1. l \in Lists /\ b \in Rows
  BY ThreadCases DEF Holds
<1>2. /\ row[l].id \in Nat /\ row[l].version \in Nat /\ lastId \in Nat
      /\ b.id \in Nat /\ b.version \in Nat
  BY <1>1 DEF TypeOK, Rows
<1>3. lastId' \in {lastId, lastId + 1} /\ RowStep(l)
  BY <1>1 DEF RowSteps
<1>4. /\ b.id <= lastId /\ (b.id = 0 => b = NoRow)
      /\ (b.id = row[l].id => b.version <= row[l].version)
      /\ (b.id = row[l].id /\ b.version = row[l].version => b = row[l])
  BY DEF Copy, Fresh
<1>5. /\ row[l].id <= lastId /\ (row[l].id = 0 <=> row[l] = NoRow)
      /\ NoRow.id = 0 /\ NoRow.version = 0
  BY <1>1 DEF RowIds, NoRow
<1>6. /\ b.id <= lastId' /\ (b.id = 0 => b = NoRow)
      /\ (b.id = row'[l].id => b.version <= row'[l].version)
      /\ (b.id = row'[l].id /\ b.version = row'[l].version => b = row'[l])
  <2>1. CASE row'[l] = row[l]
    BY <1>2, <1>3, <1>4, <2>1
  <2>2. CASE row'[l].id = row[l].id /\ row'[l].version = row[l].version + 1 /\ row[l] # NoRow
    BY <1>2, <1>3, <1>4, <1>5, <2>2
  <2>3. CASE row'[l] = NoRow
    BY <1>2, <1>3, <1>4, <1>5, <2>3
  <2>4. CASE row[l] = NoRow /\ row'[l].id = lastId' /\ lastId' = lastId + 1
    BY <1>2, <1>3, <1>4, <1>5, <2>4
  <2> QED BY <1>3, <2>1, <2>2, <2>3, <2>4 DEF RowStep
<1> QED BY <1>6 DEF Copy, Fresh

LEMMA NewCopy ==
  ASSUME TypeOK, RowIds, NEW w \in Workers, Copied(w), UNCHANGED <<row, lastId>>
  PROVE  Copy(w)'
<1> DEFINE l == thread'[w].list
<1>1. l \in Lists /\ thread'[w].base = row[l]
  BY DEF Copied
<1>2. row[l].version \in Nat /\ row[l].id <= lastId /\ (row[l].id = 0 => row[l] = NoRow)
  BY <1>1 DEF TypeOK, Rows, RowIds
<1> QED BY <1>1, <1>2 DEF Copy, Fresh

-----------------------------------------------------------------------------
(* Every change of a row, and the operation of the list it is *)

ShownIds    == [l \in Lists |-> row[l].ids]
ShownUnread == [l \in Lists |-> row[l].unread]

LEMMA ReadRows ==
  ASSUME Safe, NEW l \in Lists, Read(l)
  PROVE  RowSteps /\ List!Read(l)
<1> DEFINE x == [row[l] EXCEPT !.unread = FALSE, !.version = @ + 1]
<1>1. row[l] \in Rows /\ row[l].ids # {} /\ row[l] # NoRow
  BY DEF Safe, TypeOK, Read, Request
<1>2. /\ x \in Rows /\ x.ids = row[l].ids /\ x.id = row[l].id
      /\ x.version = row[l].version + 1 /\ x.unread = FALSE
  BY <1>1, ReadRow
<1>3. row' = [row EXCEPT ![l] = x] /\ lastId' = lastId
  BY DEF Read, Request
<1>4. x # NoRow
  BY <1>1, <1>2 DEF NoRow
<1> HIDE DEF x
<1>5. row'[l] = x /\ \A k \in Lists : k # l => row'[k] = row[k]
  BY <1>3 DEF Safe, TypeOK
<1>6. RowSteps
  BY <1>1, <1>2, <1>3, <1>4, <1>5 DEF RowSteps, RowStep
<1>7. ShownIds' = ShownIds
  BY <1>2, <1>5 DEF ShownIds
<1>8. ShownUnread' = [ShownUnread EXCEPT ![l] = FALSE]
  BY <1>2, <1>5 DEF ShownUnread
<1> QED BY <1>6, <1>7, <1>8 DEF List!Read, ShownIds, ShownUnread

LEMMA DismissRows ==
  ASSUME Safe, NEW l \in Lists, Dismiss(l)
  PROVE  RowSteps /\ List!Dismiss(l)
<1>1. row'[l] = NoRow /\ lastId' = lastId /\ \A k \in Lists : k # l => row'[k] = row[k]
  BY DEF Safe, TypeOK, Dismiss, Request
<1>2. NoRow.ids = {} /\ NoRow.unread = FALSE
  BY DEF NoRow
<1>3. RowSteps
  BY <1>1 DEF RowSteps, RowStep
<1>4. ShownIds' = [ShownIds EXCEPT ![l] = {}]
  BY <1>1, <1>2 DEF ShownIds
<1>5. ShownUnread' = [ShownUnread EXCEPT ![l] = FALSE]
  BY <1>1, <1>2 DEF ShownUnread
<1> QED BY <1>3, <1>4, <1>5 DEF List!Dismiss, ShownIds, ShownUnread

\* Both ways of adding a status end up here
LEMMA AddRow ==
  ASSUME NEW l \in Lists, NEW s \in Statuses, s \notin row[l].ids,
         row'[l].ids = row[l].ids \cup {s}, row'[l].unread = (Author[s] # l[1]),
         \A k \in Lists : k # l => row'[k] = row[k]
  PROVE  List!Add(l, s)
<1>1. ShownIds' = [ShownIds EXCEPT ![l] = @ \cup {s}]
  BY DEF ShownIds
<1>2. ShownUnread' = [ShownUnread EXCEPT ![l] = Author[s] # l[1]]
  BY DEF ShownUnread
<1>3. s \notin ShownIds[l]
  BY DEF ShownIds
<1> QED BY <1>1, <1>2, <1>3 DEF List!Add, ShownIds, ShownUnread

LEMMA InsertRows ==
  ASSUME Safe, NEW w \in Workers, Insert(w)
  PROVE  RowSteps /\ Added(w) /\ \E l \in Lists, s \in Statuses : List!Add(l, s)
<1>1. PICK l \in Lists, s \in Statuses, o \in Accounts :
        l = thread[w].list /\ s = thread[w].job.status /\ o = thread[w].job.owner /\ l[1] = o
  <2>1. thread[w] \in Holds /\ thread[w].job.kind = "add"
    BY ThreadCases DEF Safe, Insert, Writing
  <2> QED BY <2>1 DEF Holds, Jobs, Safe, Aims
<1> DEFINE f == Fill(NoRow, s, o)
           x == [f EXCEPT !.id = lastId + 1]
<1>2. f \in Rows /\ f.ids = NoRow.ids \cup {s} /\ f.unread = (Author[s] # o)
  BY <1>1, FillType, NoRowType
<1>3. lastId + 1 \in Nat
  BY DEF Safe, TypeOK
<1> HIDE DEF f
<1>4. x.ids = {s} /\ x.unread = (Author[s] # o) /\ x.id = lastId + 1
  BY <1>2, <1>3, InsertedRow DEF NoRow
<1>5. row' = [row EXCEPT ![l] = x] /\ lastId' = lastId + 1 /\ row[l] = NoRow
  BY <1>1 DEF Insert, f
<1>6. x # NoRow
  BY <1>4 DEF NoRow
<1> HIDE DEF x
<1>7. row'[l] = x /\ \A k \in Lists : k # l => row'[k] = row[k]
  BY <1>1, <1>5 DEF Safe, TypeOK
<1>8. RowSteps
  BY <1>4, <1>5, <1>6, <1>7 DEF RowSteps, RowStep
<1>9. row[l].ids = {}
  BY <1>5 DEF NoRow
<1>10. row'[l].ids = row[l].ids \cup {s} /\ row'[l].unread = (Author[s] # l[1]) /\ s \notin row[l].ids
  BY <1>1, <1>4, <1>7, <1>9
<1>11. Added(w)
  BY <1>1, <1>7, <1>10 DEF Added
<1> QED BY <1>1, <1>7, <1>8, <1>10, <1>11, AddRow

LEMMA UpdateRows ==
  ASSUME Safe, NEW w \in Workers, Update(w), Fresh(w)
  PROVE  RowSteps /\ Added(w) /\ \E l \in Lists, s \in Statuses : List!Add(l, s)
<1>1. PICK l \in Lists, s \in Statuses, o \in Accounts :
      /\ l = thread[w].list /\ s = thread[w].job.status /\ o = thread[w].job.owner /\ l[1] = o
      /\ s \notin thread[w].base.ids /\ thread[w].base = row[l] /\ row[l] # NoRow
  <2>1. thread[w] \in Holds /\ thread[w].job.kind = "add" /\ thread[w].at = "write"
    BY ThreadCases DEF Safe, Update, Writing
  <2>2. Copy(w)
    BY <2>1 DEF Safe, Copies
  <2> QED BY <2>1, <2>2 DEF Holds, Jobs, Safe, Aims, Copy, Update
<1> DEFINE f == Fill(row[l], s, o)
           x == [f EXCEPT !.version = @ + 1]
<1>2. row[l] \in Rows
  BY <1>1 DEF Safe, TypeOK
<1>3. /\ f \in Rows /\ f.ids = row[l].ids \cup {s} /\ f.unread = (Author[s] # o)
      /\ f.id = row[l].id /\ f.version = row[l].version
  BY <1>1, <1>2, FillType
<1> HIDE DEF f
<1>4. /\ x.ids = row[l].ids \cup {s} /\ x.unread = (Author[s] # o)
      /\ x.id = row[l].id /\ x.version = row[l].version + 1
  BY <1>3, UpdatedRow
<1>5. row' = [row EXCEPT ![l] = x] /\ lastId' = lastId
  BY <1>1 DEF Update, f
<1>6. x # NoRow
  BY <1>4 DEF NoRow
<1> HIDE DEF x
<1>7. row'[l] = x /\ \A k \in Lists : k # l => row'[k] = row[k]
  BY <1>1, <1>5 DEF Safe, TypeOK
<1>8. RowSteps
  BY <1>1, <1>4, <1>5, <1>6, <1>7 DEF RowSteps, RowStep
<1>9. row'[l].ids = row[l].ids \cup {s} /\ row'[l].unread = (Author[s] # l[1]) /\ s \notin row[l].ids
  BY <1>1, <1>4, <1>7
<1>10. Added(w)
  BY <1>1, <1>7, <1>9 DEF Added
<1> QED BY <1>1, <1>7, <1>8, <1>9, <1>10, AddRow

LEMMA CommitRows ==
  ASSUME Safe, NEW w \in Workers, Commit(w)
  PROVE  RowSteps /\ (\A l \in Lists : row'[l].ids \subseteq row[l].ids) /\ \E L \in SUBSET Lists, s \in Statuses : List!Remove(L, s)
<1>1. PICK L \in SUBSET Lists, s \in Statuses : L = held[w] /\ s = thread[w].job.status
  BY ThreadCases DEF Safe, TypeOK, Commit, Loads, Jobs
<1>2. \A l \in Lists : l \notin L => row'[l] = row[l]
  BY <1>1 DEF Commit
<1>3. ASSUME NEW l \in L
      PROVE  /\ s \in row[l].ids /\ row'[l].ids = row[l].ids \ {s}
             /\ row'[l].unread = (row[l].unread /\ row[l].ids # {s})
             /\ RowStep(l)
  <2>1. s \in row[l].ids /\ row[l] \in Rows /\ row'[l] = Without(row[l], s)
    BY <1>1 DEF Safe, Locks, TypeOK, Commit
  <2>2. /\ Without(row[l], s).ids = row[l].ids \ {s}
        /\ Without(row[l], s).unread = (row[l].unread /\ row[l].ids # {s})
        /\ row[l].ids # {s} => Without(row[l], s).id = row[l].id
                                /\ Without(row[l], s).version = row[l].version + 1
    BY <1>1, <2>1, WithoutType
  <2>3. RowStep(l)
    <3>1. CASE row[l].ids = {s}
      BY <2>1, <3>1 DEF RowStep, Without
    <3>2. CASE row[l].ids # {s}
      <4>1. row[l] # NoRow /\ row'[l] # NoRow
        BY <2>1, <2>2, <3>2 DEF NoRow
      <4> QED BY <2>1, <2>2, <3>2, <4>1 DEF RowStep
    <3> QED BY <3>1, <3>2
  <2> QED BY <2>1, <2>2, <2>3
<1>4. RowSteps
  BY <1>2, <1>3 DEF RowSteps, RowStep, Commit
<1>5. ShownIds' = [l \in Lists |-> IF l \in L THEN ShownIds[l] \ {s} ELSE ShownIds[l]]
  BY <1>1, <1>2, <1>3 DEF ShownIds
<1>6. ShownUnread' = [l \in Lists |-> ShownUnread[l] /\ ~ (l \in L /\ ShownIds[l] = {s})]
  <2>1. ASSUME NEW l \in Lists
        PROVE  row'[l].unread = (row[l].unread /\ ~ (l \in L /\ row[l].ids = {s}))
    <3>0. row[l].unread \in BOOLEAN
      BY DEF Safe, TypeOK, Rows
    <3>1. CASE l \in L
      BY <1>3, <3>1
    <3>2. CASE l \notin L
      BY <1>2, <3>0, <3>2
    <3> QED BY <3>1, <3>2
  <2> QED BY <2>1 DEF ShownIds, ShownUnread
<1>7. \A l \in L : s \in ShownIds[l]
  BY <1>1, <1>3 DEF ShownIds
<1>8. \A l \in Lists : row'[l].ids \subseteq row[l].ids
  BY <1>2, <1>3
<1> QED BY <1>4, <1>5, <1>6, <1>7, <1>8 DEF List!Remove, ShownIds, ShownUnread

LEMMA StepRows ==
  ASSUME Safe, NEW w \in Workers, Step(w)
  PROVE  RowSteps /\ (List!Next \/ UNCHANGED row)
<1>1. CASE Insert(w)
  BY <1>1, InsertRows DEF List!Next
<1>2. CASE Update(w) /\ Fresh(w)
  BY <1>2, UpdateRows DEF List!Next
<1>3. CASE Commit(w)
  BY <1>3, CommitRows DEF List!Next
<1>4. CASE UNCHANGED <<row, lastId>>
  BY <1>4 DEF RowSteps, RowStep
<1> QED
  BY <1>1, <1>2, <1>3, <1>4
  DEF Step, LoadToAdd, LoadToRemove, Check, Refuse, InsertFails, Update, Unlink, Abort

LEMMA RowsStep ==
  ASSUME Safe, Next
  PROVE  RowSteps /\ (List!Next \/ UNCHANGED row)
<1>1. ASSUME NEW l \in Lists, Read(l) \/ Dismiss(l) PROVE RowSteps /\ List!Next
  BY <1>1, ReadRows, DismissRows DEF List!Next
<1>2. CASE UNCHANGED <<row, lastId>>
  BY <1>2 DEF RowSteps, RowStep
<1>3. ASSUME NEW w \in Workers, Step(w) PROVE RowSteps /\ (List!Next \/ UNCHANGED row)
  BY <1>3, StepRows
<1> QED
  BY <1>1, <1>2, <1>3 DEF Next, Post, Delete, Fetch, Discard, Begin, Shutdown

-----------------------------------------------------------------------------
(* The locks *)

LEMMA LocksKept ==
  ASSUME Safe, UNCHANGED <<thread, held>>,
         \A l \in Lists : Locked(l) => row'[l] = row[l]
  PROVE  Locks'
BY DEF Safe, TypeOK, Locks, Locked

LEMMA LocksMoved ==
  ASSUME Safe, NEW w \in Workers, OnlyThread(w),
         \A v \in Workers \ {w} : held'[v] = held[v],
         \A v \in Workers \ {w} : \A l \in held[v] : row'[l] = row[l],
         \A l \in held'[w] :
           /\ thread'[w] # Idle /\ thread'[w].job.kind = "remove"
           /\ thread'[w].job.status \in row'[l].ids
           /\ \A v \in Workers \ {w} : l \notin held[v]
  PROVE  Locks'
<1>1. \A v \in Workers \ {w} : thread'[v] = thread[v]
  BY DEF OnlyThread, Safe, TypeOK
<1> SUFFICES ASSUME NEW v \in Workers, NEW l \in held'[v]
             PROVE  /\ thread'[v] # Idle /\ thread'[v].job.kind = "remove"
                    /\ thread'[v].job.status \in row'[l].ids
                    /\ \A u \in Workers : l \in held'[u] => u = v
  BY DEF Locks
<1>2. CASE v = w
  BY <1>2
<1>3. CASE v # w
  <2>1. l \in held[v] /\ row'[l] = row[l] /\ thread'[v] = thread[v]
    BY <1>1, <1>3
  <2>2. \A u \in Workers : l \in held[u] => u = v
    BY <2>1 DEF Safe, Locks
  <2>3. \A u \in Workers : l \in held'[u] => u = v
    BY <1>3, <2>1, <2>2
  <2> QED BY <2>1, <2>3 DEF Safe, Locks
<1> QED BY <1>2, <1>3

\* A thread without locks may do to its own state what it likes
LEMMA LocksOfNone ==
  ASSUME Safe, NEW w \in Workers, OnlyThread(w), UNCHANGED held,
         thread[w] = Idle \/ thread[w].job.kind = "add",
         \A l \in Lists : Locked(l) => row'[l] = row[l]
  PROVE  Locks'
<1>1. held[w] = {}
  BY DEF Safe, Locks
<1>2. \A v \in Workers : \A l \in held[v] : row'[l] = row[l]
  BY DEF Safe, TypeOK, Locked
<1> QED BY <1>1, <1>2, LocksMoved

\* A thread that goes on with the same job
LEMMA LocksOfSame ==
  ASSUME Safe, NEW w \in Workers, OnlyThread(w), UNCHANGED <<held, row>>,
         thread'[w] # Idle, thread'[w].job = thread[w].job
  PROVE  Locks'
BY LocksMoved DEF Safe, Locks

LEMMA LocksReleased ==
  ASSUME Safe, NEW w \in Workers, OnlyThread(w), held' = [held EXCEPT ![w] = {}],
         \A v \in Workers \ {w} : \A l \in held[v] : row'[l] = row[l]
  PROVE  Locks'
BY LocksMoved DEF Safe, TypeOK

LEMMA LocksStep ==
  ASSUME Safe, Next
  PROVE  Locks'
<1>1. ASSUME NEW s \in Statuses, Post(s) \/ Delete(s) PROVE Locks'
  BY <1>1, LocksKept DEF Post, Delete
<1>2. ASSUME NEW l \in Lists, Read(l) \/ Dismiss(l) PROVE Locks'
  BY <1>2, LocksKept DEF Read, Dismiss, Request, Safe, TypeOK
<1>3. CASE Fetch
  <2>1. ASSUME NEW j \in queue, Discard(j) PROVE Locks'
    BY <2>1, LocksKept DEF Discard
  <2>2. ASSUME NEW j \in queue, NEW w \in Workers, Begin(w, j) PROVE Locks'
    BY <2>2, LocksOfNone, BeginThread DEF Begin, Safe
  <2> QED BY <1>3, <2>1, <2>2 DEF Fetch
<1>4. ASSUME NEW w \in Workers, Step(w) PROVE Locks'
  <2>1. CASE LoadToAdd(w)
    BY <2>1, LoadToAddThread, LocksOfNone DEF LoadToAdd, Safe
  <2>2. CASE LoadToRemove(w)
    BY <2>2, LoadToRemoveThread, LocksOfSame DEF LoadToRemove, Safe
  <2>3. CASE Check(w)
    BY <2>3, CheckThread, LocksOfSame DEF Check, Safe
  <2>4. CASE Refuse(w)
    <3>1. CASE thread[w].job.kind = "add"
      BY <2>4, <3>1, DoneThread, LocksOfNone DEF Refuse, Safe
    <3>2. CASE thread[w].job.kind # "add"
      BY <2>4, <3>2, NotIdle, BackThread, LocksOfSame DEF Refuse, Safe
    <3> QED BY <3>1, <3>2
  <2>5. CASE Insert(w)
    BY <2>5, DoneThread, LocksOfNone DEF Insert, Writing, Safe, TypeOK
  <2>6. CASE InsertFails(w)
    BY <2>6, DoneThread, LocksReleased DEF InsertFails, Requeue, Safe
  <2>7. CASE Update(w)
    <3>1. CASE Fresh(w)
      BY <2>7, <3>1, DoneThread, LocksOfNone DEF Update, Writing, Safe, TypeOK
    <3>2. CASE ~ Fresh(w)
      BY <2>7, <3>2, NotIdle, BackThread, LocksOfSame DEF Update, Writing, Safe
    <3> QED BY <3>1, <3>2
  <2>8. CASE Unlink(w)
    <3>0. thread[w] # Idle /\ thread[w].at = "write" /\ thread[w].job.kind = "remove" /\ UNCHANGED row
      BY <2>8, NotIdle DEF Unlink, Writing, Safe
    <3>1. CASE Fresh(w)
      <4> DEFINE l == thread[w].list
      <4>1. held' = [held EXCEPT ![w] = @ \cup {l}] /\ OnlyThread(w)
            /\ thread'[w] # Idle /\ thread'[w].job = thread[w].job
        BY <2>8, <3>0, <3>1, BackThread DEF Unlink, Safe
      <4>2. thread[w].job.status \in row[l].ids
        BY <3>0, <3>1 DEF Safe, Copies, Copy, Aims
      <4>3. \A v \in Workers : l \notin held[v]
        BY <2>8 DEF Unlink, Writing, Locked
      <4>4. ASSUME NEW k \in held'[w]
            PROVE  /\ thread'[w] # Idle /\ thread'[w].job.kind = "remove"
                   /\ thread'[w].job.status \in row'[k].ids
                   /\ \A v \in Workers \ {w} : k \notin held[v]
        BY <3>0, <4>1, <4>2, <4>3 DEF Safe, TypeOK, Locks
      <4>5. \A v \in Workers \ {w} : held'[v] = held[v]
        BY <4>1 DEF Safe, TypeOK
      <4> QED BY <3>0, <4>1, <4>4, <4>5, LocksMoved
    <3>2. CASE ~ Fresh(w)
      BY <2>8, <3>0, <3>2, BackThread, LocksOfSame DEF Unlink, Safe
    <3> QED BY <3>1, <3>2
  <2>9. CASE Commit(w)
    <3>1. \A v \in Workers \ {w} : \A l \in held[v] : row'[l] = row[l]
      BY <2>9 DEF Commit, Safe, TypeOK, Locks
    <3> QED BY <2>9, <3>1, DoneThread, LocksReleased DEF Commit, Safe
  <2>10. CASE Abort(w)
    BY <2>10, DoneThread, LocksReleased DEF Abort, Requeue, Safe
  <2> QED BY <1>4, <2>1, <2>2, <2>3, <2>4, <2>5, <2>6, <2>7, <2>8, <2>9, <2>10 DEF Step
<1>5. ASSUME NEW w \in Workers, Shutdown(w) PROVE Locks'
  BY <1>5, DoneThread, LocksReleased DEF Shutdown, Requeue, Safe
<1> QED BY <1>1, <1>2, <1>3, <1>4, <1>5 DEF Next

-----------------------------------------------------------------------------
(* The copies *)

Aim(w) ==
  LET t == thread[w] IN
  /\ t.job.kind = "add" => t.job.status \notin t.base.ids /\ t.list[1] = t.job.owner
  /\ t.job.kind = "remove" => t.job.status \in t.base.ids

LEMMA CopiesKept ==
  ASSUME Safe, RowSteps, UNCHANGED thread
  PROVE  Copies' /\ Aims'
<1>1. Aims'
  BY DEF Safe, Aims
<1> SUFFICES ASSUME NEW v \in Workers, thread'[v].at \in {"check", "write"} PROVE Copy(v)'
  BY <1>1 DEF Copies
<1> QED BY CopyStep DEF Safe, Copies

LEMMA CopiesMoved ==
  ASSUME Safe, RowSteps, NEW w \in Workers, OnlyThread(w),
         thread'[w].at \in {"check", "write"} => Copy(w)' /\ Aim(w)'
  PROVE  Copies' /\ Aims'
<1>1. \A v \in Workers \ {w} : thread'[v] = thread[v]
  BY DEF OnlyThread, Safe, TypeOK
<1>2. Aims'
  BY <1>1 DEF Safe, Aims, Aim
<1> SUFFICES ASSUME NEW v \in Workers, thread'[v].at \in {"check", "write"} PROVE Copy(v)'
  BY <1>2 DEF Copies
<1>3. CASE v = w
  BY <1>3
<1>4. CASE v # w
  BY <1>1, <1>4, CopyStep DEF Safe, Copies
<1> QED BY <1>3, <1>4

LEMMA CopiesDropped ==
  ASSUME Safe, RowSteps, NEW w \in Workers, OnlyThread(w),
         thread'[w] = Idle \/ thread'[w].at = "load"
  PROVE  Copies' /\ Aims'
<1>1. Idle.at = "idle"
  BY DEF Idle
<1> QED BY <1>1, CopiesMoved

LEMMA CopiesStep ==
  ASSUME Safe, Next
  PROVE  Copies' /\ Aims'
<1>0. RowSteps
  BY RowsStep
<1>1. CASE UNCHANGED thread
  BY <1>0, <1>1, CopiesKept
<1>2. ASSUME NEW j \in queue, NEW w \in Workers, Begin(w, j) PROVE Copies' /\ Aims'
  BY <1>0, <1>2, BeginThread, CopiesDropped DEF Safe
<1>3. ASSUME NEW w \in Workers, Done(w) PROVE Copies' /\ Aims'
  BY <1>0, <1>3, DoneThread, CopiesDropped DEF Safe
<1>4. ASSUME NEW w \in Workers, thread[w] # Idle, NEW o, Reload(w) \/ Skip(w, o) PROVE Copies' /\ Aims'
  BY <1>0, <1>4, BackThread, CopiesDropped DEF Safe
<1>5. ASSUME NEW w \in Workers, Step(w) PROVE Copies' /\ Aims'
  <2>1. CASE LoadToAdd(w)
    <3>1. OnlyThread(w) /\ (thread'[w] = Idle \/ (thread'[w].job = thread[w].job /\ Copied(w)))
      BY <2>1, LoadToAddThread DEF Safe
    <3>2. UNCHANGED <<row, lastId>> /\ thread[w].job.kind = "add" /\ thread[w].job \in Jobs
      BY <2>1, ThreadCases DEF LoadToAdd, Safe, Loads
    <3>3. CASE thread'[w] = Idle
      BY <1>0, <3>1, <3>3, CopiesDropped
    <3>4. CASE Copied(w) /\ thread'[w].job = thread[w].job
      <4>1. Copy(w)'
        BY <3>2, <3>4, NewCopy DEF Safe
      <4>2. ListOf(thread[w].job.owner, thread[w].job.status)[1] = thread[w].job.owner
        BY <3>2, ListType DEF Jobs
      <4>3. Aim(w)'
        BY <3>2, <3>4, <4>2 DEF Copied, Aim
      <4> QED BY <1>0, <3>1, <4>1, <4>3, CopiesMoved
    <3> QED BY <3>1, <3>3, <3>4
  <2>2. CASE LoadToRemove(w)
    <3>1. OnlyThread(w) /\ thread'[w].job = thread[w].job /\ (thread'[w].at = "load" \/ Copied(w))
      BY <2>2, LoadToRemoveThread DEF Safe
    <3>2. UNCHANGED <<row, lastId>> /\ thread[w].job.kind = "remove"
      BY <2>2 DEF LoadToRemove
    <3>3. CASE thread'[w].at = "load"
      BY <1>0, <3>1, <3>3, CopiesDropped
    <3>4. CASE Copied(w)
      <4>1. Copy(w)'
        BY <3>2, <3>4, NewCopy DEF Safe
      <4>2. Aim(w)'
        BY <3>1, <3>2, <3>4 DEF Copied, Aim
      <4> QED BY <1>0, <3>1, <4>1, <4>2, CopiesMoved
    <3> QED BY <3>1, <3>3, <3>4
  <2>3. CASE Check(w)
    <3>1. OnlyThread(w) /\ thread'[w].job = thread[w].job /\ Kept(w)
      BY <2>3, CheckThread DEF Safe
    <3>2. Copy(w)'
      BY <1>0, <3>1, CopyStep DEF Safe, Copies, Kept
    <3>3. Aim(w)'
      BY <3>1 DEF Safe, Aims, Aim, Kept
    <3> QED BY <1>0, <3>1, <3>2, <3>3, CopiesMoved
  <2>4. CASE Refuse(w)
    BY <2>4, <1>3, <1>4, NotIdle DEF Refuse, Safe
  <2>5. CASE Insert(w) \/ InsertFails(w) \/ Commit(w) \/ Abort(w)
    BY <2>5, <1>3 DEF Insert, InsertFails, Commit, Abort, Requeue
  <2>6. CASE Update(w) \/ Unlink(w)
    BY <2>6, <1>3, <1>4, NotIdle DEF Update, Unlink, Writing, Safe
  <2> QED BY <1>5, <2>1, <2>2, <2>3, <2>4, <2>5, <2>6 DEF Step
<1>6. ASSUME NEW w \in Workers, Shutdown(w) PROVE Copies' /\ Aims'
  BY <1>3, <1>6 DEF Shutdown, Requeue
<1> QED
  BY <1>1, <1>2, <1>5, <1>6 DEF Next, Post, Delete, Read, Dismiss, Request, Fetch, Discard

LEMMA TypeStep ==
  ASSUME TypeOK, Locks, Next
  PROVE  TypeOK'
<1>1. ASSUME NEW w \in Workers, Shutdown(w) PROVE TypeOK'
  <2>1. ops' \in 0..MaxOps
    BY <1>1, ConversationAssumption DEF TypeOK, Shutdown
  <2> QED BY <1>1, <2>1, RequeueType DEF TypeOK, Shutdown
<1> QED BY <1>1, RequestType, OwnerType, FetchType, StepType DEF Next

LEMMA SafeStep ==
  ASSUME Safe, [Next]_vars
  PROVE  Safe'
<1>1. CASE Next
  BY <1>1, TypeStep, LocksStep, RowsStep, RowIdsStep, CopiesStep DEF Safe
<1>2. CASE UNCHANGED vars
  BY <1>2 DEF vars, Safe, TypeOK, Locks, RowIds, Copies, Copy, Fresh, Aims
<1> QED BY <1>1, <1>2

LEMMA SafeInit == Init => Safe
<1> SUFFICES ASSUME Init PROVE Safe
  OBVIOUS
<1>1. TypeOK
  <2>1. Idle \in Threads
    BY DEF Threads
  <2>2. thread \in [Workers -> Threads] /\ row \in [Lists -> Rows]
    BY <2>1, NoRowType DEF Init
  <2>3. /\ state \in [Statuses -> {"unposted", "live", "doomed", "gone"}]
        /\ held \in [Workers -> SUBSET Lists]
        /\ \A l \in Lists : row[l].ids = {} => row[l] = NoRow
    BY DEF Init
  <2>4. lastId \in Nat /\ ops \in 0..MaxOps /\ hasty \in BOOLEAN
    <3>1. lastId \in Nat /\ ops \in 0..MaxOps
      BY ConversationAssumption DEF Init, ConversationAssumption
    <3>2. hasty \in BOOLEAN
      BY DEF Init
    <3> QED BY <3>1, <3>2
  <2>5. notified \subseteq Accounts \X Statuses /\ queue \subseteq Jobs
    BY DEF Init
  <2> QED BY <2>2, <2>3, <2>4, <2>5 DEF TypeOK
<1>2. RowIds /\ Locks
  BY DEF Init, RowIds, Locks, NoRow
<1>3. Copies /\ Aims
  BY DEF Init, Copies, Aims, Idle
<1> QED BY <1>1, <1>2, <1>3 DEF Safe

LEMMA SafeAlways == Spec => []Safe
<1>1. Safe /\ [Next]_vars => Safe'
  BY SafeStep
<1> QED BY <1>1, SafeInit, PTL DEF Spec

\* Every reachable state of rows, locks, jobs and threads has the declared types
THEOREM TypeCorrect == Spec => []TypeOK
<1>1. Safe => TypeOK
  BY DEF Safe
<1> QED BY <1>1, SafeAlways, PTL

\* No update is lost: every change of the rows, by however many threads, is an
\* operation of the abstract list, account_conversation.rb:59-88
THEOREM Implements == Spec => ImplementsList
<1>1. Init => List!Init
  BY DEF Init, List!Init, NoRow
<1>2. Safe /\ [Next]_vars => [List!Next]_List!vars
  <2> SUFFICES ASSUME Safe, [Next]_vars PROVE [List!Next]_List!vars
    OBVIOUS
  <2>1. List!Next \/ UNCHANGED row
    BY RowsStep DEF vars
  <2> QED BY <2>1 DEF List!vars
<1> QED BY <1>1, <1>2, SafeAlways, PTL DEF Spec, ImplementsList, List!Spec

-----------------------------------------------------------------------------
(* An author's own list gets every status                                  *)
(*                                                                         *)
(* The job may end without adding the status because it finds none         *)
(* (Discard), because it takes the list for another (Target), or because   *)
(* the validation fails (Refuse).  Each is a sign of a deletion when only  *)
(* statuses that were posted are named anywhere (Known).                   *)

Posted(s) == state[s] # "unposted"

Known ==
  /\ \A j \in queue : Posted(j.status)
  /\ \A w \in Workers : thread[w] # Idle => Posted(thread[w].job.status)
  /\ \A w \in Workers : thread[w].at \in {"check", "write"} =>
       \A s \in thread[w].base.ids : Posted(s)
  /\ \A l \in Lists : \A s \in row[l].ids : Posted(s)

FullList(o) == <<o, Accounts \ {o}>>

Target ==
  \A w \in Workers :
    LET t == thread[w] IN
    t.at \in {"check", "write"} /\ t.job.kind = "add" =>
      t.list = FullList(t.job.owner) \/ state[t.job.status] = "gone"

LEMMA Lives ==
  ASSUME Safe, Next, NEW s \in Statuses
  PROVE  (Posted(s) => Posted(s)') /\ (state[s] = "gone" => state'[s] = "gone")
<1>1. ASSUME NEW t \in Statuses, Post(t) \/ Delete(t)
      PROVE  (Posted(s) => Posted(s)') /\ (state[s] = "gone" => state'[s] = "gone")
  BY <1>1 DEF Safe, TypeOK, Post, Delete, Posted
<1>2. ASSUME NEW w \in Workers, Commit(w)
      PROVE  (Posted(s) => Posted(s)') /\ (state[s] = "gone" => state'[s] = "gone")
  BY <1>2 DEF Safe, TypeOK, Commit, Posted
<1>3. CASE UNCHANGED state
  BY <1>3 DEF Posted
<1> QED
  BY <1>1, <1>2, <1>3
  DEF Next, Read, Dismiss, Request, Fetch, Discard, Begin, Shutdown, Step, LoadToAdd,
      LoadToRemove, Check, Refuse, Insert, InsertFails, Update, Unlink, Abort

\* What a thread does with its job
LEMMA StepThread ==
  ASSUME Safe, NEW w \in Workers, Step(w) \/ Shutdown(w)
  PROVE  /\ OnlyThread(w) /\ thread[w] # Idle
         /\ thread'[w] = Idle \/ thread'[w].job = thread[w].job
         /\ thread'[w].at \in {"check", "write"} => Copied(w) \/ Kept(w)
         /\ queue \subseteq queue' /\ queue' \subseteq queue \cup {thread[w].job}
<1> DEFINE G == /\ OnlyThread(w) /\ thread[w] # Idle
                /\ thread'[w] = Idle \/ thread'[w].job = thread[w].job
                /\ thread'[w].at \in {"check", "write"} => Copied(w) \/ Kept(w)
<1>0. Idle.at = "idle" /\ TypeOK
  BY DEF Idle, Safe
<1>1. thread[w] # Idle
  <2>1. CASE Abort(w)
    BY <2>1, <1>0, NotIdle DEF Abort, Deadlocked, WaitsFor
  <2> QED
    BY <2>1, <1>0, NotIdle
    DEF Step, LoadToAdd, LoadToRemove, Check, Refuse, Insert, InsertFails, Update, Unlink,
        Writing, Commit, Shutdown
<1>2. queue \subseteq queue' /\ queue' \subseteq queue \cup {thread[w].job}
  BY DEF Step, LoadToAdd, LoadToRemove, Check, Refuse, Insert, InsertFails, Update, Unlink,
         Writing, Commit, Abort, Shutdown, Requeue
<1>3. ASSUME Done(w) PROVE G
  BY <1>0, <1>1, <1>3, DoneThread
<1>4. ASSUME NEW o, Reload(w) \/ Skip(w, o) PROVE G
  BY <1>0, <1>1, <1>4, BackThread
<1>5. ASSUME LoadToAdd(w) PROVE G
  BY <1>0, <1>1, <1>5, LoadToAddThread
<1>6. ASSUME LoadToRemove(w) PROVE G
  <2>1. /\ OnlyThread(w) /\ thread'[w].job = thread[w].job
        /\ thread'[w].at = "load" \/ Copied(w)
    BY <1>0, <1>6, LoadToRemoveThread
  <2> QED BY <1>1, <2>1
<1>7. ASSUME Check(w) PROVE G
  BY <1>0, <1>1, <1>7, CheckThread
<1>8. G
  BY <1>3, <1>4, <1>5, <1>6, <1>7
  DEF Step, Refuse, Insert, InsertFails, Update, Unlink, Commit, Abort, Shutdown, Requeue
<1> QED BY <1>2, <1>8

LEMMA RowsKnown ==
  ASSUME Safe, Known, Next
  PROVE  \A l \in Lists : \A s \in row'[l].ids : Posted(s)
<1>1. ASSUME NEW w \in Workers, Added(w), thread[w] # Idle
      PROVE  \A l \in Lists : \A s \in row'[l].ids : Posted(s)
  BY <1>1 DEF Known, Added
<1>2. ASSUME NEW w \in Workers, Insert(w) \/ Update(w)
      PROVE  \A l \in Lists : \A s \in row'[l].ids : Posted(s)
  <2>1. thread[w] # Idle
    BY <1>2, NotIdle DEF Insert, Update, Writing, Safe
  <2>2. Added(w) \/ UNCHANGED row
    BY <1>2, InsertRows, UpdateRows DEF Update
  <2> QED BY <1>1, <2>1, <2>2 DEF Known
<1>3. ASSUME NEW w \in Workers, Commit(w)
      PROVE  \A l \in Lists : \A s \in row'[l].ids : Posted(s)
  BY <1>3, CommitRows DEF Known
<1>4. ASSUME NEW k \in Lists, Read(k) \/ Dismiss(k)
      PROVE  \A l \in Lists : \A s \in row'[l].ids : Posted(s)
  <2>1. CASE Read(k)
    BY <2>1, ReadRows DEF Known, List!Read
  <2>2. CASE Dismiss(k)
    BY <2>2 DEF Known, Safe, TypeOK, Dismiss, NoRow
  <2> QED BY <1>4, <2>1, <2>2
<1>5. CASE UNCHANGED row
  BY <1>5 DEF Known
<1> QED
  BY <1>2, <1>3, <1>4, <1>5
  DEF Next, Post, Delete, Fetch, Discard, Begin, Shutdown, Step, LoadToAdd, LoadToRemove,
      Check, Refuse, InsertFails, Unlink, Abort

\* A thread that moves names posted statuses, and holds the list it should
Names(w) ==
  /\ thread'[w] # Idle => Posted(thread'[w].job.status)
  /\ thread'[w].at \in {"check", "write"} => \A s \in thread'[w].base.ids : Posted(s)

Targets(w) ==
  LET t == thread'[w] IN
  t.at \in {"check", "write"} /\ t.job.kind = "add" =>
    t.list = FullList(t.job.owner) \/ state[t.job.status] = "gone"

LEMMA StepNames ==
  ASSUME Safe, Known, Target, NEW w \in Workers, Step(w) \/ Shutdown(w)
  PROVE  Names(w) /\ Targets(w)
<1>1. /\ thread[w] # Idle
      /\ thread'[w] = Idle \/ thread'[w].job = thread[w].job
      /\ thread'[w].at \in {"check", "write"} => Copied(w) \/ Kept(w)
  BY StepThread
<1>2. Idle.at = "idle"
  BY DEF Idle
<1>3. Posted(thread[w].job.status) /\ thread[w].job \in Jobs
  BY <1>1, ThreadCases DEF Known, Safe
<1>4. CASE Copied(w) /\ thread'[w].job = thread[w].job
  <2>1. \A s \in thread'[w].base.ids : Posted(s)
    BY <1>4 DEF Copied, Known
  <2>2. thread[w].job.status \in Statuses
    BY <1>3 DEF Jobs
  <2>3. Live(thread[w].job.status) \/ state[thread[w].job.status] = "gone"
    BY <1>3, <2>2 DEF Posted, Live, Safe, TypeOK
  <2>4. Targets(w)
    BY <1>4, <2>3 DEF Copied, Targets, FullList, ListOf
  <2> QED BY <1>3, <1>4, <2>1, <2>4 DEF Names
<1>5. CASE Kept(w) /\ thread'[w].job = thread[w].job
  BY <1>3, <1>5 DEF Kept, Known, Target, Names, Targets
<1>6. CASE thread'[w] = Idle
  BY <1>2, <1>6 DEF Names, Targets
<1>7. CASE thread'[w].at \notin {"check", "write"} /\ thread'[w].job = thread[w].job
  BY <1>3, <1>7 DEF Names, Targets
<1> QED BY <1>1, <1>4, <1>5, <1>6, <1>7

\* Whoever moves, the others name what they named
LEMMA ThreadsKnown ==
  ASSUME Safe, Known, Target, Next, NEW v \in Workers
  PROVE  Names(v) /\ Targets(v)
<1>1. CASE thread'[v] = thread[v]
  BY <1>1 DEF Known, Target, Names, Targets
<1>2. ASSUME NEW w \in Workers, OnlyThread(w), Names(w) /\ Targets(w)
      PROVE  Names(v) /\ Targets(v)
  <2>1. CASE v = w
    BY <1>2, <2>1
  <2>2. CASE v # w
    BY <1>1, <1>2, <2>2 DEF OnlyThread, Safe, TypeOK
  <2> QED BY <2>1, <2>2
<1>3. ASSUME NEW w \in Workers, Step(w) \/ Shutdown(w)
      PROVE  Names(v) /\ Targets(v)
  BY <1>2, <1>3, StepNames, StepThread
<1>4. ASSUME NEW w \in Workers, NEW j \in queue, Begin(w, j)
      PROVE  Names(v) /\ Targets(v)
  <2>1. OnlyThread(w) /\ thread'[w].job = j /\ thread'[w].at = "load"
    BY <1>4, BeginThread DEF Safe
  <2>2. Names(w) /\ Targets(w)
    BY <2>1 DEF Names, Targets, Known
  <2> QED BY <1>2, <2>1, <2>2
<1> QED
  BY <1>1, <1>3, <1>4 DEF Next, Post, Delete, Read, Dismiss, Request, Fetch, Discard

LEMMA QueueKnown ==
  ASSUME Safe, Known, Next
  PROVE  \A j \in queue' : Posted(j.status)'
<1>1. ASSUME NEW j \in queue, j \in Jobs PROVE Posted(j.status)'
  BY <1>1, Lives DEF Known, Jobs
<1>2. queue \subseteq Jobs
  BY DEF Safe, TypeOK
<1>3. ASSUME NEW s \in Statuses, Post(s) PROVE \A j \in queue' : Posted(j.status)'
  <2>1. \A o \in Accounts : Job("add", s, o).status = s
    BY JobType
  <2>2. Posted(s)'
    BY <1>3 DEF Post, Posted, Safe, TypeOK
  <2> QED BY <1>1, <1>2, <1>3, <2>1, <2>2 DEF Post
<1>4. ASSUME NEW s \in Statuses, Delete(s) PROVE \A j \in queue' : Posted(j.status)'
  <2>1. Job("remove", s, Author[s]).status = s
    BY JobType, ConversationAssumption
  <2>2. Posted(s)'
    BY <1>4 DEF Delete, Posted, Safe, TypeOK
  <2> QED BY <1>1, <1>2, <1>4, <2>1, <2>2 DEF Delete
<1>5. ASSUME NEW w \in Workers, Step(w) \/ Shutdown(w) PROVE \A j \in queue' : Posted(j.status)'
  <2>1. thread[w] # Idle /\ queue' \subseteq queue \cup {thread[w].job}
    BY <1>5, StepThread
  <2>2. thread[w].job \in Jobs /\ Posted(thread[w].job.status)
    BY <2>1, ThreadCases DEF Known, Safe
  <2>3. ASSUME NEW k \in queue' PROVE Posted(k.status)'
    <3>1. CASE k \in queue
      BY <1>1, <1>2, <3>1
    <3>2. CASE k = thread[w].job
      BY <2>2, <3>2, Lives DEF Jobs
    <3> QED BY <2>1, <3>1, <3>2
  <2> QED BY <2>3
<1>6. CASE queue' \subseteq queue
  BY <1>1, <1>2, <1>6
<1> QED
  BY <1>3, <1>4, <1>5, <1>6 DEF Next, Read, Dismiss, Request, Fetch, Discard, Begin

LEMMA KnownStep ==
  ASSUME Safe, Known, Target, [Next]_vars
  PROVE  Known' /\ Target'
<1>1. CASE UNCHANGED vars
  BY <1>1 DEF vars, Known, Target, Posted
<1>2. CASE Next
  <2>0. TypeOK'
    BY <1>2, SafeStep DEF Safe
  <2>1. \A v \in Workers : Names(v) /\ Targets(v)
    BY <1>2, ThreadsKnown
  <2>2. \A l \in Lists : \A s \in row'[l].ids : s \in Statuses /\ Posted(s)
    BY <1>2, <2>0, RowsKnown DEF TypeOK, Rows
  <2>3. \A l \in Lists : \A s \in row'[l].ids : Posted(s)'
    BY <1>2, <2>2, Lives
  <2>4. ASSUME NEW v \in Workers, thread'[v] # Idle
        PROVE  state'[thread'[v].job.status] # "unposted"
    <3>1. thread'[v].job \in Jobs
      BY <2>0, <2>4 DEF TypeOK, Threads
    <3> QED BY <1>2, <2>1, <2>4, <3>1, Lives DEF Names, Jobs, Posted
  <2>5. ASSUME NEW v \in Workers, thread'[v].at \in {"check", "write"}
        PROVE  /\ \A s \in thread'[v].base.ids : Posted(s)'
               /\ thread'[v].job.kind = "add" =>
                    \/ thread'[v].list = FullList(thread'[v].job.owner)
                    \/ state'[thread'[v].job.status] = "gone"
    <3>1. thread'[v] \in Holds
      BY <2>0, <2>5 DEF TypeOK, Threads, Idle, Holds
    <3>2. \A s \in thread'[v].base.ids : s \in Statuses
      BY <3>1 DEF Holds, Rows
    <3>3. thread'[v].job.status \in Statuses
      BY <3>1 DEF Holds, Jobs
    <3>4. \A s \in thread'[v].base.ids : Posted(s)'
      BY <1>2, <2>1, <2>5, <3>2, Lives DEF Names
    <3>5. thread'[v].job.kind = "add" =>
            \/ thread'[v].list = FullList(thread'[v].job.owner)
            \/ state'[thread'[v].job.status] = "gone"
      BY <1>2, <2>1, <2>5, <3>3, Lives DEF Targets
    <3> QED BY <3>4, <3>5
  <2>6. Target'
    BY <2>5 DEF Target
  <2>7. Known'
    BY <1>2, <2>3, <2>4, <2>5, QueueKnown DEF Known, Posted
  <2> QED BY <2>6, <2>7
<1> QED BY <1>1, <1>2

\* A thread is done with the job that adds a status
LEMMA EndOfAdd ==
  ASSUME Safe, Known, Target, NEW w \in Workers, Step(w) \/ Shutdown(w),
         thread[w].job.kind = "add", thread'[w] = Idle,
         thread[w].job \notin queue',
         \A t \in Statuses : state[t] \in {"unposted", "live"}
  PROVE  thread[w].job.status \in row'[FullList(thread[w].job.owner)].ids
<1> DEFINE j == thread[w].job
<1>1. thread[w] # Idle /\ TypeOK
  BY StepThread DEF Safe
<1>2. j \in Jobs /\ j.status \in Statuses /\ j.owner \in Accounts /\ Posted(j.status)
  BY <1>1, ThreadCases DEF Known, Jobs
<1>3. \A t \in Statuses : Posted(t) => Live(t)
  BY DEF Posted, Live
<1>4. Idle.at = "idle"
  BY DEF Idle
<1>5. CASE LoadToAdd(w)
  <2>1. j.status \in row[ListOf(j.owner, j.status)].ids
    BY <1>1, <1>5, LoadToAddThread
  <2>2. ListOf(j.owner, j.status) = FullList(j.owner)
    BY <1>2, <1>3 DEF ListOf, FullList
  <2> QED BY <1>5, <2>1, <2>2 DEF LoadToAdd
<1>6. CASE Insert(w) \/ Update(w)
  <2>1. thread[w].at = "write"
    BY <1>6 DEF Insert, Update, Writing
  <2>2. ~ Reload(w)
    BY <1>1, BackThread
  <2>3. Added(w)
    BY <1>6, <2>2, InsertRows, UpdateRows DEF Update
  <2>4. thread[w].list = FullList(j.owner)
    BY <1>2, <2>1 DEF Target
  <2> QED BY <2>3, <2>4 DEF Added
<1>7. ~ Refuse(w)
  <2> SUFFICES ASSUME Refuse(w) PROVE FALSE
    OBVIOUS
  <2>1. thread[w] \in Holds /\ ~ LastIsLive(IdsToSave(w))
    BY <1>1, ThreadCases DEF Refuse
  <2>2. \A t \in IdsToSave(w) : t \in Statuses /\ Posted(t)
    BY <1>2, <2>1 DEF IdsToSave, Known, Holds, Rows, Refuse
  <2> QED BY <1>3, <2>1, <2>2 DEF LastIsLive
<1>8. ~ Requeue(w)
  BY DEF Requeue
<1>9. ~ Check(w)
  BY <1>1, CheckThread
<1> QED
  BY <1>5, <1>6, <1>7, <1>8, <1>9
  DEF Step, Shutdown, InsertFails, Abort, LoadToRemove, Unlink, Writing, Commit

LEMMA OwnStep ==
  ASSUME Safe, Known, Target, Next, NEW s \in Statuses
  PROVE  EndsWell(Author[s], s)
<1> DEFINE o == Author[s]
           j == Job("add", s, o)
<1>1. o \in Accounts
  BY ConversationAssumption
<1>2. j \in Jobs /\ j.kind = "add" /\ j.status = s /\ j.owner = o
  BY <1>1, JobType
<1> HIDE DEF j
<1> SUFFICES ASSUME Pending(j), ~ Pending(j)', \A t \in Statuses : state[t] \notin {"doomed", "gone"}
             PROVE  s \in row'[FullList(o)].ids
  BY DEF EndsWell, FullList, j
<1>3. \A t \in Statuses : state[t] \in {"unposted", "live"}
  BY DEF Safe, TypeOK
<1>4. j \notin queue' /\ \A w \in Workers : ~ (thread'[w] # Idle /\ thread'[w].job = j)
  BY DEF Pending
<1>5. ASSUME NEW w \in Workers, Step(w) \/ Shutdown(w)
      PROVE  s \in row'[FullList(o)].ids
  <2>1. /\ OnlyThread(w) /\ thread[w] # Idle
        /\ thread'[w] = Idle \/ thread'[w].job = thread[w].job
        /\ queue \subseteq queue'
    BY <1>5, StepThread
  <2>2. PICK v \in Workers : thread[v] # Idle /\ thread[v].job = j
    BY <1>4, <2>1 DEF Pending
  <2>3. v = w
    BY <1>4, <2>1, <2>2 DEF OnlyThread, Safe, TypeOK
  <2>4. thread'[w] = Idle
    BY <1>4, <2>1, <2>2, <2>3
  <2> QED BY <1>2, <1>3, <1>4, <1>5, <2>2, <2>3, <2>4, EndOfAdd
<1>6. ASSUME NEW k \in queue, Discard(k)
      PROVE  FALSE
  <2>1. k = j /\ j \in queue
    BY <1>4, <1>6 DEF Discard, Pending
  <2>2. Live(s)
    BY <1>2, <1>3, <2>1 DEF Known, Posted, Live
  <2>3. ~ Notified(j)
    BY <1>2 DEF Notified, Notifies
  <2> QED BY <1>2, <1>6, <2>1, <2>2, <2>3 DEF Discard
<1>7. ASSUME NEW k \in queue, NEW w \in Workers, Begin(w, k)
      PROVE  FALSE
  <2>1. OnlyThread(w) /\ thread[w] = Idle /\ thread'[w] # Idle /\ thread'[w].job = k
    BY <1>7, BeginThread DEF Safe
  <2>2. k # j
    BY <1>4, <2>1
  <2>3. j \notin queue
    BY <1>4, <1>7, <2>2 DEF Begin
  <2>4. PICK v \in Workers : thread[v] # Idle /\ thread[v].job = j
    BY <2>3 DEF Pending
  <2>5. thread'[v] = thread[v]
    BY <2>1, <2>4 DEF OnlyThread, Safe, TypeOK
  <2> QED BY <1>4, <2>4, <2>5
<1>8. CASE queue \subseteq queue' /\ UNCHANGED thread
  BY <1>4, <1>8 DEF Pending
<1> QED
  BY <1>5, <1>6, <1>7, <1>8 DEF Next, Post, Delete, Read, Dismiss, Request, Fetch

\* As long as nothing is deleted, the job that adds a status to its author's own
\* list does not end without it, whatever collides with it and however often it
\* is interrupted, fan_out_on_write_service.rb:94-96
THEOREM OwnKept == Spec => OwnAdded
<1>1. Init => Known /\ Target
  BY DEF Init, Known, Target, NoRow, Idle
<1>2. Safe /\ Known /\ Target /\ [Next]_vars => Known' /\ Target'
  BY KnownStep
<1>3. Safe /\ Known /\ Target /\ [Next]_vars
        => [\A s \in Statuses : EndsWell(Author[s], s)]_vars
  BY OwnStep
<1> QED BY <1>1, <1>2, <1>3, SafeAlways, PTL DEF Spec, OwnAdded

-----------------------------------------------------------------------------
(* No row names a status that is gone, if statuses are deleted at leisure   *)
(*                                                                         *)
(* Then a status whose removal is under way is not spread any more and is  *)
(* the only one of its kind, so that the lists that name it are those of   *)
(* all participants, which the removal goes through, and no validation of  *)
(* theirs fails.                                                           *)

Spreading == \A j \in Jobs : Pending(j) /\ j.kind = "add" => state[j.status] = "live"

Removing == \A j \in Jobs : Pending(j) /\ j.kind = "remove" => state[j.status] \in {"doomed", "gone"}

OneDoomed == \A s, t \in Statuses : state[s] = "doomed" /\ state[t] = "doomed" => s = t

FullOnly == \A l \in Lists : \A s \in row[l].ids : l = FullList(l[1]) /\ Live(s)

\* What a removal has been through, and what it is about to write
Through(w) ==
  LET t == thread[w]
      s == t.job.status
  IN t # Idle /\ t.job.kind = "remove" /\ state[s] = "doomed" =>
       /\ \A o \in Accounts \ t.todo : s \in row[FullList(o)].ids => FullList(o) \in held[w]
       /\ t.at \in {"check", "write"} =>
            t.list = FullList(t.list[1]) /\ \A x \in t.base.ids : Live(x)

Calm == Spreading /\ Removing /\ OneDoomed /\ FullOnly /\ \A w \in Workers : Through(w)

LEMMA FullListType == \A o \in Accounts : FullList(o) \in Lists /\ FullList(o)[1] = o
BY DEF FullList, Lists

LEMMA AddingIs ==
  ASSUME NEW j \in Jobs, Pending(j), j.kind = "add"
  PROVE  Adding(j.status)
BY DEF Pending, Adding

\* How jobs come to be
LEMMA PendingStep ==
  ASSUME Safe, Next, NEW j \in Jobs, Pending(j)'
  PROVE  \/ Pending(j)
         \/ Post(j.status) /\ j.kind = "add"
         \/ Delete(j.status) /\ j.kind = "remove"
<1>1. ASSUME NEW s \in Statuses, Post(s) PROVE Pending(j) \/ (j.status = s /\ j.kind = "add")
  <2>1. \A o \in Accounts : Job("add", s, o).status = s /\ Job("add", s, o).kind = "add"
    BY JobType
  <2> QED BY <1>1, <2>1 DEF Post, Pending
<1>2. ASSUME NEW s \in Statuses, Delete(s) PROVE Pending(j) \/ (j.status = s /\ j.kind = "remove")
  <2>1. Job("remove", s, Author[s]).status = s /\ Job("remove", s, Author[s]).kind = "remove"
    BY JobType, ConversationAssumption
  <2> QED BY <1>2, <2>1 DEF Delete, Pending
<1>3. ASSUME NEW w \in Workers, Step(w) \/ Shutdown(w) PROVE Pending(j)
  <2>1. /\ OnlyThread(w) /\ thread[w] # Idle
        /\ thread'[w] = Idle \/ thread'[w].job = thread[w].job
        /\ queue' \subseteq queue \cup {thread[w].job}
    BY <1>3, StepThread
  <2>2. \A v \in Workers \ {w} : thread'[v] = thread[v]
    BY <2>1 DEF OnlyThread, Safe, TypeOK
  <2> QED BY <2>1, <2>2 DEF Pending
<1>4. ASSUME NEW w \in Workers, NEW k \in queue, Begin(w, k) PROVE Pending(j)
  <2>1. OnlyThread(w) /\ thread'[w].job = k
    BY <1>4, BeginThread DEF Safe
  <2>3. queue' \subseteq queue
    BY <1>4 DEF Begin
  <2>2. \A v \in Workers \ {w} : thread'[v] = thread[v]
    BY <2>1 DEF OnlyThread, Safe, TypeOK
  <2> QED BY <2>1, <2>2, <2>3 DEF Pending
<1>5. CASE UNCHANGED thread /\ queue' \subseteq queue
  BY <1>5 DEF Pending
<1> QED BY <1>1, <1>2, <1>3, <1>4, <1>5 DEF Next, Read, Dismiss, Request, Fetch, Discard

\* Rows lose ids, unless a thread adds one
LEMMA RowsGain ==
  ASSUME Safe, Next
  PROVE  \/ \A l \in Lists : row'[l].ids \subseteq row[l].ids
         \/ \E w \in Workers : /\ thread[w].at = "write" /\ thread[w].job.kind = "add"
                               /\ UNCHANGED <<state, held>> /\ Added(w)
<1> DEFINE Loses == \A l \in Lists : row'[l].ids \subseteq row[l].ids
           Adds(w) == /\ thread[w].at = "write" /\ thread[w].job.kind = "add"
                      /\ UNCHANGED <<state, held>> /\ Added(w)
<1>1. ASSUME NEW w \in Workers, Insert(w) \/ (Update(w) /\ Fresh(w))
      PROVE  Adds(w)
  BY <1>1, InsertRows, UpdateRows DEF Insert, Update, Writing
<1>2. ASSUME NEW w \in Workers, Commit(w)
      PROVE  Loses
  BY <1>2, CommitRows
<1>3. ASSUME NEW k \in Lists, Read(k) \/ Dismiss(k)
      PROVE  Loses
  <2>1. CASE Read(k)
    <3>1. [l \in Lists |-> row'[l].ids] = [l \in Lists |-> row[l].ids]
      BY <2>1, ReadRows DEF List!Read
    <3>2. \A l \in Lists : [m \in Lists |-> row'[m].ids][l] = [m \in Lists |-> row[m].ids][l]
      BY <3>1
    <3> QED BY <3>2
  <2>2. CASE Dismiss(k)
    BY <2>2 DEF Safe, TypeOK, Dismiss, NoRow
  <2> QED BY <1>3, <2>1, <2>2
<1>4. CASE UNCHANGED row
  BY <1>4
<1>5. ASSUME NEW w \in Workers, Step(w) PROVE Adds(w) \/ Loses
  BY <1>1, <1>2, <1>4, <1>5
  DEF Step, LoadToAdd, LoadToRemove, Check, Refuse, InsertFails, Update, Unlink, Abort
<1> HIDE DEF Loses, Adds
<1>6. Loses \/ \E w \in Workers : Adds(w)
  BY <1>3, <1>4, <1>5 DEF Next, Post, Delete, Fetch, Discard, Begin, Shutdown, Loses
<1> QED BY <1>6 DEF Loses, Adds

\* How statuses live on
LEMMA LifeStep ==
  ASSUME Safe, Next
  PROVE  \/ \E s \in Statuses : Post(s) /\ state' = [state EXCEPT ![s] = "live"]
         \/ \E s \in Statuses : Delete(s) /\ state' = [state EXCEPT ![s] = "doomed"]
         \/ \E w \in Workers : Commit(w) /\ state' = [state EXCEPT ![thread[w].job.status] = "gone"]
         \/ UNCHANGED state
<1> DEFINE Is(s, x) == state' = [state EXCEPT ![s] = x]
<1>1. \A s \in Statuses : (Post(s) => Is(s, "live")) /\ (Delete(s) => Is(s, "doomed"))
  BY DEF Post, Delete
<1>2. \A w \in Workers : Commit(w) => Is(thread[w].job.status, "gone")
  BY DEF Commit
<1>3. ASSUME NEW w \in Workers, Step(w) PROVE Commit(w) \/ UNCHANGED state
  BY <1>3 DEF Step, LoadToAdd, LoadToRemove, Check, Refuse, Insert, InsertFails, Update, Unlink, Abort
<1>4. \/ \E s \in Statuses : Post(s) \/ Delete(s)
      \/ \E w \in Workers : Step(w)
      \/ UNCHANGED state
  BY DEF Next, Read, Dismiss, Request, Fetch, Discard, Begin, Shutdown
<1> HIDE DEF Is
<1>5. \/ \E s \in Statuses : Post(s) /\ Is(s, "live")
      \/ \E s \in Statuses : Delete(s) /\ Is(s, "doomed")
      \/ \E w \in Workers : Commit(w) /\ Is(thread[w].job.status, "gone")
      \/ UNCHANGED state
  BY <1>1, <1>2, <1>3, <1>4
<1> QED BY <1>5 DEF Is

\* A commit removes a status for which there is a job
LEMMA Committing ==
  ASSUME Safe, Calm, NEW w \in Workers, Commit(w)
  PROVE  /\ thread[w].job \in Jobs /\ thread[w].job.status \in Statuses
         /\ state[thread[w].job.status] \in {"doomed", "gone"}
<1>1. thread[w] # Idle
  BY NotIdle DEF Commit, Safe
<1>2. thread[w].job \in Jobs /\ Pending(thread[w].job) /\ thread[w].job.kind = "remove"
  BY <1>1, ThreadCases DEF Pending, Commit, Safe
<1> QED BY <1>2 DEF Calm, Removing, Jobs

LEMMA JobsCalm ==
  ASSUME Safe, Calm, Next, ~ hasty'
  PROVE  Spreading' /\ Removing' /\ OneDoomed'
<1>1. state \in [Statuses -> {"unposted", "live", "doomed", "gone"}]
  BY DEF Safe, TypeOK
<1>2. ASSUME NEW s \in Statuses, Delete(s)
      PROVE  ~ Adding(s) /\ \A t \in Statuses : state[t] # "doomed"
  BY <1>2 DEF Delete
<1>3. ASSUME NEW j \in Jobs, Pending(j)', j.kind = "add" PROVE state'[j.status] = "live"
  <2>1. j.status \in Statuses
    BY DEF Jobs
  <2>2. CASE Post(j.status)
    BY <1>1, <2>1, <2>2 DEF Post
  <2>3. CASE Pending(j)
    <3>1. state[j.status] = "live" /\ Adding(j.status)
      BY <1>3, <2>3, AddingIs DEF Calm, Spreading
    <3> QED BY <1>1, <1>2, <2>1, <3>1, LifeStep, Committing
  <2> QED BY <1>3, <2>2, <2>3, PendingStep
<1>4. ASSUME NEW j \in Jobs, Pending(j)', j.kind = "remove" PROVE state'[j.status] \in {"doomed", "gone"}
  <2>1. j.status \in Statuses
    BY DEF Jobs
  <2>2. CASE Delete(j.status)
    BY <1>1, <2>1, <2>2 DEF Delete
  <2>3. CASE Pending(j)
    <3>1. state[j.status] \in {"doomed", "gone"}
      BY <1>4, <2>3 DEF Calm, Removing
    <3> QED BY <1>1, <2>1, <3>1, LifeStep DEF Post, Delete
  <2> QED BY <1>4, <2>2, <2>3, PendingStep
<1>5. OneDoomed'
  BY <1>1, <1>2, LifeStep DEF Calm, OneDoomed
<1> QED BY <1>3, <1>4, <1>5 DEF Spreading, Removing

\* What a thread is about to write names a status that is live
LEMMA WritesLive ==
  ASSUME Safe, Calm, Target, NEW w \in Workers, thread[w].at = "write", thread[w].job.kind = "add"
  PROVE  /\ state[thread[w].job.status] = "live" /\ thread[w].job.owner \in Accounts
         /\ thread[w].list = FullList(thread[w].job.owner)
<1>1. thread[w] # Idle
  BY NotIdle DEF Safe
<1>2. thread[w].job \in Jobs /\ Pending(thread[w].job)
  BY <1>1, ThreadCases DEF Pending, Safe
<1> QED BY <1>2 DEF Calm, Spreading, Target, Jobs

LEMMA RowsCalm ==
  ASSUME Safe, Calm, Target, Next, ~ hasty'
  PROVE  FullOnly'
<1>0. TypeOK' /\ state \in [Statuses -> {"unposted", "live", "doomed", "gone"}]
  BY SafeStep DEF Safe, TypeOK
<1> SUFFICES ASSUME NEW l \in Lists, NEW s \in row'[l].ids
             PROVE  l = FullList(l[1]) /\ state'[s] \in {"live", "doomed"}
  BY DEF FullOnly, Live
<1>1. s \in Statuses
  BY <1>0 DEF TypeOK, Rows
<1>2. l = FullList(l[1]) /\ Live(s)
  <2>1. CASE s \in row[l].ids
    BY <2>1 DEF Calm, FullOnly
  <2>2. ASSUME NEW w \in Workers, thread[w].at = "write", thread[w].job.kind = "add", Added(w), s \notin row[l].ids
        PROVE  l = FullList(l[1]) /\ Live(s)
    BY <2>2, WritesLive, FullListType DEF Added, Live
  <2> QED BY <2>1, <2>2, RowsGain
<1>3. ASSUME NEW w \in Workers, Commit(w) PROVE thread[w].job.status # s
  <2> SUFFICES ASSUME thread[w].job.status = s PROVE FALSE
    OBVIOUS
  <2>1. state[s] = "doomed"
    BY <1>2, <1>3, Committing DEF Live
  <2>2. s \in row[l].ids
    BY <1>3, CommitRows
  <2>3. thread[w] # Idle /\ l[1] \in Accounts
    BY <1>3, NotIdle DEF Commit, Safe, Lists
  <2>4. l \in held[w]
    BY <1>2, <1>3, <2>1, <2>2, <2>3 DEF Calm, Through, Commit
  <2>5. row'[l] = Without(row[l], s) /\ row[l] \in Rows
    BY <1>3, <2>4 DEF Commit, Safe, TypeOK
  <2> QED BY <1>1, <2>2, <2>5, WithoutType
<1> QED BY <1>0, <1>1, <1>2, <1>3, LifeStep DEF Live

\* A thread that stays where it is
LEMMA StayThrough ==
  ASSUME Safe, Calm, Target, Next, ~ hasty', NEW w \in Workers,
         thread'[w] = thread[w], held'[w] = held[w]
  PROVE  Through(w)'
<1> DEFINE t == thread[w]
           s == t.job.status
<1>0. state \in [Statuses -> {"unposted", "live", "doomed", "gone"}]
  BY DEF Safe, TypeOK
<1> SUFFICES ASSUME t # Idle, t.job.kind = "remove", state'[s] = "doomed"
             PROVE  /\ \A o \in Accounts \ t.todo : s \in row'[FullList(o)].ids => FullList(o) \in held[w]
                    /\ t.at \in {"check", "write"} =>
                         t.list = FullList(t.list[1]) /\ \A x \in t.base.ids : state'[x] \in {"live", "doomed"}
  BY DEF Through, Live
<1>1. t.job \in Jobs /\ s \in Statuses /\ Pending(t.job)
  BY ThreadCases DEF Jobs, Pending, Safe
<1>2. state[s] \in {"doomed", "gone"}
  BY <1>1 DEF Calm, Removing
<1>3. state[s] = "doomed"
  BY <1>0, <1>1, <1>2, Lives
<1>4. Through(w) /\ OneDoomed
  BY DEF Calm
<1>5. \A l \in Lists : s \in row'[l].ids => s \in row[l].ids
  BY <1>3, RowsGain, WritesLive DEF Added
<1>6. ASSUME NEW x \in Statuses, Live(x) PROVE state'[x] \in {"live", "doomed"}
  <2>1. ASSUME NEW v \in Workers, Commit(v), thread[v].job.status = x PROVE FALSE
    <3>1. state[x] = "doomed"
      BY <1>6, <2>1, Committing DEF Live
    <3>2. x = s
      BY <1>1, <1>3, <1>4, <3>1 DEF OneDoomed
    <3> QED BY <1>0, <1>1, <2>1, <3>2 DEF Commit
  <2> QED BY <1>0, <1>6, <2>1, LifeStep DEF Live
<1>7. t.at \in {"check", "write"} => \A x \in t.base.ids : x \in Statuses
  BY ThreadCases DEF Safe, Holds, Rows
<1> QED BY <1>3, <1>4, <1>5, <1>6, <1>7, FullListType DEF Through

\* A thread that takes a step
LEMMA StepThrough ==
  ASSUME Safe, Calm, Target, NEW w \in Workers, Step(w) \/ Shutdown(w), ~ hasty'
  PROVE  Through(w)'
<1> DEFINE t == thread[w]
           s == t.job.status
<1>1. TypeOK /\ t # Idle /\ (thread'[w] = Idle \/ thread'[w].job = t.job)
  BY StepThread DEF Safe
<1> SUFFICES ASSUME thread'[w] # Idle, t.job.kind = "remove", state'[s] = "doomed"
             PROVE  /\ \A o \in Accounts \ thread'[w].todo :
                         s \in row'[FullList(o)].ids => FullList(o) \in held'[w]
                    /\ thread'[w].at \in {"check", "write"} =>
                         /\ thread'[w].list = FullList(thread'[w].list[1])
                         /\ \A x \in thread'[w].base.ids : state'[x] \in {"live", "doomed"}
  BY <1>1 DEF Through, Live
<1>2. LoadToRemove(w) \/ Check(w) \/ Refuse(w) \/ Unlink(w)
  BY <1>1, DoneThread
  DEF Step, Shutdown, LoadToAdd, Insert, InsertFails, Update, Writing, Commit, Abort, Requeue
<1>3. UNCHANGED <<state, row>>
  BY <1>2 DEF LoadToRemove, Check, Refuse, Unlink
<1>4. state[s] = "doomed" /\ Live(s)
  BY <1>3 DEF Live
<1>5. \A o \in Accounts \ t.todo : s \in row[FullList(o)].ids => FullList(o) \in held[w]
  BY <1>1, <1>4 DEF Calm, Through
<1>6. t.at \in {"check", "write"} => t.list = FullList(t.list[1]) /\ \A x \in t.base.ids : Live(x)
  BY <1>1, <1>4 DEF Calm, Through
<1>7. \A o \in Accounts : ListOf(o, s) = FullList(o)
  BY <1>4 DEF ListOf, FullList
<1>8. CASE LoadToRemove(w)
  <2>1. held' = held /\ NextOwners(w) \subseteq Accounts
    BY <1>1, <1>8, NextOwnerType DEF LoadToRemove
  <2>2. CASE Copied(w)
    <3>1. PICK o \in NextOwners(w) : thread'[w].list = ListOf(o, s)
      BY <1>1, <2>2 DEF Copied
    <3>2. thread'[w].todo = t.todo /\ thread'[w].base = row[thread'[w].list] /\ thread'[w].list \in Lists
      BY <1>1, <2>2 DEF Copied
    <3>3. \A x \in thread'[w].base.ids : Live(x)
      BY <3>2 DEF Calm, FullOnly
    <3> QED BY <1>3, <1>5, <1>7, <2>1, <3>1, <3>2, <3>3, FullListType DEF Live
  <2>3. ASSUME NEW o \in NextOwners(w), Skip(w, o), thread'[w].at = "load", s \notin row[ListOf(o, s)].ids
        PROVE  \A a \in Accounts \ thread'[w].todo : s \in row[FullList(a)].ids => FullList(a) \in held[w]
    BY <1>1, <1>5, <1>7, <2>1, <2>3, BackThread
  <2> QED BY <1>1, <1>3, <1>8, <2>1, <2>2, <2>3, LoadToRemoveThread
<1>9. CASE Check(w)
  BY <1>1, <1>3, <1>5, <1>6, <1>9, CheckThread DEF Kept, Check, Live
<1>10. ~ Refuse(w)
  <2> SUFFICES ASSUME Refuse(w) PROVE FALSE
    OBVIOUS
  <2>1. \A x \in IdsToSave(w) : Live(x)
    BY <1>6 DEF IdsToSave, Refuse
  <2> QED BY <2>1 DEF Refuse, LastIsLive
<1>11. CASE Unlink(w)
  <2>1. t.at = "write" /\ t.list = FullList(t.list[1])
    BY <1>6, <1>11 DEF Unlink, Writing
  <2>2. CASE Fresh(w)
    <3>1. held'[w] = held[w] \cup {t.list} /\ Skip(w, t.list[1])
      BY <1>1, <1>11, <2>2 DEF Unlink, TypeOK
    <3>2. thread'[w].todo = t.todo \ {t.list[1]} /\ thread'[w].at = "load"
      BY <1>1, <3>1, BackThread
    <3> QED BY <1>3, <1>5, <2>1, <3>1, <3>2
  <2>3. CASE ~ Fresh(w)
    <3>1. held' = held /\ Reload(w)
      BY <1>11, <2>3 DEF Unlink
    <3>2. thread'[w].todo = t.todo /\ thread'[w].at = "load"
      BY <1>1, <3>1, BackThread
    <3> QED BY <1>3, <1>5, <3>1, <3>2
  <2> QED BY <2>2, <2>3
<1> QED BY <1>2, <1>8, <1>9, <1>10, <1>11

LEMMA HeldByOne ==
  ASSUME Safe, NEW w \in Workers, Step(w) \/ Shutdown(w)
  PROVE  \A v \in Workers \ {w} : held'[v] = held[v]
BY DEF Safe, TypeOK, Step, LoadToAdd, LoadToRemove, Check, Refuse, Insert, InsertFails, Update, Unlink,
       Commit, Abort, Shutdown, Requeue

LEMMA CalmStep ==
  ASSUME Safe, ~ hasty => Calm, Target, [Next]_vars, ~ hasty'
  PROVE  Calm'
<1>1. ~ hasty
  <2>1. ASSUME NEW w \in Workers, Step(w) \/ Shutdown(w) PROVE ~ hasty
    BY <2>1 DEF Step, LoadToAdd, LoadToRemove, Check, Refuse, Insert, InsertFails, Update, Unlink, Commit,
                Abort, Shutdown
  <2>2. ASSUME NEW s \in Statuses, Post(s) \/ Delete(s) PROVE ~ hasty
    BY <2>2 DEF Post, Delete
  <2>3. ASSUME UNCHANGED hasty PROVE ~ hasty
    BY <2>3
  <2> QED BY <2>1, <2>2, <2>3 DEF Next, Read, Dismiss, Request, Fetch, Discard, Begin, vars
<1>2. CASE UNCHANGED vars
  BY <1>1, <1>2 DEF vars, Calm, Spreading, Removing, OneDoomed, FullOnly, Through, Pending, Live
<1>3. CASE Next
  <2>1. ASSUME NEW w \in Workers, Step(w) \/ Shutdown(w) PROVE \A v \in Workers : Through(v)'
    <3>1. \A v \in Workers \ {w} : thread'[v] = thread[v] /\ held'[v] = held[v]
      BY <2>1, HeldByOne, StepThread DEF OnlyThread, Safe, TypeOK
    <3> QED BY <1>1, <1>3, <2>1, <3>1, StayThrough, StepThrough
  <2>2. ASSUME NEW w \in Workers, NEW j \in queue, Begin(w, j) PROVE \A v \in Workers : Through(v)'
    <3>1. /\ OnlyThread(w) /\ thread'[w].job = j /\ thread'[w].at = "load"
          /\ thread'[w].todo = OwnersOf(j) /\ UNCHANGED held
      BY <2>2, BeginThread DEF Begin, Safe
    <3>2. \A v \in Workers \ {w} : thread'[v] = thread[v] /\ held'[v] = held[v]
      BY <3>1 DEF OnlyThread, Safe, TypeOK
    <3>3. Through(w)'
      BY <3>1 DEF Through, OwnersOf
    <3> QED BY <1>1, <1>3, <3>2, <3>3, StayThrough
  <2>3. ASSUME UNCHANGED <<thread, held>> PROVE \A v \in Workers : Through(v)'
    BY <1>1, <1>3, <2>3, StayThrough
  <2>4. \A v \in Workers : Through(v)'
    BY <1>3, <2>1, <2>2, <2>3 DEF Next, Post, Delete, Read, Dismiss, Request, Fetch, Discard
  <2> QED BY <1>1, <1>3, <2>4, JobsCalm, RowsCalm DEF Calm
<1> QED BY <1>2, <1>3

\* However many threads collide, are interrupted and try again: if statuses are
\* deleted one at a time, and not before the jobs that spread them are through,
\* no row names a status that is gone (Status#unlink_from_conversations).
THEOREM UnlinkedThen == Spec => []UnlinkedAtLeisure
<1>1. Init => Known /\ Target
  BY DEF Init, Known, Target, NoRow, Idle
<1>2. Safe /\ Known /\ Target /\ [Next]_vars => Known' /\ Target'
  BY KnownStep
<1>3. Init => Calm
  BY DEF Init, Calm, Spreading, Removing, OneDoomed, FullOnly, Through, Pending, NoRow
<1>4. Safe /\ (~ hasty => Calm) /\ Target /\ [Next]_vars => (~ hasty => Calm)'
  BY CalmStep
<1>5. (~ hasty => Calm) => UnlinkedAtLeisure
  BY DEF Calm, FullOnly, UnlinkedAtLeisure, Unlinked, Live
<1> QED BY <1>1, <1>2, <1>3, <1>4, <1>5, SafeAlways, PTL DEF Spec
=============================================================================
