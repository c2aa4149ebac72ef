----------------------------- MODULE InboxProofs -----------------------------
(* What holds of the inbox for any number of notes, announcements, threads *)
(* and deliveries.                                                         *)
EXTENDS Inbox, TLAPS

Phases ==
  {"start", "check", "lock", "find", "create", "distribute", "announceable",
   "announce", "distribute_reblog", "mark", "remove"}

\* What is done for which activities
Fits(t) ==
  /\ t.at \in {"check", "lock", "find", "create", "distribute"} => t.job.type \in {"Create", "Announce"}
  /\ t.at \in {"announceable", "announce", "distribute_reblog"} => t.job.type = "Announce"
  /\ t.at \in {"mark", "remove"} => t.job.type \in {"Delete", "Undo"}

Phased == \A w \in Workers : Busy(w) => Fits(thread[w])

LEMMA JobType ==
  ASSUME NEW j \in Jobs
  PROVE  /\ j.object \in Objects /\ NoteOf(j) \in Objects
         /\ j.type \in {"Create", "Delete"} => j.object \in Notes /\ NoteOf(j) = j.object
         /\ j.type \in {"Announce", "Undo"} => j.object \in Announces
         /\ j.type = "Announce" => NoteOf(j) \in Notes
         /\ j.type \in {"Create", "Delete", "Announce", "Undo"}
         /\ {j.to} \ {Shared} \subseteq Recipients
BY InboxAssumption DEF Jobs, NoteOf, Objects

LEMMA BusyType ==
  ASSUME TypeOK, NEW w \in Workers, Busy(w)
  PROVE  thread[w] \in [at : Phases, job : Jobs, id : Nat] /\ Job(w) \in Jobs
BY DEF TypeOK, Busy, Threads, Phases, Job

LEMMA GoType ==
  ASSUME TypeOK, NEW w \in Workers, Busy(w), NEW at \in Phases, NEW i \in Nat,
         Go(w, at) \/ GoWith(w, at, i)
  PROVE  thread' \in [Workers -> Threads]
<1>1. thread[w] \in [at : Phases, job : Jobs, id : Nat]
  BY BusyType
<1>2. [thread[w] EXCEPT !.at = at] \in Threads /\ [thread[w] EXCEPT !.at = at, !.id = i] \in Threads
  BY <1>1 DEF Threads, Phases
<1>3. thread \in [Workers -> Threads]
  BY DEF TypeOK
<1>4. CASE Go(w, at)
  BY <1>2, <1>3, <1>4 DEF Go
<1>5. CASE GoWith(w, at, i)
  BY <1>2, <1>3, <1>5 DEF GoWith
<1> QED BY <1>4, <1>5

LEMMA DoneType ==
  ASSUME TypeOK, NEW w \in Workers, Done(w)
  PROVE  thread' \in [Workers -> Threads]
BY DEF TypeOK, Done, Threads

LEMMA ReleasedType ==
  ASSUME TypeOK, NEW w \in Workers
  PROVE  Released(w) \in [Notes -> Workers \cup {NoOne, Dead}]
BY DEF TypeOK, Released

LEMMA RaiseType ==
  ASSUME TypeOK, NEW w \in Workers, Busy(w), Raise(w)
  PROVE  /\ queue' \subseteq Jobs
         /\ lock' \in [Notes -> Workers \cup {NoOne, Dead}]
         /\ thread' \in [Workers -> Threads]
BY BusyType, DoneType, ReleasedType DEF Raise, TypeOK

LEMMA RowType ==
  ASSUME TypeOK, NEW o \in Objects
  PROVE  /\ row[o] \in Nat /\ lastId + 1 \in Nat
         /\ [row EXCEPT ![o] = lastId + 1] \in [Objects -> Nat]
BY DEF TypeOK

-----------------------------------------------------------------------------
(* Types *)

LEMMA InitTypes == Init => TypeOK
BY InboxAssumption DEF Init, TypeOK, Threads

LEMMA CreateTypes ==
  ASSUME TypeOK, Phased, NEW w \in Workers, Busy(w),
         Check(w) \/ Lock(w) \/ Find(w) \/ Create(w) \/ Distribute(w)
  PROVE  TypeOK'
<1> DEFINE n == NoteOf(Job(w))
<1>0. /\ Job(w) \in Jobs /\ n \in Objects /\ {Job(w).to} \ {Shared} \subseteq Recipients
      /\ thread[w].id \in Nat /\ row[n] \in Nat
  BY BusyType, JobType, RowType
<1>1. CASE Check(w)
  <2>1. thread' \in [Workers -> Threads]
    BY <1>1, GoType, DoneType DEF Check, Phases
  <2>2. crossed' \subseteq Notes
    <3>1. n \in Notes
      BY <1>0, <1>1, BusyType, JobType DEF Check, Phased, Fits, Job, Phases
    <3> QED BY <1>1, <3>1 DEF Check, TypeOK
  <2> QED BY <1>1, <2>1, <2>2 DEF Check, TypeOK, bounds
<1>2. CASE Lock(w)
  <2>1. CASE lock[n] = NoOne
    <3>1. thread' \in [Workers -> Threads]
      BY <1>2, <2>1, GoType DEF Lock, Phases
    <3>2. lock' \in [Notes -> Workers \cup {NoOne, Dead}] /\ queue' = queue
      BY <1>2, <2>1 DEF Lock, TypeOK
    <3> QED BY <1>2, <3>1, <3>2 DEF Lock, TypeOK, bounds
  <2>2. CASE lock[n] # NoOne
    BY <1>2, <2>2, RaiseType DEF Lock, TypeOK, bounds
  <2> QED BY <2>1, <2>2
<1>3. CASE Find(w)
  <2>1. thread' \in [Workers -> Threads]
    BY <1>0, <1>3, GoType, DoneType DEF Find, Phases
  <2>2. lock' \in [Notes -> Workers \cup {NoOne, Dead}]
    BY <1>3, ReleasedType DEF Find, TypeOK
  <2>3. audience' \in [Notes -> SUBSET Recipients]
    BY <1>0, <1>3 DEF Find, TypeOK
  <2> QED BY <1>3, <2>1, <2>2, <2>3 DEF Find, TypeOK, bounds
<1>4. CASE Create(w)
  <2>1. CASE row[n] # 0
    BY <1>4, <2>1, RaiseType DEF Create, TypeOK, bounds
  <2>2. CASE row[n] = 0
    <3>1. lastId' \in Nat /\ row' \in [Objects -> Nat]
      BY <1>0, <1>4, <2>2, RowType DEF Create
    <3>2. thread' \in [Workers -> Threads]
      BY <1>4, <2>2, <3>1, GoType DEF Create, Phases
    <3>3. audience' \in [Notes -> SUBSET Recipients]
      BY <1>0, <1>4, <2>2 DEF Create, TypeOK
    <3> QED BY <1>4, <2>2, <3>1, <3>2, <3>3 DEF Create, TypeOK, bounds
  <2> QED BY <2>1, <2>2
<1>5. CASE Distribute(w)
  <2>1. thread' \in [Workers -> Threads]
    BY <1>0, <1>5, GoType, DoneType DEF Distribute, Phases
  <2>2. lock' \in [Notes -> Workers \cup {NoOne, Dead}]
    BY <1>5, ReleasedType DEF Distribute
  <2> QED BY <1>0, <1>5, <2>1, <2>2 DEF Distribute, TypeOK, bounds
<1> QED BY <1>1, <1>2, <1>3, <1>4, <1>5

LEMMA AnnounceTypes ==
  ASSUME TypeOK, NEW w \in Workers, Busy(w),
         FindOriginal(w) \/ Announceable(w) \/ Announce(w) \/ DistributeReblog(w)
  PROVE  TypeOK'
<1>0. /\ Job(w) \in Jobs /\ NoteOf(Job(w)) \in Objects /\ Job(w).object \in Objects
      /\ thread[w].id \in Nat /\ row[NoteOf(Job(w))] \in Nat
  BY BusyType, JobType, RowType
<1>1. CASE FindOriginal(w)
  <2>1. thread' \in [Workers -> Threads]
    BY <1>0, <1>1, GoType, DoneType DEF FindOriginal, Phases
  <2>2. lost' \subseteq Jobs
    BY <1>0, <1>1 DEF FindOriginal, TypeOK
  <2> QED BY <1>1, <2>1, <2>2 DEF FindOriginal, TypeOK, bounds
<1>2. CASE Announceable(w)
  <2>1. thread' \in [Workers -> Threads]
    BY <1>0, <1>2, GoType, DoneType DEF Announceable, Phases
  <2> QED BY <1>2, <2>1 DEF Announceable, TypeOK, bounds
<1>3. CASE Announce(w)
  <2>1. CASE Raise(w) /\ UNCHANGED <<row, lastId>>
    BY <1>3, <2>1, RaiseType DEF Announce, TypeOK, bounds
  <2>2. CASE lastId' = lastId + 1 /\ row' = [row EXCEPT ![Job(w).object] = lastId']
             /\ GoWith(w, "distribute_reblog", lastId') /\ UNCHANGED <<queue, lock>>
    <3>1. lastId' \in Nat /\ row' \in [Objects -> Nat]
      BY <1>0, <2>2, RowType
    <3>2. thread' \in [Workers -> Threads]
      BY <2>2, <3>1, GoType DEF Phases
    <3> QED BY <1>3, <2>2, <3>1, <3>2 DEF Announce, TypeOK, bounds
  <2> QED BY <1>3, <2>1, <2>2 DEF Announce
<1>4. CASE DistributeReblog(w)
  BY <1>0, <1>4, DoneType DEF DistributeReblog, TypeOK, bounds
<1> QED BY <1>1, <1>2, <1>3, <1>4

LEMMA DeleteTypes ==
  ASSUME TypeOK, NEW w \in Workers, Busy(w), LookUp(w) \/ LookUpReblog(w) \/ Mark(w) \/ Remove(w)
  PROVE  TypeOK'
<1>0. /\ Job(w) \in Jobs /\ Job(w).object \in Objects /\ row[Job(w).object] \in Nat
      /\ Job(w).type = "Delete" => Job(w).object \in Notes
  BY BusyType, JobType, RowType
<1>1. CASE LookUp(w)
  <2>1. thread' \in [Workers -> Threads]
    BY <1>0, <1>1, GoType DEF LookUp, Phases
  <2> QED BY <1>0, <1>1, <2>1 DEF LookUp, TypeOK, bounds
<1>2. CASE LookUpReblog(w)
  <2>1. thread' \in [Workers -> Threads]
    BY <1>0, <1>2, GoType DEF LookUpReblog, Phases
  <2> QED BY <1>2, <2>1 DEF LookUpReblog, TypeOK, bounds
<1>3. CASE Mark(w)
  <2>1. thread' \in [Workers -> Threads]
    BY <1>0, <1>3, GoType, DoneType DEF Mark, Phases
  <2>2. mark' \subseteq Objects /\ gone' \subseteq Notes
    BY <1>0, <1>3 DEF Mark, TypeOK
  <2> QED BY <1>3, <2>1, <2>2 DEF Mark, TypeOK, bounds
<1>4. CASE Remove(w)
  <2>1. thread' \in [Workers -> Threads]
    BY <1>4, DoneType DEF Remove
  <2>2. row' \in [Objects -> Nat]
    BY <1>4 DEF Remove, TypeOK
  <2>3. gone' \subseteq Notes /\ crossed' \subseteq Notes
    BY <1>4 DEF Remove, TypeOK
  <2> QED BY <1>4, <2>1, <2>2, <2>3 DEF Remove, TypeOK, bounds
<1> QED BY <1>1, <1>2, <1>3, <1>4

LEMMA StepTypes ==
  ASSUME TypeOK, Phased, [Next]_vars
  PROVE  TypeOK'
<1>1. CASE UNCHANGED vars
  BY <1>1 DEF vars, bounds, TypeOK
<1>2. ASSUME NEW o \in Objects, Publish(o) \/ Retract(o) \/ Forget(o) PROVE TypeOK'
  BY <1>2 DEF Publish, Retract, Forget, TypeOK, bounds
<1>3. ASSUME NEW n \in Notes, Expire(n) PROVE TypeOK'
  BY <1>3 DEF Expire, TypeOK, bounds
<1>4. ASSUME NEW j \in Jobs, Deliver(j) PROVE TypeOK'
  <2>1. deliveries' \in 0..MaxDeliveries
    BY <1>4, InboxAssumption DEF Deliver, TypeOK
  <2> QED BY <1>4, <2>1 DEF Deliver, TypeOK
<1>5. ASSUME NEW w \in Workers, Step(w) PROVE TypeOK'
  BY <1>5, CreateTypes, AnnounceTypes, DeleteTypes DEF Step
<1>6. ASSUME NEW w \in Workers, Stop(w) PROVE TypeOK'
  <2>1. stops' \in 0..MaxStops
    BY <1>6, InboxAssumption DEF Stop, TypeOK
  <2>2. cut' \subseteq Objects
    BY <1>6 DEF Stop, TypeOK, Undistributed
  <2> QED BY <1>6, <2>1, <2>2, RaiseType DEF Stop, TypeOK
<1>7. ASSUME NEW w \in Workers, Kill(w) PROVE TypeOK'
  <2>1. kills' \in 0..MaxKills
    BY <1>7, InboxAssumption DEF Kill, TypeOK
  <2>2. cut' \subseteq Objects
    BY <1>7 DEF Kill, TypeOK, Undistributed
  <2>3. lost' \subseteq Jobs
    BY <1>7, BusyType DEF Kill, TypeOK
  <2>4. thread' \in [Workers -> Threads]
    BY <1>7, DoneType DEF Kill
  <2>5. lock' \in [Notes -> Workers \cup {NoOne, Dead}]
    BY <1>7 DEF Kill, TypeOK
  <2> QED BY <1>7, <2>1, <2>2, <2>3, <2>4, <2>5 DEF Kill, TypeOK
<1>8. ASSUME NEW w \in Workers, NEW j \in queue, Take(w, j) PROVE TypeOK'
  <2>1. j \in Jobs
    BY DEF TypeOK
  <2>2. thread' \in [Workers -> Threads]
    BY <1>8, <2>1 DEF Take, TypeOK, Threads
  <2> QED BY <1>8, <2>2 DEF Take, TypeOK, bounds
<1> QED BY <1>1, <1>2, <1>3, <1>4, <1>5, <1>6, <1>7, <1>8 DEF Next

\* What a thread's own step makes of it
LEMMA Moves ==
  ASSUME TypeOK, NEW w \in Workers, Busy(w), NEW at \in Phases, NEW i \in Nat
  PROVE  /\ Go(w, at) => /\ thread'[w] = [thread[w] EXCEPT !.at = at]
                         /\ thread'[w].at = at /\ thread'[w].job = Job(w)
                         /\ thread'[w].id = thread[w].id
         /\ GoWith(w, at, i) => /\ thread'[w] = [thread[w] EXCEPT !.at = at, !.id = i]
                                /\ thread'[w].at = at /\ thread'[w].job = Job(w)
                                /\ thread'[w].id = i
         /\ Done(w) => thread'[w] = Idle
<1>1. thread \in [Workers -> Threads] /\ thread[w] \in [at : Phases, job : Jobs, id : Nat]
  BY BusyType DEF TypeOK
<1>2. Go(w, at) => thread'[w] = [thread[w] EXCEPT !.at = at]
  BY <1>1 DEF Go
<1>3. GoWith(w, at, i) => thread'[w] = [thread[w] EXCEPT !.at = at, !.id = i]
  BY <1>1 DEF GoWith
<1>4. Done(w) => thread'[w] = Idle
  BY <1>1 DEF Done
<1> QED BY <1>1, <1>2, <1>3, <1>4 DEF Job

LEMMA Ends ==
  ASSUME TypeOK, NEW w \in Workers, Done(w)
  PROVE  thread'[w] = Idle /\ thread'[w].at = "idle" /\ ~ Busy(w)'
BY DEF Done, TypeOK, Idle, Busy

LEMMA OneMoves ==
  ASSUME TypeOK, NEW w \in Workers, Step(w) \/ Stop(w) \/ Kill(w) \/ \E j \in queue : Take(w, j)
  PROVE  \A v \in Workers : v # w => thread'[v] = thread[v]
<1>1. thread \in [Workers -> Threads]
  BY DEF TypeOK
<1> QED BY <1>1 DEF Step, Stop, Kill, Take, Check, Lock, Find, Create, Distribute, FindOriginal,
  Announceable, Announce, DistributeReblog, LookUp, LookUpReblog, Mark, Remove, Go, GoWith, Done, Raise

LEMMA PhasedStep ==
  ASSUME TypeOK, Phased, NEW w \in Workers, Step(w)
  PROVE  Phased'
<1>0. Busy(w) /\ Job(w) \in Jobs /\ Fits(thread[w]) /\ thread[w].job = Job(w)
  BY BusyType DEF Step, Phased, Job
<1>1. SUFFICES thread'[w] # Idle => Fits(thread'[w])
  BY OneMoves DEF Phased, Busy
<1>2. /\ row[NoteOf(Job(w))] \in Nat /\ row[Job(w).object] \in Nat /\ lastId + 1 \in Nat
      /\ Job(w).type \in {"Create", "Delete", "Announce", "Undo"}
  BY <1>0, JobType, RowType
<1>3. CASE Check(w)
  BY <1>0, <1>3, Moves DEF Check, Fits, Phases
<1>4. CASE Lock(w)
  BY <1>0, <1>4, Moves DEF Lock, Raise, Fits, Phases
<1>5. CASE Find(w)
  BY <1>0, <1>2, <1>5, Moves DEF Find, Fits, Phases
<1>6. CASE Create(w)
  BY <1>0, <1>2, <1>6, Moves DEF Create, Raise, Fits, Phases
<1>7. CASE Distribute(w)
  BY <1>0, <1>7, Moves DEF Distribute, Fits, Phases
<1>8. CASE FindOriginal(w)
  BY <1>0, <1>2, <1>8, Moves DEF FindOriginal, Fits, Phases
<1>9. CASE Announceable(w)
  BY <1>0, <1>9, Moves DEF Announceable, Fits, Phases
<1>10. CASE Announce(w)
  BY <1>0, <1>2, <1>10, Moves DEF Announce, Raise, Fits, Phases
<1>11. CASE DistributeReblog(w)
  BY <1>0, <1>11, Moves DEF DistributeReblog, Fits, Phases
<1>12. CASE LookUp(w)
  BY <1>0, <1>2, <1>12, Moves DEF LookUp, Fits, Phases
<1>13. CASE LookUpReblog(w)
  BY <1>0, <1>2, <1>13, Moves DEF LookUpReblog, Fits, Phases
<1>14. CASE Mark(w)
  BY <1>0, <1>14, Moves DEF Mark, Fits, Phases
<1>15. CASE Remove(w)
  BY <1>0, <1>15, Moves DEF Remove, Fits, Phases
<1> QED BY <1>3, <1>4, <1>5, <1>6, <1>7, <1>8, <1>9, <1>10, <1>11, <1>12, <1>13, <1>14, <1>15 DEF Step

LEMMA StepPhased ==
  ASSUME TypeOK, Phased, [Next]_vars
  PROVE  Phased'
<1>1. CASE UNCHANGED thread
  BY <1>1 DEF Phased, Busy
<1>2. ASSUME NEW w \in Workers, Step(w) PROVE Phased'
  BY <1>2, PhasedStep
<1>3. ASSUME NEW w \in Workers, Stop(w) \/ Kill(w) PROVE Phased'
  <2>1. thread'[w] = Idle
    BY <1>3 DEF Stop, Kill, Raise, Done, TypeOK
  <2> QED BY <1>3, <2>1, OneMoves DEF Phased, Busy
<1>4. ASSUME NEW w \in Workers, NEW j \in queue, Take(w, j) PROVE Phased'
  <2>1. j \in Jobs
    BY DEF TypeOK
  <2>2. thread'[w] = [at |-> IF j.type = "Create" THEN "check" ELSE "start", job |-> j, id |-> 0]
    BY <1>4 DEF Take, TypeOK
  <2>3. Fits(thread'[w])
    BY <2>2 DEF Fits
  <2> QED BY <1>4, <2>3, OneMoves DEF Phased, Busy
<1> QED BY <1>1, <1>2, <1>3, <1>4
  DEF Next, vars, Publish, Retract, Forget, Expire, Deliver

LEMMA TypesAlways == Spec => [](TypeOK /\ Phased)
<1>1. Init => TypeOK /\ Phased
  BY InitTypes DEF Init, Phased, Busy
<1> QED BY <1>1, StepTypes, StepPhased, PTL DEF Spec

\* Every state is one of the model's, whatever arrives and whatever stops
\* (ActivityPub::Activity and its subclasses).
THEOREM TypeCorrect == Spec => []TypeOK
BY TypesAlways, PTL
-----------------------------------------------------------------------------
(* What was deleted *)

Created(n) == \E v \in Workers : Creating(v, n)

\* There is no status of the note and nobody on the way to create one
Quiet(n) == row[n] = 0 /\ ~ Created(n)

GoneQuiet == \A n \in gone \ crossed : n \in mark /\ Quiet(n)

At(w, n, at) == Busy(w) /\ Job(w).object = n /\ thread[w].at = at

\* A thread that deletes: it found nothing, and nothing comes; or what it found
\* is there until somebody has deleted it
DeletingOf(w, n) ==
  /\ At(w, n, "mark") /\ thread[w].id = 0 => Quiet(n)
  /\ (At(w, n, "mark") /\ thread[w].id # 0) \/ At(w, n, "remove")
     => thread[w].id # 0 /\ (row[n] = thread[w].id \/ n \in gone)
  /\ At(w, n, "remove") => n \in mark

Deleting == \A w \in Workers, n \in Notes \ crossed : DeletingOf(w, n)

DInv == TypeOK /\ Phased /\ GoneQuiet /\ Deleting

\* A mark goes away by Forget only
LEMMA MarksStay ==
  ASSUME DInv, [Next]_vars, NEW n \in Notes \ crossed'
  PROVE  n \notin crossed /\ (n \in mark => n \in mark') /\ (n \in gone => n \in gone')
<1>1. CASE UNCHANGED <<mark, gone, crossed>>
  BY <1>1
<1>2. ASSUME NEW o \in Objects, Forget(o) PROVE n \notin crossed /\ (n \in mark => n \in mark') /\ (n \in gone => n \in gone')
  BY <1>2 DEF Forget
<1>3. ASSUME NEW w \in Workers, Step(w) PROVE n \notin crossed /\ (n \in mark => n \in mark') /\ (n \in gone => n \in gone')
  BY <1>3 DEF Step, Check, Lock, Find, Create, Distribute, FindOriginal, Announceable, Announce,
    DistributeReblog, LookUp, LookUpReblog, Mark, Remove
<1> QED BY <1>1, <1>2, <1>3 DEF Next, vars, Publish, Retract, Expire, Deliver, Stop, Kill, Take

\* The status of a note appears by a thread that creates it, and vanishes with
\* a Delete
LEMMA RowChanges ==
  ASSUME DInv, [Next]_vars, NEW n \in Notes
  PROVE  \/ row'[n] = row[n]
         \/ row'[n] = 0 /\ n \in gone'
         \/ row[n] = 0 /\ Created(n)
<1>0. n \in Objects /\ n \notin Announces /\ row \in [Objects -> Nat]
  BY InboxAssumption DEF Objects, DInv, TypeOK
<1>1. CASE UNCHANGED row
  BY <1>1
<1>2. ASSUME NEW w \in Workers, Busy(w), Create(w), row' # row, row'[n] # row[n]
      PROVE  row[n] = 0 /\ Created(n)
  <2>1. row[NoteOf(Job(w))] = 0 /\ n = NoteOf(Job(w))
    BY <1>0, <1>2 DEF Create
  <2> QED BY <1>2, <2>1 DEF Create, Created, Creating
<1>3. ASSUME NEW w \in Workers, Busy(w), Announce(w) PROVE row'[n] = row[n]
  <2>1. Job(w).object \in Announces
    BY <1>3, BusyType, JobType DEF DInv, Phased, Fits, Announce, Job
  <2> QED BY <1>0, <1>3, <2>1 DEF Announce
<1>4. ASSUME NEW w \in Workers, Busy(w), Remove(w), row'[n] # row[n]
      PROVE  row'[n] = 0 /\ n \in gone'
  <2>1. n = Job(w).object
    BY <1>0, <1>4 DEF Remove
  <2> QED BY <1>0, <1>4, <2>1 DEF Remove
<1>5. ASSUME NEW w \in Workers, Step(w) PROVE row' = row \/ (Busy(w) /\ (Create(w) \/ Announce(w) \/ Remove(w)))
  BY <1>5 DEF Step, Check, Lock, Find, Distribute, FindOriginal, Announceable,
    DistributeReblog, LookUp, LookUpReblog, Mark
<1> QED BY <1>1, <1>2, <1>3, <1>4, <1>5
  DEF Next, vars, Publish, Retract, Forget, Expire, Deliver, Stop, Kill, Take

\* Somebody new creates a note only after a look at the mark
LEMMA NewCreators ==
  ASSUME DInv, [Next]_vars, NEW n \in Notes \ crossed', Created(n)'
  PROVE  Created(n) \/ (n \notin mark /\ ~ AboutToMark(n))
<1> PICK v \in Workers : Creating(v, n)'
  BY DEF Created
<1>1. CASE thread'[v] = thread[v]
  BY <1>1 DEF Created, Creating, Busy, Job
<1>2. ASSUME NEW w \in Workers, Step(w), thread'[v] # thread[v] PROVE Created(n) \/ (n \notin mark /\ ~ AboutToMark(n))
  <2>0. w = v /\ Busy(v) /\ thread[v].job = Job(v) /\ Job(v) \in Jobs
        /\ row[NoteOf(Job(v))] \in Nat /\ row[Job(v).object] \in Nat /\ lastId + 1 \in Nat
    BY <1>2, OneMoves, BusyType, JobType, RowType DEF DInv, Step, Job
  <2>1. thread'[v].at \in {"lock", "find", "create"}
    BY DEF Creating
  <2>2. Check(v) \/ Lock(v) \/ Find(v)
    <3>1. ~ Create(v)
      BY <2>0, <2>1, Moves, Ends DEF Create, Raise, Phases, Idle, DInv
    <3>2. ~ Distribute(v)
      BY <2>0, <2>1, Moves, Ends DEF Distribute, Phases, Idle, DInv
    <3>3. ~ FindOriginal(v)
      BY <2>0, <2>1, Moves, Ends DEF FindOriginal, Phases, Idle, DInv
    <3>4. ~ Announceable(v)
      BY <2>0, <2>1, Moves, Ends DEF Announceable, Phases, Idle, DInv
    <3>5. ~ Announce(v)
      BY <2>0, <2>1, Moves, Ends DEF Announce, Raise, Phases, Idle, DInv
    <3>6. ~ DistributeReblog(v)
      BY <2>0, <2>1, Moves, Ends DEF DistributeReblog, Phases, Idle, DInv
    <3>7. ~ LookUp(v)
      BY <2>0, <2>1, Moves, Ends DEF LookUp, Phases, Idle, DInv
    <3>8. ~ LookUpReblog(v)
      BY <2>0, <2>1, Moves, Ends DEF LookUpReblog, Phases, Idle, DInv
    <3>9. ~ Mark(v)
      BY <2>0, <2>1, Moves, Ends DEF Mark, Phases, Idle, DInv
    <3>10. ~ Remove(v)
      BY <2>0, <2>1, Moves, Ends DEF Remove, Phases, Idle, DInv
    <3> QED BY <1>2, <2>0, <3>1, <3>2, <3>3, <3>4, <3>5, <3>6, <3>7, <3>8, <3>9, <3>10 DEF Step
  <2>3. thread'[v].job = Job(v)
    <3>1. CASE Check(v)
      BY <2>0, <2>1, <3>1, Moves, Ends DEF Check, Phases, Idle, DInv
    <3>2. CASE Lock(v)
      BY <2>0, <2>1, <3>2, Moves, Ends DEF Lock, Raise, Phases, Idle, DInv
    <3>3. CASE Find(v)
      BY <2>0, <2>1, <3>3, Moves, Ends DEF Find, Phases, Idle, DInv
    <3> QED BY <2>2, <3>1, <3>2, <3>3
  <2>4. NoteOf(Job(v)) = n
    BY <2>3 DEF Creating, Job
  <2>5. CASE Check(v)
    <3>1. n \notin mark
      BY <2>0, <2>1, <2>4, <2>5, Moves, Ends DEF Check, Idle, DInv
    <3>2. ~ AboutToMark(n)
      BY <2>4, <2>5, <3>1 DEF Check
    <3> QED BY <3>1, <3>2
  <2>6. CASE Lock(v) \/ Find(v)
    BY <2>0, <2>4, <2>6 DEF Lock, Find, Created, Creating
  <2> QED BY <2>2, <2>5, <2>6
<1>3. ASSUME NEW w \in Workers, Stop(w) \/ Kill(w), thread'[v] # thread[v] PROVE FALSE
  <2>1. v = w /\ thread'[v] = Idle
    BY <1>3, OneMoves, Ends DEF Stop, Kill, Raise, Done, TypeOK, DInv
  <2> QED BY <2>1 DEF Creating, Busy
<1>4. ASSUME NEW w \in Workers, NEW j \in queue, Take(w, j), thread'[v] # thread[v] PROVE FALSE
  <2>1. v = w /\ thread'[v].at \in {"check", "start"}
    BY <1>4, OneMoves, Ends DEF Take, TypeOK, DInv
  <2> QED BY <2>1 DEF Creating
<1> QED BY <1>1, <1>2, <1>3, <1>4
  DEF Next, vars, Publish, Retract, Forget, Expire, Deliver

\* A note is gone when its mark is set, its status removed and nobody creates it
LEMMA Going ==
  ASSUME DInv, [Next]_vars, NEW n \in Notes \ crossed', n \in gone', n \notin gone
  PROVE  /\ n \in mark' /\ row'[n] = 0 /\ ~ Created(n)
         /\ n \in mark \/ AboutToMark(n)
<1>1. PICK w \in Workers : Busy(w) /\ (Mark(w) \/ Remove(w)) /\ Job(w).object = n
  BY DEF Next, vars, Publish, Retract, Forget, Expire, Deliver, Stop, Kill, Take, Step,
    Check, Lock, Find, Create, Distribute, FindOriginal, Announceable, Announce,
    DistributeReblog, LookUp, LookUpReblog, Mark, Remove
<1>2. n \in Notes \ crossed /\ DeletingOf(w, n) /\ row \in [Objects -> Nat] /\ n \in Objects
  BY MarksStay DEF DInv, Deleting, TypeOK, Objects
<1>3. CASE Mark(w)
  <2>1. thread[w].id = 0
    BY <1>3 DEF Mark
  <2> QED BY <1>1, <1>2, <1>3, <2>1 DEF Mark, DeletingOf, At, Quiet, AboutToMark
<1>4. CASE Remove(w)
  <2>1. n \in mark /\ row[n] = thread[w].id
    BY <1>1, <1>2, <1>4 DEF Remove, DeletingOf, At
  <2>2. ~ Created(n)
    BY <1>1, <1>4 DEF Remove, Created
  <2> QED BY <1>1, <1>2, <1>4, <2>1, <2>2 DEF Remove
<1> QED BY <1>1, <1>3, <1>4

LEMMA GoneQuietStep ==
  ASSUME DInv, [Next]_vars
  PROVE  GoneQuiet'
<1> SUFFICES ASSUME NEW n \in gone' \ crossed' PROVE n \in mark' /\ row'[n] = 0 /\ ~ Created(n)'
  BY DEF GoneQuiet, Quiet
<1>0. n \in Notes
  BY StepTypes DEF DInv, TypeOK
<1>1. CASE n \in gone
  <2>1. n \in mark /\ row[n] = 0 /\ ~ Created(n)
    BY <1>0, <1>1, MarksStay DEF DInv, GoneQuiet, Quiet
  <2> QED BY <1>0, <2>1, MarksStay, RowChanges, NewCreators
<1>2. CASE n \notin gone
  BY <1>0, <1>2, Going, NewCreators
<1> QED BY <1>1, <1>2

\* How a thread comes to set a mark or to remove a status
LEMMA ToDelete ==
  ASSUME DInv, NEW w \in Workers, Step(w), NEW n \in Notes \ crossed',
         At(w, n, "mark")' \/ At(w, n, "remove")'
  PROVE  \/ /\ Job(w).object = n /\ thread'[w].at = "mark" /\ thread'[w].id = row[n]
            /\ row' = row /\ (row[n] = 0 => ~ Created(n))
         \/ /\ At(w, n, "mark") /\ thread[w].id # 0 /\ thread'[w].id = thread[w].id
            /\ thread'[w].at = "remove" /\ n \in mark'
<1>0. /\ Busy(w) /\ thread[w].job = Job(w) /\ Job(w) \in Jobs /\ n \notin Announces
      /\ row[NoteOf(Job(w))] \in Nat /\ row[Job(w).object] \in Nat /\ lastId + 1 \in Nat
  BY BusyType, JobType, RowType, InboxAssumption DEF DInv, Step, Job
<1>1. thread'[w].at \in {"mark", "remove"} /\ Job(w)'.object = n
  BY DEF At
<1>2. ~ (Check(w) \/ Lock(w) \/ Find(w) \/ Create(w) \/ Distribute(w))
  <2>1. ~ (Check(w) \/ Lock(w) \/ Find(w))
    BY <1>0, <1>1, Moves, Ends DEF Check, Lock, Find, Raise, Phases, Idle, DInv
  <2>2. ~ (Create(w) \/ Distribute(w))
    BY <1>0, <1>1, Moves, Ends DEF Create, Distribute, Raise, Phases, Idle, DInv
  <2> QED BY <2>1, <2>2
<1>3. ~ (FindOriginal(w) \/ Announceable(w) \/ Announce(w) \/ DistributeReblog(w))
  <2>1. ~ (FindOriginal(w) \/ Announceable(w))
    BY <1>0, <1>1, Moves, Ends DEF FindOriginal, Announceable, Phases, Idle, DInv
  <2>2. ~ (Announce(w) \/ DistributeReblog(w))
    BY <1>0, <1>1, Moves, Ends DEF Announce, DistributeReblog, Raise, Phases, Idle, DInv
  <2> QED BY <2>1, <2>2
<1>4. ~ LookUpReblog(w)
  <2> SUFFICES ASSUME LookUpReblog(w) PROVE FALSE
    OBVIOUS
  <2>1. Job(w).object \in Announces
    BY <1>0, JobType DEF LookUpReblog
  <2>2. thread'[w].job = Job(w)
    BY <1>0, Moves, Ends DEF LookUpReblog, Phases, DInv
  <2> QED BY <1>0, <1>1, <2>1, <2>2 DEF Job
<1>5. ~ Remove(w)
  BY <1>0, <1>1, Moves, Ends DEF Remove, Idle, Phases, DInv
<1>6. CASE LookUp(w)
  <2>1. thread'[w].at = "mark" /\ thread'[w].id = row[Job(w).object] /\ thread'[w].job = Job(w)
    BY <1>0, <1>6, Moves, Ends DEF LookUp, Phases, DInv
  <2>2. Job(w).object = n
    BY <1>1, <2>1 DEF Job
  <2> QED BY <1>6, <2>1, <2>2 DEF LookUp, Created
<1>7. CASE Mark(w)
  <2>1. thread[w].id # 0 /\ Go(w, "remove")
    BY <1>0, <1>1, <1>7, Moves, Ends DEF Mark, Idle, Phases, DInv
  <2>2. thread'[w].at = "remove" /\ thread'[w].id = thread[w].id /\ thread'[w].job = Job(w)
    BY <1>0, <2>1, Moves, Ends DEF Phases, DInv
  <2>3. Job(w).object = n
    BY <1>1, <2>2 DEF Job
  <2> QED BY <1>0, <1>7, <2>1, <2>2, <2>3 DEF Mark, At
<1> QED BY <1>2, <1>3, <1>4, <1>5, <1>6, <1>7 DEF Step

\* One that was there already
LEMMA StillDeleting ==
  ASSUME DInv, [Next]_vars, NEW w \in Workers, NEW n \in Notes \ crossed', thread'[w] = thread[w]
  PROVE  DeletingOf(w, n)'
<1>0. DeletingOf(w, n) /\ n \notin crossed
  BY MarksStay DEF DInv, Deleting
<1>1. \A at \in {"mark", "remove"} : At(w, n, at)' <=> At(w, n, at)
  BY DEF At, Busy, Job
<1>2. ASSUME At(w, n, "mark"), thread[w].id = 0 PROVE row'[n] = 0 /\ ~ Created(n)'
  <2>1. row[n] = 0 /\ ~ Created(n)
    BY <1>0, <1>2 DEF DeletingOf, Quiet
  <2>2. AboutToMark(n)
    BY <1>2 DEF At, AboutToMark
  <2> QED BY <2>1, <2>2, RowChanges, NewCreators
<1>3. ASSUME (At(w, n, "mark") /\ thread[w].id # 0) \/ At(w, n, "remove")
      PROVE  thread[w].id # 0 /\ (row'[n] = thread[w].id \/ n \in gone')
  <2>1. thread[w].id # 0 /\ (row[n] = thread[w].id \/ n \in gone)
    BY <1>0, <1>3 DEF DeletingOf
  <2> QED BY <2>1, RowChanges, MarksStay
<1>4. At(w, n, "remove") => n \in mark'
  BY <1>0, MarksStay DEF DeletingOf
<1> QED BY <1>1, <1>2, <1>3, <1>4 DEF DeletingOf, Quiet

LEMMA DeletingStep ==
  ASSUME DInv, [Next]_vars
  PROVE  Deleting'
<1> SUFFICES ASSUME NEW w \in Workers, NEW n \in Notes \ crossed' PROVE DeletingOf(w, n)'
  BY DEF Deleting
<1>1. CASE thread'[w] = thread[w]
  BY <1>1, StillDeleting
<1>2. ASSUME Step(w), At(w, n, "mark")' \/ At(w, n, "remove")' PROVE DeletingOf(w, n)'
  <2>1. CASE /\ Job(w).object = n /\ thread'[w].at = "mark" /\ thread'[w].id = row[n]
             /\ row' = row /\ (row[n] = 0 => ~ Created(n))
    <3>1. ASSUME row[n] = 0, NEW v \in Workers, Creating(v, n)' PROVE FALSE
      <4>1. v # w
        BY <2>1, <3>1 DEF Creating
      <4>2. thread'[v] = thread[v]
        BY <1>2, <4>1, OneMoves DEF DInv
      <4>3. Creating(v, n)
        BY <3>1, <4>2 DEF Creating, Busy, Job
      <4> QED BY <2>1, <3>1, <4>3 DEF Created
    <3> QED BY <2>1, <3>1 DEF DeletingOf, At, Quiet, Created
  <2>2. CASE /\ At(w, n, "mark") /\ thread[w].id # 0 /\ thread'[w].id = thread[w].id
             /\ thread'[w].at = "remove" /\ n \in mark'
    <3>1. row[n] = thread[w].id \/ n \in gone
      BY <2>2, MarksStay DEF DInv, Deleting, DeletingOf
    <3>2. row'[n] = thread[w].id \/ n \in gone'
      BY <2>2, <3>1, RowChanges, MarksStay
    <3> QED BY <2>2, <3>2 DEF DeletingOf, At
  <2> QED BY <1>2, <2>1, <2>2, ToDelete DEF DInv
<1>3. CASE ~ (At(w, n, "mark")' \/ At(w, n, "remove")')
  BY <1>3 DEF DeletingOf
<1>4. ASSUME NEW v \in Workers, Stop(v) \/ Kill(v) \/ \E j \in queue : Take(v, j), thread'[w] # thread[w]
      PROVE  ~ (At(w, n, "mark")' \/ At(w, n, "remove")')
  <2>1. v = w
    BY <1>4, OneMoves DEF DInv
  <2>2. thread'[w] = Idle \/ thread'[w].at \in {"check", "start"}
    BY <1>4, <2>1 DEF Stop, Kill, Raise, Done, Take, TypeOK, DInv
  <2> QED BY <2>2 DEF At, Busy
<1>5. ASSUME NEW v \in Workers, Step(v), thread'[w] # thread[w] PROVE Step(w)
  BY <1>5, OneMoves DEF DInv
<1> QED BY <1>1, <1>2, <1>3, <1>4, <1>5
  DEF Next, vars, Publish, Retract, Forget, Expire, Deliver

LEMMA DInvAlways == Spec => []DInv
<1>1. Init => DInv
  <2> SUFFICES ASSUME Init PROVE DInv
    OBVIOUS
  <2> QED BY InitTypes DEF Init, DInv, Phased, Busy, GoneQuiet, Deleting, DeletingOf, At
<1>2. DInv /\ [Next]_vars => DInv'
  BY StepTypes, StepPhased, GoneQuietStep, DeletingStep DEF DInv
<1> QED BY <1>1, <1>2, PTL DEF Spec

\* A deleted note does not come back, in whatever order and how often its
\* Create and announcements of it are performed, if no Create had looked for
\* the mark before the Delete looked for the note (delete_arrived_first?,
\* Delete#delete_note).
THEOREM DeletedAlways == Spec => []DeletedStaysGone
<1>1. DInv => DeletedStaysGone
  BY DEF DInv, GoneQuiet, Quiet, DeletedStaysGone
<1> QED BY <1>1, DInvAlways, PTL

-----------------------------------------------------------------------------
(* Whom a note reaches *)

\* A thread that created the note for one of our accounts has it among those
\* mentioned
OwnedBy(w) ==
  Busy(w) /\ thread[w].at = "distribute" /\ Job(w).type = "Create" /\ Job(w).to # Shared
  => \/ Job(w).object \in crossed \cup gone
     \/ row[Job(w).object] # 0 /\ Job(w).to \in audience[Job(w).object]

Owned == \A w \in Workers : OwnedBy(w)

LEMMA AudienceGrows ==
  ASSUME DInv, [Next]_vars, NEW n \in Notes, row[n] # 0
  PROVE  audience[n] \subseteq audience'[n]
<1>1. CASE UNCHANGED audience
  BY <1>1
<1>2. ASSUME NEW w \in Workers, Find(w) PROVE audience[n] \subseteq audience'[n]
  BY <1>2 DEF Find, DInv, TypeOK
<1>3. ASSUME NEW w \in Workers, Create(w) PROVE audience[n] \subseteq audience'[n]
  BY <1>3 DEF Create, DInv, TypeOK
<1> QED BY <1>1, <1>2, <1>3
  DEF Next, vars, Publish, Retract, Forget, Expire, Deliver, Stop, Kill, Take, Step,
    Check, Lock, Distribute, FindOriginal, Announceable, Announce,
    DistributeReblog, LookUp, LookUpReblog, Mark, Remove

LEMMA ObjectIsNote ==
  ASSUME DInv, NEW w \in Workers, Busy(w), Job(w).type = "Create"
  PROVE  /\ Job(w).object \in Notes /\ NoteOf(Job(w)) = Job(w).object /\ Job(w) \in Jobs
         /\ thread[w].job = Job(w)
         /\ Job(w).to # Shared => Job(w).to \in Recipients
<1>1. Job(w) \in Jobs
  BY BusyType DEF DInv
<1>2. Job(w).to \in Recipients \cup {Shared}
  BY <1>1 DEF Jobs
<1> QED BY <1>1, <1>2, JobType DEF Job

LEMMA StillOwned ==
  ASSUME DInv, [Next]_vars, NEW w \in Workers, OwnedBy(w), thread'[w] = thread[w]
  PROVE  OwnedBy(w)'
<1> SUFFICES ASSUME Busy(w), thread[w].at = "distribute", Job(w).type = "Create", Job(w).to # Shared
             PROVE  \/ Job(w).object \in crossed' \cup gone'
                    \/ row'[Job(w).object] # 0 /\ Job(w).to \in audience'[Job(w).object]
  BY DEF OwnedBy, Busy, Job
<1> DEFINE n == Job(w).object
<1>1. n \in Notes
  BY ObjectIsNote
<1>2. CASE n \in crossed'
  BY <1>2
<1>3. CASE n \notin crossed' /\ n \in gone
  BY <1>1, <1>3, MarksStay
<1>4. CASE n \notin crossed' /\ n \notin gone
  <2>1. row[n] # 0 /\ Job(w).to \in audience[n]
    BY <1>1, <1>4, MarksStay DEF OwnedBy
  <2> QED BY <1>1, <2>1, RowChanges, AudienceGrows
<1> QED BY <1>2, <1>3, <1>4

LEMMA ToDistribute ==
  ASSUME DInv, NEW w \in Workers, Step(w), thread'[w].at = "distribute", Job(w)'.type = "Create"
  PROVE  /\ Create(w) /\ row[NoteOf(Job(w))] = 0 /\ Job(w)' = Job(w) /\ Busy(w)
<1>0. /\ Busy(w) /\ thread[w].job = Job(w) /\ Job(w) \in Jobs
      /\ row[NoteOf(Job(w))] \in Nat /\ row[Job(w).object] \in Nat /\ lastId + 1 \in Nat
  BY BusyType, JobType, RowType DEF DInv, Step, Job
<1>1. ~ Check(w)
  BY <1>0, Moves, Ends DEF Check, Phases, DInv
<1>2. ~ Lock(w)
  BY <1>0, Moves, Ends DEF Lock, Raise, Phases, DInv
<1>3. ~ Find(w)
  BY <1>0, Moves, Ends DEF Find, Phases, DInv
<1>4. ~ Distribute(w)
  BY <1>0, Moves, Ends DEF Distribute, Phases, DInv
<1>5. ~ FindOriginal(w)
  BY <1>0, Moves, Ends DEF FindOriginal, Phases, DInv
<1>6. ~ Announceable(w)
  BY <1>0, Moves, Ends DEF Announceable, Phases, DInv
<1>7. ~ Announce(w)
  BY <1>0, Moves, Ends DEF Announce, Raise, Phases, DInv
<1>8. ~ (DistributeReblog(w) \/ Remove(w))
  BY <1>0, Ends DEF DistributeReblog, Remove, DInv
<1>9. ~ LookUp(w)
  BY <1>0, Moves, Ends DEF LookUp, Phases, DInv
<1>10. ~ LookUpReblog(w)
  BY <1>0, Moves, Ends DEF LookUpReblog, Phases, DInv
<1>11. ~ Mark(w)
  BY <1>0, Moves, Ends DEF Mark, Phases, DInv
<1>12. Create(w)
  BY <1>1, <1>2, <1>3, <1>4, <1>5, <1>6, <1>7, <1>8, <1>9, <1>10, <1>11 DEF Step
<1>13. row[NoteOf(Job(w))] = 0 /\ lastId' = lastId + 1 /\ GoWith(w, "distribute", lastId')
  BY <1>0, <1>12, Ends DEF Create, Raise, DInv
<1>14. Job(w)' = Job(w)
  BY <1>0, <1>13, Moves DEF Phases, DInv, Job
<1> QED BY <1>0, <1>12, <1>13, <1>14

LEMMA OwnedStep ==
  ASSUME DInv, Owned, [Next]_vars
  PROVE  Owned'
<1> SUFFICES ASSUME NEW w \in Workers PROVE OwnedBy(w)'
  BY DEF Owned
<1>1. CASE thread'[w] = thread[w]
  BY <1>1, StillOwned DEF Owned
<1>2. CASE ~ (thread'[w].at = "distribute" /\ Job(w)'.type = "Create")
  BY <1>2 DEF OwnedBy
<1>3. ASSUME Step(w), thread'[w].at = "distribute", Job(w)'.type = "Create", Job(w)'.to # Shared
      PROVE  row'[Job(w)'.object] # 0 /\ Job(w)'.to \in audience'[Job(w)'.object]
  <2> DEFINE n == NoteOf(Job(w))
  <2>1. Create(w) /\ row[n] = 0 /\ Job(w)' = Job(w) /\ Busy(w)
    BY <1>3, ToDistribute
  <2>2. n = Job(w).object /\ n \in Notes /\ n \in Objects
    BY <1>3, <2>1, ObjectIsNote DEF Objects
  <2>3. row' = [row EXCEPT ![n] = lastId'] /\ lastId' = lastId + 1
        /\ audience' = [audience EXCEPT ![n] = {Job(w).to} \ {Shared}]
    BY <2>1 DEF Create
  <2>4. lastId \in Nat /\ row'[n] = lastId + 1 /\ audience'[n] = {Job(w).to} \ {Shared}
    BY <2>2, <2>3 DEF DInv, TypeOK
  <2>5. row'[n] # 0
    BY <2>4
  <2> QED BY <1>3, <2>1, <2>2, <2>4, <2>5
<1>4. ASSUME NEW v \in Workers, Stop(v) \/ Kill(v) \/ \E j \in queue : Take(v, j), thread'[w] # thread[w]
      PROVE  thread'[w].at # "distribute"
  <2>1. v = w
    BY <1>4, OneMoves DEF DInv
  <2>2. thread'[w].at = "idle" \/ thread'[w].at \in {"check", "start"}
    BY <1>4, <2>1, Ends DEF Stop, Kill, Raise, Take, TypeOK, DInv
  <2> QED BY <2>2
<1>5. ASSUME NEW v \in Workers, Step(v), thread'[w] # thread[w] PROVE Step(w)
  BY <1>5, OneMoves DEF DInv
<1>6. CASE UNCHANGED thread
  BY <1>1, <1>6
<1> QED BY <1>1, <1>2, <1>3, <1>4, <1>5, <1>6
  DEF Next, vars, Publish, Retract, Forget, Expire, Deliver, OwnedBy

LEMMA OwnedAlways == Spec => [](DInv /\ Owned)
<1>1. Init => Owned
  BY DEF Init, Owned, OwnedBy, Busy
<1>2. DInv /\ Owned /\ [Next]_vars => Owned'
  BY OwnedStep
<1> QED BY <1>1, <1>2, DInvAlways, PTL DEF Spec

Reached(w) ==
  LET j == Job(w) IN
  (Busy(w) /\ ~ Busy(w)' /\ j.type = "Create" /\ j.to # Shared)
  => \/ j.to \in audience'[j.object] \/ row'[j.object] = 0
     \/ j \in queue' \/ kills' # kills
     \/ j.object \in mark \cup crossed

LEMMA ReachedByStep ==
  ASSUME DInv, Owned, NEW w \in Workers, Step(w)
  PROVE  Reached(w)
<1> SUFFICES ASSUME Busy(w), thread'[w] = Idle, Job(w).type = "Create", Job(w).to # Shared,
                    Job(w) \notin queue', Job(w).object \notin mark \cup crossed
             PROVE  Job(w).to \in audience'[Job(w).object] \/ row'[Job(w).object] = 0
  BY DEF Reached, Busy
<1> DEFINE n == Job(w).object
<1>0. /\ n \in Notes /\ NoteOf(Job(w)) = n /\ thread[w].job = Job(w) /\ thread'[w].at = "idle"
      /\ row[n] \in Nat /\ n \in Objects /\ lastId + 1 \in Nat /\ Fits(thread[w])
      /\ Job(w).to \in Recipients
  BY ObjectIsNote, RowType DEF DInv, Objects, Idle, Phased
<1>1. ~ Raise(w)
  BY DEF Raise
<1>2. ~ Check(w)
  BY <1>0, Moves DEF Check, Phases, DInv
<1>3. ~ Lock(w)
  BY <1>0, <1>1, Moves DEF Lock, Phases, DInv
<1>4. CASE Find(w)
  <2>1. row[n] # 0
    BY <1>0, <1>4, Moves DEF Find, Phases, DInv
  <2> QED BY <1>0, <1>4, <2>1 DEF Find, DInv, TypeOK, Shared
<1>5. ~ Create(w)
  <2> SUFFICES ASSUME Create(w) PROVE FALSE
    OBVIOUS
  <2>1. lastId' = lastId + 1 /\ GoWith(w, "distribute", lastId')
    BY <1>1 DEF Create
  <2> QED BY <1>0, <2>1, Moves DEF Phases, DInv
<1>6. CASE Distribute(w)
  <2>1. n \in gone \/ (row[n] # 0 /\ Job(w).to \in audience[n])
    BY <1>0, <1>6 DEF Owned, OwnedBy, Distribute
  <2>2. n \in gone => row[n] = 0
    BY DEF DInv, GoneQuiet, Quiet
  <2> QED BY <1>6, <2>1, <2>2 DEF Distribute
<1>7. ~ (FindOriginal(w) \/ LookUp(w) \/ LookUpReblog(w))
  BY DEF FindOriginal, LookUp, LookUpReblog
<1>8. ~ (Announceable(w) \/ Announce(w) \/ DistributeReblog(w))
  BY <1>0 DEF Announceable, Announce, DistributeReblog, Fits
<1>9. ~ (Mark(w) \/ Remove(w))
  BY <1>0 DEF Mark, Remove, Fits
<1> QED BY <1>2, <1>3, <1>4, <1>5, <1>6, <1>7, <1>8, <1>9 DEF Step

LEMMA ReachedAlways ==
  ASSUME DInv, Owned, [Next]_vars, NEW w \in Workers
  PROVE  Reached(w)
<1>1. CASE thread'[w] = thread[w]
  BY <1>1 DEF Reached, Busy
<1>2. ASSUME NEW v \in Workers, Stop(v), thread'[w] # thread[w] PROVE Reached(w)
  BY <1>2, OneMoves DEF DInv, Stop, Raise, Reached
<1>3. ASSUME NEW v \in Workers, Kill(v) PROVE Reached(w)
  BY <1>3 DEF Kill, Reached, DInv, TypeOK
<1>4. ASSUME NEW v \in Workers, NEW j \in queue, Take(v, j), thread'[w] # thread[w] PROVE Reached(w)
  BY <1>4, OneMoves DEF DInv, Take, Reached
<1>5. ASSUME NEW v \in Workers, Step(v), thread'[w] # thread[w] PROVE Reached(w)
  BY <1>5, OneMoves, ReachedByStep DEF DInv
<1> QED BY <1>1, <1>2, <1>3, <1>4, <1>5
  DEF Next, vars, Publish, Retract, Forget, Expire, Deliver

\* Whoever creates a note, a job that delivers it to one of our accounts leaves
\* that account among those it mentions (Create#postprocess_audience_and_deliver).
THEOREM OwnerReachedAlways == Spec => OwnerReached
<1>1. DInv /\ Owned /\ [Next]_vars => [\A w \in Workers : Reached(w)]_vars
  BY ReachedAlways
<1> QED BY <1>1, OwnedAlways, PTL DEF Spec, OwnerReached, Reached
=============================================================================
