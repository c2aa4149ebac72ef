--------------------------- MODULE DeliveryProofs ---------------------------
(* What holds of deliveries for any number of servers, jobs and days. *)
EXTENDS Delivery, FiniteSetTheorems, TLAPS

\* A job of Sidekiq and what can become of it
LEMMA JobType ==
  ASSUME TypeOK, NEW k \in Slots, job[k] # Free
  PROVE  job[k] \in Deliveries /\ From(k) \in Servers
BY DEF TypeOK, Deliveries, From

LEMMA FreeIsNone == Free \notin Deliveries
BY DEF Free, Deliveries

LEMMA QueuedType ==
  ASSUME NEW s \in Servers, NEW n \in 0..RETRIES, NEW b \in BOOLEAN
  PROVE  Queued(s, n, b) \in Deliveries
BY DEF Queued, Deliveries

LEMMA RetryType ==
  ASSUME TypeOK, NEW k \in Slots, job[k] # Free, Retry(k)
  PROVE  job' \in [Slots -> Deliveries \cup {Free}]
<1>1. job[k] \in [from : Servers, at : {"queued", "request", "answered", "failed", "count", "mark"},
                  tries : 0..RETRIES, renewed : BOOLEAN, steady : BOOLEAN]
  BY JobType DEF Deliveries
<1>2. CASE job[k].tries < RETRIES
  <2>1. job[k].tries + 1 \in 0..RETRIES
    BY <1>1, <1>2, DeliveryAssumption
  <2>2. Queued(job[k].from, job[k].tries + 1, job[k].steady) \in Deliveries
    BY <1>1, <2>1, QueuedType
  <2> QED BY <1>2, <2>2 DEF Retry, TypeOK
<1>3. CASE ~ (job[k].tries < RETRIES)
  BY <1>3 DEF Retry, TypeOK
<1> QED BY <1>2, <1>3

LEMMA GoType ==
  ASSUME TypeOK, NEW k \in Slots, job[k] # Free,
         NEW at \in {"queued", "request", "answered", "failed", "count", "mark"}, Go(k, at)
  PROVE  job' \in [Slots -> Deliveries \cup {Free}]
<1>1. [job[k] EXCEPT !.at = at] \in Deliveries
  BY JobType DEF Deliveries
<1> QED BY <1>1 DEF Go, TypeOK

LEMMA TrackType ==
  ASSUME TypeOK, NEW ss \in SUBSET Servers, TrackSuccess(ss)
  PROVE  /\ days' \in [Servers -> SUBSET (0..MaxDay)]
         /\ unavailable' \subseteq Servers /\ raced' \subseteq Servers
BY DEF TypeOK, TrackSuccess

-----------------------------------------------------------------------------
(* Types *)

LEMMA InitTypes == Init => TypeOK
<1> SUFFICES ASSUME Init PROVE TypeOK
  OBVIOUS
<1>1. cuts \in 0..MaxCuts /\ today \in 0..MaxDay
  BY DeliveryAssumption DEF Init
<1>2. failures \in [Servers -> 0..STOPLIGHT_FAILURE_THRESHOLD]
  BY DeliveryAssumption DEF Init
<1>3. days \in [Servers -> SUBSET (0..MaxDay)] /\ job \in [Slots -> Deliveries \cup {Free}]
  BY DEF Init
<1> QED BY <1>1, <1>2, <1>3 DEF Init, TypeOK

LEMMA UnansweredType ==
  ASSUME TypeOK, NEW k \in Slots, Unanswered(k)
  PROVE  TypeOK'
<1>1. job[k] # Free /\ From(k) \in Servers
  BY JobType DEF Unanswered, At
<1>2. job' \in [Slots -> Deliveries \cup {Free}]
  <2>1. [job[k] EXCEPT !.at = "failed"] \in Deliveries
    BY <1>1, JobType DEF Deliveries
  <2>2. ASSUME NEW i \in Slots, job[i] # Free PROVE [job[i] EXCEPT !.renewed = TRUE] \in Deliveries
    BY <2>2, JobType DEF Deliveries
  <2> DEFINE J(i) == IF i = k THEN [job[k] EXCEPT !.at = "failed"]
       ELSE IF At(i, "queued") /\ From(i) = From(k) THEN [job[i] EXCEPT !.renewed = TRUE] ELSE job[i]
  <2>3. ASSUME NEW i \in Slots PROVE J(i) \in Deliveries \cup {Free}
    BY <2>1, <2>2 DEF At, TypeOK
  <2>4. job' = [i \in Slots |-> J(i)]
    BY DEF Unanswered
  <2> HIDE DEF J
  <2> QED BY <2>3, <2>4
<1>3. /\ days' \in [Servers -> SUBSET (0..MaxDay)]
      /\ unavailable' \subseteq Servers /\ raced' \subseteq Servers
  <2>1. CASE TrackSuccess(Servers \ {From(k)})
    BY <2>1, TrackType
  <2>2. CASE UNCHANGED <<days, unavailable, raced>>
    BY <2>2 DEF TypeOK
  <2> QED BY <2>1, <2>2 DEF Unanswered
<1>4. failures' \in [Servers -> 0..STOPLIGHT_FAILURE_THRESHOLD]
  <2>1. failures[From(k)] \in 0..STOPLIGHT_FAILURE_THRESHOLD
    BY <1>1 DEF TypeOK
  <2>2. failures[From(k)] < STOPLIGHT_FAILURE_THRESHOLD
        => failures[From(k)] + 1 \in 0..STOPLIGHT_FAILURE_THRESHOLD
    BY <2>1, DeliveryAssumption
  <2> QED BY <2>1, <2>2 DEF TypeOK, Unanswered
<1>5. recent' \subseteq Servers
  BY <1>1 DEF TypeOK, Unanswered
<1> QED BY <1>2, <1>3, <1>4, <1>5 DEF TypeOK, Unanswered

LEMMA WorkType ==
  ASSUME TypeOK, NEW k \in Slots, Work(k)
  PROVE  TypeOK'
<1>1. CASE Perform(k)
  <2>1. job' \in [Slots -> Deliveries \cup {Free}]
    <3>1. CASE From(k) \in unavailable
      BY <1>1, <3>1 DEF Perform, TypeOK
    <3>2. CASE From(k) \notin unavailable
      BY <1>1, <3>2, GoType DEF Perform, At
    <3> QED BY <3>1, <3>2
  <2> QED BY <1>1, <2>1 DEF Perform, TypeOK
<1>2. CASE RedLight(k)
  <2>1. job' \in [Slots -> Deliveries \cup {Free}]
    BY <1>2, GoType DEF RedLight, At
  <2> QED BY <1>2, <2>1 DEF RedLight, TypeOK
<1>3. CASE Answered(k)
  <2>1. job' \in [Slots -> Deliveries \cup {Free}]
    BY <1>3, GoType DEF Answered, At
  <2>2. /\ days' \in [Servers -> SUBSET (0..MaxDay)]
        /\ unavailable' \subseteq Servers /\ raced' \subseteq Servers
    BY <1>3, TrackType DEF Answered
  <2>3. failures' \in [Servers -> 0..STOPLIGHT_FAILURE_THRESHOLD]
    <3>1. 0 \in 0..STOPLIGHT_FAILURE_THRESHOLD
      BY DeliveryAssumption
    <3> QED BY <1>3, <3>1 DEF Answered, TypeOK
  <2> QED BY <1>3, <2>1, <2>2, <2>3 DEF Answered, TypeOK
<1>4. CASE Unanswered(k)
  BY <1>4, UnansweredType
<1>5. CASE Succeed(k)
  <2>1. From(k) \in Servers
    BY <1>5, JobType DEF Succeed, At
  <2>2. /\ days' \in [Servers -> SUBSET (0..MaxDay)]
        /\ unavailable' \subseteq Servers /\ raced' \subseteq Servers
    BY <1>5, <2>1, TrackType DEF Succeed
  <2>3. job' \in [Slots -> Deliveries \cup {Free}]
    BY <1>5 DEF Succeed, TypeOK
  <2> QED BY <1>5, <2>2, <2>3 DEF Succeed, TypeOK
<1>6. CASE NoteDay(k)
  <2>1. job' \in [Slots -> Deliveries \cup {Free}]
    BY <1>6, GoType DEF NoteDay, At
  <2>2. days' \in [Servers -> SUBSET (0..MaxDay)]
    BY <1>6 DEF NoteDay, TypeOK
  <2> QED BY <1>6, <2>1, <2>2 DEF NoteDay, TypeOK
<1>7. CASE CountDays(k)
  <2>1. job' \in [Slots -> Deliveries \cup {Free}]
    BY <1>7, GoType, RetryType DEF CountDays, At
  <2> QED BY <1>7, <2>1 DEF CountDays, TypeOK
<1>8. CASE MarkUnavailable(k)
  <2>1. job' \in [Slots -> Deliveries \cup {Free}] /\ From(k) \in Servers
    BY <1>8, RetryType, JobType DEF MarkUnavailable, At
  <2> QED BY <1>8, <2>1 DEF MarkUnavailable, TypeOK
<1> QED BY <1>1, <1>2, <1>3, <1>4, <1>5, <1>6, <1>7, <1>8 DEF Work

LEMMA PostType ==
  ASSUME TypeOK, NEW k \in Slots, NEW s \in Servers, Post(k, s)
  PROVE  TypeOK'
<1>1. Queued(s, 0, up) \in Deliveries
  BY QueuedType, DeliveryAssumption DEF TypeOK
<1>2. job' \in [Slots -> Deliveries \cup {Free}]
  BY <1>1 DEF Post, TypeOK
<1> QED BY <1>2 DEF Post, TypeOK

LEMMA CutType ==
  ASSUME TypeOK, Cut
  PROVE  TypeOK'
<1>1. ASSUME NEW k \in Slots, job[k] # Free PROVE [job[k] EXCEPT !.steady = FALSE] \in Deliveries
  BY <1>1, JobType DEF Deliveries
<1>2. job' \in [Slots -> Deliveries \cup {Free}]
  BY <1>1 DEF Cut, TypeOK
<1>3. cuts' \in 0..MaxCuts
  BY DeliveryAssumption DEF Cut, TypeOK
<1> QED BY <1>2, <1>3 DEF Cut, TypeOK

LEMMA StepTypes == TypeOK /\ [Next]_vars => TypeOK'
<1> SUFFICES ASSUME TypeOK, [Next]_vars PROVE TypeOK'
  OBVIOUS
<1>1. CASE UNCHANGED vars
  BY <1>1 DEF vars, TypeOK
<1>2. ASSUME NEW k \in Slots, Work(k) PROVE TypeOK'
  BY <1>2, WorkType
<1>3. ASSUME NEW s \in Servers, CoolOff(s) PROVE TypeOK'
  BY <1>3 DEF CoolOff, TypeOK
<1>4. ASSUME NEW k \in Slots, NEW s \in Servers, Post(k, s) PROVE TypeOK'
  BY <1>4, PostType
<1>5. CASE NextDay
  <2>1. today' \in 0..MaxDay
    BY <1>5, DeliveryAssumption DEF NextDay, TypeOK
  <2> QED BY <1>5, <2>1 DEF NextDay, TypeOK
<1>6. CASE Cut
  BY <1>6, CutType
<1>7. CASE Restore
  BY <1>7 DEF Restore, TypeOK
<1> QED BY <1>1, <1>2, <1>3, <1>4, <1>5, <1>6, <1>7 DEF Next

\* Every state is one of the model's, whatever fails (DeliveryWorker).
THEOREM TypeCorrect == Spec => []TypeOK
BY InitTypes, StepTypes, PTL DEF Spec

-----------------------------------------------------------------------------
(* What marks an inbox *)

Enough(s) == Cardinality(days[s]) >= FAILURE_DAYS_THRESHOLD

\* Who is about to set the mark has counted the days
Counted == \A k \in Slots : At(k, "mark") /\ From(k) \notin raced => Enough(From(k))

IInv == TypeOK /\ Counted /\ MarkedForAReason

LEMMA MoreDays ==
  ASSUME NEW D \in SUBSET (0..MaxDay), NEW d \in 0..MaxDay,
         Cardinality(D) >= FAILURE_DAYS_THRESHOLD
  PROVE  Cardinality(D \cup {d}) >= FAILURE_DAYS_THRESHOLD
<1>1. IsFiniteSet(0..MaxDay)
  BY FS_Interval, DeliveryAssumption
<1>2. IsFiniteSet(D \cup {d})
  BY <1>1, FS_Subset
<1>3. Cardinality(D) <= Cardinality(D \cup {d})
  BY <1>2, FS_Subset
<1>4. Cardinality(D) \in Nat /\ Cardinality(D \cup {d}) \in Nat
  BY <1>1, <1>2, FS_Subset, FS_CardinalityType
<1> QED BY <1>3, <1>4, DeliveryAssumption

\* Steps that keep days, marks and races and bring nobody to the mark
LEMMA Still ==
  ASSUME Counted, MarkedForAReason, UNCHANGED <<days, unavailable, raced>>,
         \A k \in Slots : At(k, "mark")' => At(k, "mark") /\ From(k)' = From(k)
  PROVE  Counted' /\ MarkedForAReason'
BY DEF Counted, MarkedForAReason, Enough

LEMMA TrackKeeps ==
  ASSUME TypeOK, Counted, MarkedForAReason, NEW ss \in SUBSET Servers, TrackSuccess(ss),
         \A k \in Slots : At(k, "mark")' => At(k, "mark") /\ From(k)' = From(k)
  PROVE  Counted' /\ MarkedForAReason'
<1>1. ASSUME NEW s \in Servers, s \notin ss PROVE days'[s] = days[s] /\ (s \in raced <=> s \in raced')
  BY <1>1 DEF TrackSuccess
<1>2. ASSUME NEW k \in Slots, At(k, "mark")', From(k)' \notin raced' PROVE Enough(From(k))'
  <2>1. At(k, "mark") /\ From(k)' = From(k) /\ From(k) \in Servers
    BY <1>2, JobType DEF At
  <2>2. From(k) \notin ss
    BY <2>1, <1>2 DEF TrackSuccess
  <2>3. Enough(From(k))
    BY <2>1, <2>2, <1>1, <1>2 DEF Counted
  <2> QED BY <2>1, <2>2, <2>3, <1>1 DEF Enough
<1>3. ASSUME NEW s \in unavailable' \ raced' PROVE Enough(s)'
  <2>1. s \in unavailable /\ s \notin ss /\ s \in Servers
    BY <1>3 DEF TrackSuccess, TypeOK
  <2>2. Enough(s)
    BY <2>1, <1>1, <1>3 DEF MarkedForAReason, Enough
  <2> QED BY <2>1, <2>2, <1>1 DEF Enough
<1> QED BY <1>2, <1>3 DEF Counted, MarkedForAReason, Enough

LEMMA GoAt ==
  ASSUME TypeOK, NEW k \in Slots, job[k] # Free,
         NEW at \in {"queued", "request", "answered", "failed", "count", "mark"}, Go(k, at)
  PROVE  /\ \A i \in Slots : At(i, "mark")' => (i = k /\ at = "mark") \/ At(i, "mark")
         /\ \A i \in Slots : From(i)' = From(i)
<1>1. job[k] \in Deliveries
  BY JobType
<1> QED BY <1>1 DEF Go, At, From, TypeOK, Deliveries

LEMMA RetryAt ==
  ASSUME TypeOK, NEW k \in Slots, job[k] # Free, Retry(k), NEW i \in Slots, At(i, "mark")'
  PROVE  At(i, "mark") /\ i # k /\ From(i)' = From(i)
<1>1. i # k
  BY DEF Retry, At, TypeOK, Queued
<1> QED BY <1>1 DEF Retry, At, From, TypeOK

LEMMA FailedAt ==
  ASSUME TypeOK, NEW k \in Slots, Unanswered(k), NEW i \in Slots, At(i, "mark")'
  PROVE  At(i, "mark") /\ From(i)' = From(i)
<1>1. job[i] # Free => job[i] \in Deliveries
  BY JobType
<1>2. job[k] \in Deliveries
  BY JobType DEF Unanswered, At
<1>3. i # k
  BY <1>2 DEF Unanswered, At, Deliveries
<1>4. ~ (At(i, "queued") /\ From(i) = From(k))
  <2> SUFFICES ASSUME At(i, "queued"), From(i) = From(k) PROVE FALSE
    OBVIOUS
  <2>1. job'[i] = [job[i] EXCEPT !.renewed = TRUE]
    BY <1>3 DEF Unanswered
  <2>2. job'[i].at = "queued"
    BY <2>1, <1>1 DEF At, Deliveries
  <2> QED BY <2>2 DEF At
<1>5. job'[i] = job[i]
  BY <1>3, <1>4 DEF Unanswered
<1> QED BY <1>5 DEF At, From

LEMMA WorkMarks ==
  ASSUME IInv, NEW k \in Slots, Work(k)
  PROVE  Counted' /\ MarkedForAReason'
<1> USE DEF IInv
<1>0. TypeOK /\ job[k] # Free /\ From(k) \in Servers
  BY JobType DEF Work, Perform, RedLight, Answered, Unanswered, Succeed, NoteDay, CountDays, MarkUnavailable, At
<1>1. CASE Perform(k)
  <2>1. \A i \in Slots : At(i, "mark")' => At(i, "mark") /\ From(i)' = From(i)
    <3>1. CASE From(k) \in unavailable
      BY <1>0, <1>1, <3>1 DEF Perform, At, From, TypeOK
    <3>2. CASE From(k) \notin unavailable
      BY <1>0, <1>1, <3>2, GoAt DEF Perform
    <3> QED BY <3>1, <3>2
  <2> QED BY <1>1, <2>1, Still DEF Perform
<1>2. CASE RedLight(k)
  BY <1>0, <1>2, GoAt, Still DEF RedLight
<1>3. CASE Answered(k)
  BY <1>0, <1>3, GoAt, TrackKeeps DEF Answered
<1>4. CASE Unanswered(k)
  <2>1. \A i \in Slots : At(i, "mark")' => At(i, "mark") /\ From(i)' = From(i)
    BY <1>0, <1>4, FailedAt
  <2>2. CASE TrackSuccess(Servers \ {From(k)})
    BY <1>0, <2>1, <2>2, TrackKeeps
  <2>3. CASE UNCHANGED <<days, unavailable, raced>>
    BY <2>1, <2>3, Still
  <2> QED BY <1>4, <2>2, <2>3 DEF Unanswered
<1>5. CASE Succeed(k)
  <2>1. \A i \in Slots : At(i, "mark")' => At(i, "mark") /\ From(i)' = From(i)
    BY <1>0, <1>5 DEF Succeed, At, From, TypeOK
  <2> QED BY <1>0, <1>5, <2>1, TrackKeeps DEF Succeed
<1>6. CASE NoteDay(k)
  <2>1. \A i \in Slots : At(i, "mark")' => At(i, "mark") /\ From(i)' = From(i)
    BY <1>0, <1>6, GoAt DEF NoteDay
  <2>2. ASSUME NEW s \in Servers, Enough(s) PROVE Enough(s)'
    <3>1. CASE s = From(k)
      <4>1. days'[s] = days[s] \cup {today} /\ days[s] \in SUBSET (0..MaxDay) /\ today \in 0..MaxDay
        BY <1>0, <1>6, <3>1 DEF NoteDay, TypeOK
      <4> QED BY <2>2, <4>1, MoreDays DEF Enough
    <3>2. CASE s # From(k)
      BY <1>0, <1>6, <2>2, <3>2 DEF NoteDay, TypeOK, Enough
    <3> QED BY <3>1, <3>2
  <2>3. UNCHANGED <<unavailable, raced>>
    BY <1>6 DEF NoteDay
  <2>4. MarkedForAReason'
    <3>1. ASSUME NEW s \in unavailable' \ raced' PROVE Enough(s)'
      BY <2>2, <2>3, <3>1 DEF MarkedForAReason, Enough, TypeOK
    <3> QED BY <3>1 DEF MarkedForAReason, Enough
  <2>5. Counted'
    <3>1. ASSUME NEW i \in Slots, At(i, "mark")', From(i)' \notin raced' PROVE Enough(From(i))'
      <4>1. At(i, "mark") /\ From(i)' = From(i) /\ From(i) \in Servers
        BY <1>0, <2>1, <3>1, JobType DEF At
      <4>2. Enough(From(i))
        BY <2>3, <3>1, <4>1 DEF Counted
      <4> QED BY <2>2, <4>1, <4>2 DEF Enough
    <3> QED BY <3>1 DEF Counted
  <2> QED BY <2>4, <2>5
<1>7. CASE CountDays(k)
  <2>1. CASE Enough(From(k))
    <3>1. Go(k, "mark")
      BY <1>7, <2>1 DEF CountDays, Enough
    <3>2. \A i \in Slots : From(i)' = From(i) /\ (At(i, "mark")' => i = k \/ At(i, "mark"))
      BY <1>0, <3>1, GoAt
    <3> QED BY <1>7, <2>1, <3>2 DEF CountDays, Counted, MarkedForAReason, Enough
  <2>2. CASE ~ Enough(From(k))
    <3>1. Retry(k)
      BY <1>7, <2>2 DEF CountDays, Enough
    <3> QED BY <1>0, <1>7, <3>1, RetryAt, Still DEF CountDays
  <2> QED BY <2>1, <2>2
<1>8. CASE MarkUnavailable(k)
  <2>1. \A i \in Slots : At(i, "mark")' => At(i, "mark") /\ From(i)' = From(i)
    BY <1>0, <1>8, RetryAt DEF MarkUnavailable
  <2> QED BY <1>8, <2>1 DEF MarkUnavailable, Counted, MarkedForAReason, Enough
<1> QED BY <1>1, <1>2, <1>3, <1>4, <1>5, <1>6, <1>7, <1>8 DEF Work

LEMMA RestMarks ==
  ASSUME IInv,
         \/ UNCHANGED vars \/ NextDay \/ Cut \/ Restore
         \/ \E s \in Servers : CoolOff(s) \/ \E k \in Slots : Post(k, s)
  PROVE  Counted' /\ MarkedForAReason'
<1>1. UNCHANGED <<days, unavailable, raced>>
  BY DEF vars, NextDay, Cut, Restore, CoolOff, Post
<1>2. ASSUME NEW i \in Slots, At(i, "mark")' PROVE At(i, "mark") /\ From(i)' = From(i)
  <2>1. CASE Cut
    <3>1. job[i] # Free => job[i] \in Deliveries
      BY JobType DEF IInv
    <3>2. job[i] # Free
      BY <1>2, <2>1 DEF Cut, At
    <3> QED BY <1>2, <2>1, <3>1, <3>2 DEF Cut, At, From, Deliveries
  <2>2. ASSUME NEW s \in Servers, NEW k \in Slots, Post(k, s) PROVE At(i, "mark") /\ From(i)' = From(i)
    BY <1>2, <2>2 DEF Post, At, From, Queued, IInv, TypeOK
  <2>3. CASE UNCHANGED job
    BY <1>2, <2>3 DEF At, From
  <2> QED BY <2>1, <2>2, <2>3 DEF vars, NextDay, Restore, CoolOff
<1> QED BY <1>1, <1>2, Still DEF IInv

LEMMA Inductive == Spec => []IInv
<1>1. Init => IInv
  <2> SUFFICES ASSUME Init PROVE Counted /\ MarkedForAReason
    BY InitTypes DEF IInv
  <2> QED BY DEF Init, Counted, MarkedForAReason, At
<1>2. IInv /\ [Next]_vars => IInv'
  <2> SUFFICES ASSUME IInv, [Next]_vars PROVE Counted' /\ MarkedForAReason'
    BY StepTypes DEF IInv
  <2> QED BY WorkMarks, RestMarks DEF Next
<1> QED BY <1>1, <1>2, PTL DEF Spec

\* An inbox that is marked failed on as many days as the threshold says, the
\* race of the mark with a success apart (DeliveryFailureTracker#track_failure!).
THEOREM MarkedAlways == Spec => []MarkedForAReason
<1>1. IInv => MarkedForAReason
  BY DEF IInv
<1> QED BY <1>1, Inductive, PTL

-----------------------------------------------------------------------------
(* What gives up a delivery *)

\* While the connection has been up, a job fails only at the light, and only
\* before the light has cooled off
Patient == \A k \in Slots :
  job[k] # Free /\ job[k].steady =>
    /\ up /\ ~ job[k].renewed
    /\ At(k, "request") /\ From(k) \in recent => job[k].tries <= SHORT
    /\ At(k, "failed") \/ At(k, "count") \/ At(k, "mark") => job[k].tries <= SHORT

PInv == TypeOK /\ Patient

\* A job that is left alone, when nothing of the world turns against it
LEMMA StaysPatient ==
  ASSUME Patient, NEW i \in Slots, job'[i] = job[i], up' = up, recent' \subseteq recent,
         job'[i] # Free, job'[i].steady
  PROVE  /\ up' /\ ~ job'[i].renewed
         /\ At(i, "request")' /\ From(i)' \in recent' => job'[i].tries <= SHORT
         /\ At(i, "failed")' \/ At(i, "count")' \/ At(i, "mark")' => job'[i].tries <= SHORT
BY DEF Patient, At, From

\* One that is queued has nothing to answer for
LEMMA QueuedPatient ==
  ASSUME NEW i \in Slots, NEW s, NEW n, NEW b, b => up', job'[i] = Queued(s, n, b),
         job'[i] # Free, job'[i].steady
  PROVE  /\ up' /\ ~ job'[i].renewed
         /\ At(i, "request")' /\ From(i)' \in recent' => job'[i].tries <= SHORT
         /\ At(i, "failed")' \/ At(i, "count")' \/ At(i, "mark")' => job'[i].tries <= SHORT
BY DEF Queued, At

LEMMA RetryPatient ==
  ASSUME PInv, NEW k \in Slots, job[k] # Free, Retry(k), up' = up, recent' \subseteq recent
  PROVE  Patient'
<1> SUFFICES ASSUME NEW i \in Slots, job'[i] # Free, job'[i].steady
             PROVE  /\ up' /\ ~ job'[i].renewed
                    /\ At(i, "request")' /\ From(i)' \in recent' => job'[i].tries <= SHORT
                    /\ At(i, "failed")' \/ At(i, "count")' \/ At(i, "mark")' => job'[i].tries <= SHORT
  BY DEF Patient
<1>1. CASE i # k
  <2>1. job'[i] = job[i]
    BY <1>1 DEF Retry, PInv, TypeOK
  <2> QED BY <2>1, StaysPatient DEF PInv
<1>2. CASE i = k
  <2>1. job'[i] = Queued(job[k].from, job[k].tries + 1, job[k].steady)
    BY <1>2 DEF Retry, PInv, TypeOK
  <2>2. job[k].steady => up'
    BY DEF PInv, Patient
  <2> QED BY <2>1, <2>2, QueuedPatient
<1> QED BY <1>1, <1>2

LEMMA GoPatient ==
  ASSUME PInv, NEW k \in Slots, job[k] # Free, up' = up, recent' \subseteq recent,
         NEW at \in {"queued", "request", "answered", "failed", "count", "mark"}, Go(k, at),
         job[k].steady => \/ job[k].tries <= SHORT
                          \/ at = "answered"
                          \/ at = "request" /\ From(k) \notin recent
  PROVE  Patient'
<1>0. job[k] \in Deliveries
  BY JobType DEF PInv
<1> SUFFICES ASSUME NEW i \in Slots, job'[i] # Free, job'[i].steady
             PROVE  /\ up' /\ ~ job'[i].renewed
                    /\ At(i, "request")' /\ From(i)' \in recent' => job'[i].tries <= SHORT
                    /\ At(i, "failed")' \/ At(i, "count")' \/ At(i, "mark")' => job'[i].tries <= SHORT
  BY DEF Patient
<1>1. CASE i # k
  <2>1. job'[i] = job[i]
    BY <1>1 DEF Go, PInv, TypeOK
  <2> QED BY <2>1, StaysPatient DEF PInv
<1>2. CASE i = k
  <2>1. job'[k] = [job[k] EXCEPT !.at = at]
    BY DEF Go, PInv, TypeOK
  <2>2. /\ job'[k].steady = job[k].steady /\ job'[k].tries = job[k].tries
        /\ job'[k].renewed = job[k].renewed /\ From(k)' = From(k) /\ job'[k].at = at
    BY <1>0, <2>1 DEF Deliveries, From
  <2>3. up /\ ~ job[k].renewed
    BY <1>2, <2>2 DEF PInv, Patient
  <2> QED BY <1>2, <2>2, <2>3 DEF At
<1> QED BY <1>1, <1>2

LEMMA WorkPatient ==
  ASSUME PInv, NEW k \in Slots, Work(k)
  PROVE  Patient'
<1>0. TypeOK /\ Patient /\ job[k] # Free /\ job[k] \in Deliveries
  BY JobType DEF PInv, Work, Perform, RedLight, Answered, Unanswered, Succeed, NoteDay, CountDays, MarkUnavailable, At
<1>1. CASE Perform(k)
  <2>1. CASE From(k) \in unavailable
    <3>1. \A i \in Slots : i # k => job'[i] = job[i]
      BY <1>0, <1>1, <2>1 DEF Perform, TypeOK
    <3>2. job'[k] = Free
      BY <1>0, <1>1, <2>1 DEF Perform, TypeOK
    <3> QED BY <1>0, <1>1, <3>1, <3>2, StaysPatient DEF Perform, Patient
  <2>2. CASE From(k) \notin unavailable
    <3>1. job[k].steady => job[k].tries <= SHORT \/ From(k) \notin recent
      BY <1>0, <1>1 DEF Perform, Patient
    <3> QED BY <1>0, <1>1, <2>2, <3>1, GoPatient DEF Perform
  <2> QED BY <2>1, <2>2
<1>2. CASE RedLight(k)
  <2>1. job[k].steady => job[k].tries <= SHORT
    BY <1>0, <1>2 DEF RedLight, Red, Patient
  <2> QED BY <1>0, <1>2, <2>1, GoPatient DEF RedLight
<1>3. CASE Answered(k)
  BY <1>0, <1>3, GoPatient DEF Answered
<1>4. CASE Unanswered(k)
  <2>1. ASSUME NEW i \in Slots, job'[i] # Free, job'[i].steady PROVE FALSE
    <3>1. job[i] # Free => job[i] \in Deliveries /\ ~ job[i].steady
      BY <1>0, <1>4, JobType DEF Unanswered, Patient
    <3>2. job[i] # Free
      BY <1>0, <1>4, <2>1 DEF Unanswered, At
    <3> QED BY <1>4, <2>1, <3>1, <3>2 DEF Unanswered, Deliveries
  <2> QED BY <2>1 DEF Patient
<1>5. CASE Succeed(k)
  <2>1. \A i \in Slots : i # k => job'[i] = job[i]
    BY <1>0, <1>5 DEF Succeed, TypeOK
  <2>2. job'[k] = Free
    BY <1>0, <1>5 DEF Succeed, TypeOK
  <2> QED BY <1>0, <1>5, <2>1, <2>2, StaysPatient DEF Succeed, Patient
<1>6. CASE NoteDay(k)
  <2>1. job[k].steady => job[k].tries <= SHORT
    BY <1>0, <1>6 DEF NoteDay, Patient
  <2> QED BY <1>0, <1>6, <2>1, GoPatient DEF NoteDay
<1>7. CASE CountDays(k)
  <2>1. job[k].steady => job[k].tries <= SHORT
    BY <1>0, <1>7 DEF CountDays, Patient
  <2>2. Go(k, "mark") \/ Retry(k)
    BY <1>7 DEF CountDays
  <2>3. up' = up /\ recent' = recent
    BY <1>7 DEF CountDays
  <2> QED BY <1>0, <2>1, <2>2, <2>3, GoPatient, RetryPatient
<1>8. CASE MarkUnavailable(k)
  BY <1>0, <1>8, RetryPatient DEF MarkUnavailable
<1> QED BY <1>1, <1>2, <1>3, <1>4, <1>5, <1>6, <1>7, <1>8 DEF Work

LEMMA StepPatient == PInv /\ [Next]_vars => Patient'
<1> SUFFICES ASSUME PInv, [Next]_vars PROVE Patient'
  OBVIOUS
<1>1. CASE UNCHANGED <<job, up>> /\ recent' \subseteq recent
  BY <1>1, StaysPatient DEF Patient, PInv
<1>2. ASSUME NEW k \in Slots, NEW s \in Servers, Post(k, s) PROVE Patient'
  <2>1. \A i \in Slots : i # k => job'[i] = job[i]
    BY <1>2 DEF Post, PInv, TypeOK
  <2>2. job'[k] = Queued(s, 0, up)
    BY <1>2 DEF Post, PInv, TypeOK
  <2> QED BY <1>2, <2>1, <2>2, StaysPatient, QueuedPatient DEF Post, Patient, PInv
<1>3. CASE Cut
  <2>1. ASSUME NEW i \in Slots, job'[i] # Free, job'[i].steady PROVE FALSE
    <3>1. job[i] # Free => job[i] \in Deliveries
      BY JobType DEF PInv
    <3> QED BY <1>3, <2>1, <3>1 DEF Cut, Deliveries
  <2> QED BY <2>1 DEF Patient
<1>4. CASE Restore
  BY <1>4 DEF Restore, PInv, Patient
<1>5. ASSUME NEW s \in Servers, CoolOff(s) PROVE Patient'
  BY <1>1, <1>5 DEF CoolOff
<1>6. CASE UNCHANGED vars \/ NextDay
  BY <1>1, <1>6 DEF vars, NextDay
<1> QED BY <1>2, <1>3, <1>4, <1>5, <1>6, WorkPatient DEF Next

LEMMA PatientAlways == Spec => []PInv
<1>1. Init => PInv
  <2> SUFFICES ASSUME Init PROVE Patient
    BY InitTypes DEF PInv
  <2> QED BY DEF Init, Patient
<1>2. PInv /\ [Next]_vars => PInv'
  BY StepTypes, StepPatient DEF PInv
<1> QED BY <1>1, <1>2, PTL DEF Spec

NotGivenUpNow ==
  \A k \in Slots : (At(k, "count") \/ At(k, "mark")) /\ job'[k] = Free => ~ job[k].steady

LEMMA RetryGoesOn ==
  ASSUME PInv, NEW k \in Slots, At(k, "count") \/ At(k, "mark"), job[k].steady, Retry(k)
  PROVE  job'[k] # Free
<1>1. job[k] \in Deliveries /\ job[k].tries <= SHORT
  BY JobType DEF PInv, Patient, At
<1>2. job[k].tries < RETRIES /\ job[k].tries + 1 \in 0..RETRIES
  BY <1>1, DeliveryAssumption, BackoffAssumption DEF Deliveries
<1>3. job'[k] = Queued(job[k].from, job[k].tries + 1, job[k].steady)
  BY <1>2 DEF Retry, PInv, TypeOK
<1>4. job[k].from \in Servers /\ job[k].steady \in BOOLEAN
  BY <1>1 DEF Deliveries
<1>5. job'[k] \in Deliveries
  BY <1>2, <1>3, <1>4, QueuedType
<1> QED BY <1>5, FreeIsNone

LEMMA NotGivenUpStep == PInv /\ [Next]_vars => NotGivenUpNow
<1> SUFFICES ASSUME PInv, [Next]_vars, NEW k \in Slots, At(k, "count") \/ At(k, "mark"),
                    job'[k] = Free, job[k].steady
             PROVE  FALSE
  BY DEF NotGivenUpNow
<1>0. job[k] # Free /\ job[k] \in Deliveries
  BY JobType DEF At, PInv
<1>1. CASE UNCHANGED job
  BY <1>0, <1>1
<1>2. ASSUME NEW i \in Slots, Work(i) PROVE FALSE
  <2>1. CASE i = k
    <3>1. CountDays(k) \/ MarkUnavailable(k)
      BY <1>2, <2>1 DEF Work, At, Perform, RedLight, Answered, Unanswered, Succeed, NoteDay
    <3>2. Retry(k) \/ Go(k, "mark")
      BY <3>1 DEF CountDays, MarkUnavailable
    <3>3. CASE Retry(k)
      BY <3>3, RetryGoesOn
    <3>4. CASE Go(k, "mark")
      <4>1. job'[k] \in Deliveries
        BY <1>0, <3>4 DEF Go, PInv, TypeOK, Deliveries
      <4> QED BY <4>1, FreeIsNone
    <3> QED BY <3>2, <3>3, <3>4
  <2>2. CASE i # k
    <3>1. ~ At(k, "queued")
      BY DEF At
    <3>2. job'[k] = job[k]
      <4>1. CASE Go(i, "request") \/ Go(i, "failed") \/ Go(i, "answered") \/ Go(i, "count")
                \/ Go(i, "mark") \/ Retry(i) \/ job' = [job EXCEPT ![i] = Free]
        BY <2>2, <4>1 DEF Go, Retry, PInv, TypeOK
      <4>2. CASE Unanswered(i)
        BY <2>2, <3>1, <4>2 DEF Unanswered
      <4> QED BY <1>2, <4>1, <4>2 DEF Work, Perform, RedLight, Answered, Succeed, NoteDay,
            CountDays, MarkUnavailable
    <3> QED BY <1>0, <3>2
  <2> QED BY <2>1, <2>2
<1>3. ASSUME NEW i \in Slots, NEW s \in Servers, Post(i, s) PROVE FALSE
  BY <1>0, <1>3 DEF Post, PInv, TypeOK
<1>4. CASE Cut
  <2>1. job'[k] = [job[k] EXCEPT !.steady = FALSE]
    BY <1>0, <1>4 DEF Cut
  <2>2. job'[k] \in Deliveries
    BY <1>0, <2>1 DEF Deliveries
  <2> QED BY <2>2, FreeIsNone
<1> QED BY <1>1, <1>2, <1>3, <1>4 DEF Next, vars, NextDay, Restore, CoolOff

\* No delivery to a server that could be reached all the time is given up
\* because of the circuit breaker (DeliveryWorker#perform, light).
THEOREM NotGivenUpAlways == Spec => NotGivenUp
<1>1. PInv /\ [Next]_vars => [NotGivenUpNow]_vars
  BY NotGivenUpStep
<1> QED BY <1>1, PatientAlways, PTL DEF Spec, NotGivenUp, NotGivenUpNow
=============================================================================
