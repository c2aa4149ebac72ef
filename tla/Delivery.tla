------------------------------ MODULE Delivery ------------------------------
(***************************************************************************)
(* Deliveries between two servers that both run this code:                 *)
(* app/workers/activitypub/delivery_worker.rb with its circuit breaker     *)
(* (Stoplight) and app/lib/delivery_failure_tracker.rb.                    *)
(*                                                                         *)
(* A delivery that fails is retried by Sidekiq, later each time.  After a  *)
(* number of days with failures the other server's inbox is marked         *)
(* unavailable and nothing more is sent to it.  A delivery that succeeds   *)
(* takes the mark away, and so does, at the other end, its arrival: who    *)
(* writes to us is there (track_inverse_success!).                         *)
(*                                                                         *)
(* Per server there are the keys of Redis about the other one.             *)
(***************************************************************************)
EXTENDS Naturals, FiniteSets

CONSTANTS
  Servers,
  Slots,       \* bound: places for deliveries that are queued or under way
  FAILURE_DAYS_THRESHOLD,
  STOPLIGHT_FAILURE_THRESHOLD,
  RETRIES,     \* of a job, after its first run
  SHORT,       \* retries that may come before the light has cooled off
  MaxDay,      \* bound: days that pass
  MaxCuts      \* bound: times the connection fails

ASSUME DeliveryAssumption ==
  /\ {FAILURE_DAYS_THRESHOLD, STOPLIGHT_FAILURE_THRESHOLD} \subseteq Nat \ {0}
  /\ {RETRIES, SHORT, MaxDay, MaxCuts} \subseteq Nat

\* The code has 16 retries, the fourth of which comes after the light's minute
ASSUME BackoffAssumption == SHORT < RETRIES

VARIABLES
  up,           \* the servers reach each other
  cuts, today,
  job,          \* Slots -> a delivery
  days,         \* Servers -> days in exhausted_deliveries
  unavailable,  \* servers that have marked the other one's inbox
  failures,     \* Servers -> failures the light has counted
  recent,       \* servers whose last failure is not a cool-off time ago
  raced         \* history: servers where a success came between counting the
                \* days and setting the mark

vars == <<up, cuts, today, job, days, unavailable, failures, recent, raced>>
-----------------------------------------------------------------------------
Free == [at |-> "free"]

\* `renewed': the light has counted a failure since the job was queued;
\* `steady' (history): the connection has been up since its first run was queued
Deliveries ==
  [from : Servers,
   at : {"queued", "request", "answered", "failed", "count", "mark"},
   tries : 0..RETRIES, renewed : BOOLEAN, steady : BOOLEAN]

Queued(s, tries, steady) ==
  [from |-> s, at |-> "queued", tries |-> tries, renewed |-> FALSE, steady |-> steady]

From(k) == job[k].from

At(k, at) == job[k] # Free /\ job[k].at = at

Go(k, at) == job' = [job EXCEPT ![k].at = at]

\* Variant: there is no end to it
RetryForEver(k) ==
  job' = [job EXCEPT ![k] = Queued(@.from, @.tries + 1, @.steady)]

\* Sidekiq retries what raised, and forgets it in the end (dead: false)
Retry(k) ==
  job' = [job EXCEPT ![k] = IF @.tries < RETRIES THEN Queued(@.from, @.tries + 1, @.steady) ELSE Free]

Red(s) == failures[s] >= STOPLIGHT_FAILURE_THRESHOLD /\ s \in recent

\* track_success! of the servers ss: nothing asks between its two commands
TrackSuccess(ss) ==
  /\ days' = [s \in Servers |-> IF s \in ss THEN {} ELSE days[s]]
  /\ unavailable' = unavailable \ ss
  /\ raced' = (raced \ ss) \cup {s \in ss : \E k \in Slots : At(k, "mark") /\ From(k) = s}

-----------------------------------------------------------------------------
\* Somebody posts: Account.inboxes leaves out what is unavailable
Post(k, s) ==
  /\ job[k] = Free
  /\ s \notin unavailable
  /\ job' = [job EXCEPT ![k] = Queued(s, 0, up)]
  /\ UNCHANGED <<up, cuts, today, days, unavailable, failures, recent, raced>>

\* The wait before a retry grows with the fourth power of their number, and
\* soon is longer than the light's cool-off
Perform(k) ==
  LET s == From(k) IN
  /\ At(k, "queued")
  /\ job[k].tries <= SHORT \/ s \notin recent \/ job[k].renewed
  /\ IF s \in unavailable THEN job' = [job EXCEPT ![k] = Free] ELSE Go(k, "request")
  /\ UNCHANGED <<up, cuts, today, days, unavailable, failures, recent, raced>>

\* Variant: the light takes its own exception for another failure
RedLightCounted(k) ==
  LET s == From(k) IN
  /\ At(k, "request")
  /\ Red(s)
  /\ recent' = recent \cup {s}
  /\ job' = [i \in Slots |->
       IF i = k THEN [job[k] EXCEPT !.at = "failed"]
       ELSE IF At(i, "queued") /\ From(i) = s THEN [job[i] EXCEPT !.renewed = TRUE] ELSE job[i]]
  /\ UNCHANGED <<up, cuts, today, days, unavailable, failures, raced>>

\* The light is red: an exception without a request
RedLight(k) ==
  /\ At(k, "request")
  /\ Red(From(k))
  /\ Go(k, "failed")
  /\ UNCHANGED <<up, cuts, today, days, unavailable, failures, recent, raced>>

\* Variant: what arrives says nothing about those who sent it
AnsweredOnly(k) ==
  LET s == From(k) IN
  /\ At(k, "request")
  /\ up /\ ~ Red(s)
  /\ Go(k, "answered")
  /\ failures' = [failures EXCEPT ![s] = 0]
  /\ UNCHANGED <<up, cuts, today, days, unavailable, recent, raced>>

\* InboxesController of the others has tracked the inverse success when it answers
Answered(k) ==
  LET s == From(k) IN
  /\ At(k, "request")
  /\ up /\ ~ Red(s)
  /\ Go(k, "answered")
  /\ TrackSuccess(Servers \ {s})
  /\ failures' = [failures EXCEPT ![s] = 0]
  /\ UNCHANGED <<up, cuts, today, recent>>

\* The request or the answer to it does not get through
Unanswered(k) ==
  LET s == From(k) IN
  /\ At(k, "request")
  /\ ~ up /\ ~ Red(s)
  /\ \/ TrackSuccess(Servers \ {s})
     \/ UNCHANGED <<days, unavailable, raced>>
  /\ failures' = [failures EXCEPT ![s] = IF @ < STOPLIGHT_FAILURE_THRESHOLD THEN @ + 1 ELSE @]
  /\ recent' = recent \cup {s}
  /\ job' = [i \in Slots |->
       IF i = k THEN [job[k] EXCEPT !.at = "failed"]
       ELSE IF At(i, "queued") /\ From(i) = s THEN [job[i] EXCEPT !.renewed = TRUE] ELSE job[i]]
  /\ UNCHANGED <<up, cuts, today>>

\* Variant: the mark is forgotten
SucceedKeepingMark(k) ==
  /\ At(k, "answered")
  /\ days' = [days EXCEPT ![From(k)] = {}]
  /\ job' = [job EXCEPT ![k] = Free]
  /\ UNCHANGED <<up, cuts, today, unavailable, failures, recent, raced>>

Succeed(k) ==
  /\ At(k, "answered")
  /\ TrackSuccess({From(k)})
  /\ job' = [job EXCEPT ![k] = Free]
  /\ UNCHANGED <<up, cuts, today, failures, recent>>

\* track_failure!, in three commands
NoteDay(k) ==
  /\ At(k, "failed")
  /\ days' = [days EXCEPT ![From(k)] = @ \cup {today}]
  /\ Go(k, "count")
  /\ UNCHANGED <<up, cuts, today, unavailable, failures, recent, raced>>

CountDays(k) ==
  /\ At(k, "count")
  /\ IF Cardinality(days[From(k)]) >= FAILURE_DAYS_THRESHOLD THEN Go(k, "mark") ELSE Retry(k)
  /\ UNCHANGED <<up, cuts, today, days, unavailable, failures, recent, raced>>

MarkUnavailable(k) ==
  /\ At(k, "mark")
  /\ unavailable' = unavailable \cup {From(k)}
  /\ Retry(k)
  /\ UNCHANGED <<up, cuts, today, days, failures, recent, raced>>

-----------------------------------------------------------------------------
CoolOff(s) ==
  /\ s \in recent
  /\ recent' = recent \ {s}
  /\ UNCHANGED <<up, cuts, today, job, days, unavailable, failures, raced>>

NextDay ==
  /\ today < MaxDay
  /\ today' = today + 1
  /\ UNCHANGED <<up, cuts, job, days, unavailable, failures, recent, raced>>

Cut ==
  /\ up /\ cuts < MaxCuts
  /\ up' = FALSE
  /\ cuts' = cuts + 1
  /\ job' = [k \in Slots |-> IF job[k] = Free THEN Free ELSE [job[k] EXCEPT !.steady = FALSE]]
  /\ UNCHANGED <<today, days, unavailable, failures, recent, raced>>

Restore ==
  /\ ~ up
  /\ up' = TRUE
  /\ UNCHANGED <<cuts, today, job, days, unavailable, failures, recent, raced>>

-----------------------------------------------------------------------------
Init ==
  /\ up = TRUE /\ cuts = 0 /\ today = 0
  /\ job = [k \in Slots |-> Free]
  /\ days = [s \in Servers |-> {}]
  /\ unavailable = {} /\ recent = {} /\ raced = {}
  /\ failures = [s \in Servers |-> 0]

Work(k) ==
  \/ Perform(k) \/ RedLight(k) \/ Answered(k) \/ Unanswered(k)
  \/ Succeed(k) \/ NoteDay(k) \/ CountDays(k) \/ MarkUnavailable(k)

Next ==
  \/ \E k \in Slots : Work(k)
  \/ \E s \in Servers : CoolOff(s) \/ \E k \in Slots : Post(k, s)
  \/ NextDay \/ Cut \/ Restore

Spec == Init /\ [][Next]_vars

\* Sidekiq's threads go on, time passes, and on each server there is always
\* somebody who posts (strong, because the places are shared)
Fairness ==
  /\ \A k \in Slots : WF_vars(Work(k))
  /\ \A s \in Servers : WF_vars(CoolOff(s)) /\ SF_vars(\E k \in Slots : Post(k, s))

FairSpec == Spec /\ Fairness

-----------------------------------------------------------------------------
(* Properties *)

TypeOK ==
  /\ up \in BOOLEAN
  /\ cuts \in 0..MaxCuts
  /\ today \in 0..MaxDay
  /\ job \in [Slots -> Deliveries \cup {Free}]
  /\ days \in [Servers -> SUBSET (0..MaxDay)]
  /\ failures \in [Servers -> 0..STOPLIGHT_FAILURE_THRESHOLD]
  /\ unavailable \subseteq Servers
  /\ recent \subseteq Servers
  /\ raced \subseteq Servers

\* An inbox is marked only when deliveries to it failed on so many days and
\* nothing was heard of its server since, but for a mark that was decided on
\* before a success and set after it
MarkedForAReason ==
  \A s \in unavailable \ raced : Cardinality(days[s]) >= FAILURE_DAYS_THRESHOLD

\* No delivery uses up its retries on the light alone, while the other server
\* can be reached all the time
NotGivenUp ==
  [][\A k \in Slots :
       (At(k, "count") \/ At(k, "mark")) /\ job'[k] = Free => ~ job[k].steady]_vars

\* When the connection stays up both servers end up delivering to each other,
\* or, when each has marked the other, neither: nobody is left to write first
BackAgain ==
  <>[]up => (<>[](unavailable = {}) \/ <>[](unavailable = Servers))
=============================================================================
