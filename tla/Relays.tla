------------------------------- MODULE Relays -------------------------------
(***************************************************************************)
(* A relay that this server subscribes to, app/models/relay.rb.  Enabling  *)
(* it sends a Follow, disabling it the Undo; the relay's answer is matched *)
(* with the row by the id of the Follow.  Sidekiq's threads handle answers *)
(* in two steps: the row is read, then its state is written.               *)
(***************************************************************************)
EXTENDS Naturals

CONSTANTS
  Threads,
  MaxEnables   \* bound: times the relay is enabled

ASSUME RelaysAssumption == MaxEnables \in Nat

VARIABLES
  relay,      \* the row
  enables,
  asked,      \* ids of Follows that the relay has received
  answers,    \* its answers so far, any of which may arrive, and arrive again
  handler,    \* Threads -> the answer it handles and the state it has read
  overtaken   \* history: the row was changed while a thread was about to write

relayVars == <<relay, enables, asked, answers, handler, overtaken>>

Ids     == 1..MaxEnables
States  == {"idle", "pending", "accepted", "rejected"}
Answers == [id : Ids, state : {"accepted", "rejected"}]
NoAnswer == [state |-> "none"]
Handlers == {NoAnswer} \cup [id : Ids, state : {"accepted", "rejected"}, read : States]

Handling == \E t \in Threads : handler[t] # NoAnswer

-----------------------------------------------------------------------------
Enable ==
  /\ enables < MaxEnables
  /\ enables' = enables + 1
  /\ relay' = [state |-> "pending", id |-> enables']
  /\ asked' = asked \cup {enables'}
  /\ overtaken' = (overtaken \/ Handling)
  /\ UNCHANGED <<answers, handler>>

Disable ==
  /\ relay.state # "idle"
  /\ relay' = [state |-> "idle", id |-> 0]
  /\ overtaken' = (overtaken \/ Handling)
  /\ UNCHANGED <<enables, asked, answers, handler>>

\* The relay answers a Follow, and may change its mind
AnswerFollow(a) ==
  /\ a.id \in asked
  /\ answers' = answers \cup {a}
  /\ UNCHANGED <<relay, enables, asked, handler, overtaken>>

\* Variant: any answer is taken for one to the Follow that is pending
ReadAnyAnswer(t, a) ==
  /\ handler[t] = NoAnswer
  /\ relay.id # 0
  /\ handler' = [handler EXCEPT ![t] = [id |-> a.id, state |-> a.state, read |-> relay.state]]
  /\ UNCHANGED <<relay, enables, asked, answers, overtaken>>

\* relay_follow? of Accept and Reject: is there a row with this Follow's id?
ReadAnswer(t, a) ==
  /\ handler[t] = NoAnswer
  /\ relay.id = a.id
  /\ handler' = [handler EXCEPT ![t] = [id |-> a.id, state |-> a.state, read |-> relay.state]]
  /\ UNCHANGED <<relay, enables, asked, answers, overtaken>>

\* relay.update!(state: ...), which writes nothing if that was the state read
WriteState(t) ==
  LET h == handler[t] IN
  /\ h # NoAnswer
  /\ relay' = IF h.read = h.state THEN relay ELSE [relay EXCEPT !.state = h.state]
  /\ handler' = [handler EXCEPT ![t] = NoAnswer]
  /\ UNCHANGED <<enables, asked, answers, overtaken>>

RelayInit ==
  /\ relay = [state |-> "idle", id |-> 0]
  /\ enables = 0
  /\ asked = {} /\ answers = {}
  /\ handler = [t \in Threads |-> NoAnswer]
  /\ overtaken = FALSE

RelayNext ==
  \/ Enable \/ Disable
  \/ \E a \in Answers : AnswerFollow(a)
  \/ \E t \in Threads : WriteState(t) \/ \E a \in answers : ReadAnswer(t, a)

RelaySpec == RelayInit /\ [][RelayNext]_relayVars

-----------------------------------------------------------------------------
RelayTypeOK ==
  /\ relay \in [state : States, id : {0} \cup Ids]
  /\ enables \in 0..MaxEnables
  /\ asked \subseteq Ids
  /\ answers \subseteq Answers
  /\ handler \in [Threads -> Handlers]
  /\ overtaken \in BOOLEAN

\* A relay counts as accepted only if it accepted the Follow that enabled it
\* last, and was not disabled since: answers to earlier ones change nothing
AcceptedIsCurrent ==
  relay.state = "accepted" /\ ~ overtaken => [id |-> relay.id, state |-> "accepted"] \in answers
=============================================================================
