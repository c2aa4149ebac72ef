------------------------------- MODULE Posting -------------------------------
(***************************************************************************)
(* Posting a status: the composer of a browser window (actions/compose.js, *)
(* reducers/compose.js), threads of the web server that run                *)
(* PostStatusService, and the key in Redis by which a request is known     *)
(* that is made again.                                                     *)
(*                                                                         *)
(* The composer has one request under way and keeps its idempotency key    *)
(* until the draft is changed or posted; it may take a request for failed  *)
(* that the server still works on.  A request may break off between any    *)
(* two steps: an error of the database or Redis, or a restart.             *)
(***************************************************************************)
EXTENDS Quirks

CONSTANTS
  Tokens,      \* what texts are made of
  Profiles,    \* regexes and quirks an account may have, or Unset
  Texts,       \* what people write
  Puma,        \* threads of the web server
  MaxDrafts, MaxSends, MaxBreaks   \* bounds: drafts, requests, requests that break off

EYE == "EYE"

Drafts == 1..MaxDrafts

ASSUME PostingAssumption ==
  /\ {MaxDrafts, MaxSends, MaxBreaks} \subseteq Nat /\ MaxDrafts > 0
  /\ Texts # {} /\ Profiles # {}

\* Neither the placeholder nor the mark matches the expression in line 120
ASSUME RulesAssumption ==
  /\ {HOLD, EYE} \cap Exceptions = {}
  /\ Texts \subseteq Seq(Tokens)
  /\ Profiles \ {Unset} \subseteq
       [regexes : Seq([matches : SUBSET Tokens, atEnd : BOOLEAN]), quirks : Seq(Seq(Tokens))]

VARIABLES
  profile,
  composer,   \* the draft, its idempotency key, whether it is being submitted
  handling,   \* Puma -> the request a thread handles
  statuses,   \* in the order of their ids
  deleted,    \* ids of those deleted
  saved,      \* Drafts -> the id kept in Redis under the draft's key, 0 if none
  out,        \* who was told of a status: those mentioned, people here, other servers
  answered,   \* ids of statuses with which requests were answered
  sends, breaks,
  twice       \* history: drafts whose key could not be looked up when it mattered

postingVars == <<profile, composer, handling, statuses, deleted, saved, out, answered, sends, breaks, twice>>
-----------------------------------------------------------------------------
Written(key) ==
  [at : {"editing"}, key : {key}, text : Texts, local : BOOLEAN]

NoRequest == [at |-> "none"]

Phases == {"lookup", "create", "mentions", "distribute", "federate", "save", "answer"}

\* submitCompose marks what shall not federate
Marked(text, local) == IF local THEN Append(text, EYE) ELSE text

Submitted == {Marked(t, l) : t \in Texts, l \in BOOLEAN}

Requests ==
  [at : Phases, key : Drafts, text : Submitted, local : BOOLEAN, id : Nat, awaited : BOOLEAN]

\* `text' is what was submitted, `local' whether it was meant for this server only
Stored ==
  [key : Drafts, text : Submitted, local : BOOLEAN,
   content : {QuirkifyText(p, t) : p \in Profiles \ {Unset}, t \in Submitted}]

Handles(t) == handling[t] # NoRequest

Go(t, at) == handling' = [handling EXCEPT ![t].at = at]

\* marked_local_only?, of the text as it is stored
LocalOnly(status) == status.content # <<>> /\ Last(status.content) = EYE

-----------------------------------------------------------------------------
(* The composer *)

\* Any change of the draft makes a new key
Change ==
  /\ composer.at = "editing" /\ composer.key < MaxDrafts
  /\ composer' \in Written(composer.key + 1)
  /\ UNCHANGED <<profile, handling, statuses, deleted, saved, out, answered, sends, breaks, twice>>

\* submitCompose, which may get lost on the way
Submit ==
  /\ composer.at = "editing"
  /\ sends < MaxSends
  /\ sends' = sends + 1
  /\ composer' = [composer EXCEPT !.at = "submitting"]
  /\ \/ UNCHANGED handling
     \/ \E t \in Puma :
          /\ ~ Handles(t)
          /\ handling' = [handling EXCEPT ![t] =
               [at |-> "lookup", key |-> composer.key, text |-> Marked(composer.text, composer.local),
                local |-> composer.local, id |-> 0, awaited |-> TRUE]]
  /\ UNCHANGED <<profile, statuses, deleted, saved, out, answered, breaks, twice>>

\* submitComposeFail: the connection is lost, and with it the answer
GiveUp ==
  /\ composer.at = "submitting"
  /\ composer' = [composer EXCEPT !.at = "editing"]
  /\ handling' = [t \in Puma |-> IF Handles(t) THEN [handling[t] EXCEPT !.awaited = FALSE] ELSE NoRequest]
  /\ UNCHANGED <<profile, statuses, deleted, saved, out, answered, sends, breaks, twice>>

\* submitComposeSuccess: clearAll
Cleared(t) ==
  IF ~ handling[t].awaited THEN UNCHANGED composer
  ELSE IF composer.key < MaxDrafts THEN composer' \in Written(composer.key + 1)
  ELSE composer' = [composer EXCEPT !.at = "done"]

Free(t) == handling' = [handling EXCEPT ![t] = NoRequest]

Reply(t, id) ==
  /\ Free(t) /\ Cleared(t)
  /\ answered' = answered \cup {id}

\* An exception: an answer of 404 or 500
Fail(t) ==
  /\ Free(t)
  /\ composer' = IF handling[t].awaited THEN [composer EXCEPT !.at = "editing"] ELSE composer
  /\ UNCHANGED answered

-----------------------------------------------------------------------------
(* PostStatusService *)

\* Past the look at the key, not yet at writing it
Working(t, key) ==
  Handles(t) /\ handling[t].key = key /\ handling[t].at \in Phases \ {"lookup", "answer"}

LookUp(t) ==
  LET key == handling[t].key
      id  == saved[key]
  IN
  /\ handling[t].at = "lookup"
  /\ \/ id # 0 /\ id \notin deleted /\ Reply(t, id) /\ UNCHANGED twice
     \/ id \in deleted /\ Fail(t) /\ UNCHANGED twice
     \/ /\ id = 0
        /\ Go(t, "create")
        /\ twice' = IF \E u \in Puma : Working(u, key) THEN twice \cup {key} ELSE twice
        /\ UNCHANGED <<composer, answered>>
  /\ UNCHANGED <<profile, statuses, deleted, saved, out, sends, breaks>>

NewStatus(r) ==
  [key |-> r.key, text |-> r.text, local |-> r.local, content |-> QuirkifyText(profile, r.text)]

\* Variant: the key is written as soon as there is an id
CreateAndSave(t) ==
  LET r == handling[t] IN
  /\ r.at = "create" /\ profile # Unset
  /\ statuses' = Append(statuses, NewStatus(r))
  /\ handling' = [handling EXCEPT ![t].at = "mentions", ![t].id = Len(statuses')]
  /\ saved' = [saved EXCEPT ![r.key] = Len(statuses')]
  /\ UNCHANGED <<profile, composer, deleted, out, answered, sends, breaks, twice>>

\* quirkify_text and the transaction.  An account whose profile was never
\* saved has no lists to split
Create(t) ==
  LET r == handling[t] IN
  /\ r.at = "create"
  /\ IF profile = Unset
     THEN Fail(t) /\ UNCHANGED statuses
     ELSE /\ statuses' = Append(statuses, NewStatus(r))
          /\ handling' = [handling EXCEPT ![t].at = "mentions", ![t].id = Len(statuses')]
          /\ UNCHANGED <<composer, answered>>
  /\ UNCHANGED <<profile, deleted, saved, out, sends, breaks, twice>>

Tell(t, whom) == out' = out \cup {<<handling[t].id, whom>>}

\* ProcessHashtagsService and ProcessMentionsService
ProcessMentions(t) ==
  /\ handling[t].at = "mentions"
  /\ Tell(t, "mentioned")
  /\ Go(t, "distribute")
  /\ UNCHANGED <<profile, composer, statuses, deleted, saved, answered, sends, breaks, twice>>

\* Variant: the status is distributed everywhere
DistributeAll(t) ==
  /\ handling[t].at = "distribute"
  /\ Tell(t, "here")
  /\ Go(t, "federate")
  /\ UNCHANGED <<profile, composer, statuses, deleted, saved, answered, sends, breaks, twice>>

\* LinkCrawlWorker and DistributionWorker
Distribute(t) ==
  /\ handling[t].at = "distribute"
  /\ Tell(t, "here")
  /\ Go(t, IF LocalOnly(statuses[handling[t].id]) THEN "save" ELSE "federate")
  /\ UNCHANGED <<profile, composer, statuses, deleted, saved, answered, sends, breaks, twice>>

Federate(t) ==
  /\ handling[t].at = "federate"
  /\ Tell(t, "elsewhere")
  /\ Go(t, "save")
  /\ UNCHANGED <<profile, composer, statuses, deleted, saved, answered, sends, breaks, twice>>

\* Variant: nothing is saved for what stays on this server
SaveFederated(t) ==
  /\ handling[t].at = "save"
  /\ saved' = IF LocalOnly(statuses[handling[t].id]) THEN saved
              ELSE [saved EXCEPT ![handling[t].key] = handling[t].id]
  /\ Go(t, "answer")
  /\ UNCHANGED <<profile, composer, statuses, deleted, out, answered, sends, breaks, twice>>

\* The key is kept for an hour
Save(t) ==
  /\ handling[t].at = "save"
  /\ saved' = [saved EXCEPT ![handling[t].key] = handling[t].id]
  /\ Go(t, "answer")
  /\ UNCHANGED <<profile, composer, statuses, deleted, out, answered, sends, breaks, twice>>

Answer(t) ==
  /\ handling[t].at = "answer"
  /\ Reply(t, handling[t].id)
  /\ UNCHANGED <<profile, statuses, deleted, saved, out, sends, breaks, twice>>

\* What is under way ends where it is; a status that was created stays
Break(t) ==
  /\ Handles(t) /\ breaks < MaxBreaks
  /\ breaks' = breaks + 1
  /\ Fail(t)
  /\ twice' = twice \cup {k \in Drafts : Working(t, k) /\ handling[t].at # "create"}
  /\ UNCHANGED <<profile, statuses, deleted, saved, out, sends>>

-----------------------------------------------------------------------------
Expire(key) ==
  /\ saved[key] # 0
  /\ saved' = [saved EXCEPT ![key] = 0]
  /\ twice' = twice \cup {key}
  /\ UNCHANGED <<profile, composer, handling, statuses, deleted, out, answered, sends, breaks>>

\* The author deletes a status, which RemovalWorker does
Destroy(id) ==
  /\ id \notin deleted
  /\ deleted' = deleted \cup {id}
  /\ UNCHANGED <<profile, composer, handling, statuses, saved, out, answered, sends, breaks, twice>>

-----------------------------------------------------------------------------
PostingInit ==
  /\ profile \in Profiles
  /\ composer \in Written(1)
  /\ handling = [t \in Puma |-> NoRequest]
  /\ statuses = <<>> /\ deleted = {} /\ out = {} /\ answered = {} /\ twice = {}
  /\ saved = [k \in Drafts |-> 0]
  /\ sends = 0 /\ breaks = 0

Serve(t) ==
  Handles(t) /\ (\/ LookUp(t) \/ Create(t) \/ ProcessMentions(t) \/ Distribute(t)
                 \/ Federate(t) \/ Save(t) \/ Answer(t))

PostingNext ==
  \/ Change \/ Submit \/ GiveUp
  \/ \E t \in Puma : Serve(t) \/ Break(t)
  \/ \E k \in Drafts : Expire(k)
  \/ \E id \in DOMAIN statuses : Destroy(id)

PostingSpec == PostingInit /\ [][PostingNext]_postingVars

-----------------------------------------------------------------------------
(* Properties *)

PostingTypeOK ==
  /\ profile \in Profiles
  /\ composer \in [at : {"editing", "submitting", "done"}, key : Drafts, text : Texts, local : BOOLEAN]
  /\ handling \in [Puma -> Requests \cup {NoRequest}]
  /\ statuses \in Seq(Stored)
  /\ deleted \subseteq DOMAIN statuses
  /\ saved \in [Drafts -> {0} \cup DOMAIN statuses]
  /\ out \subseteq (DOMAIN statuses) \X {"mentioned", "here", "elsewhere"}
  /\ answered \subseteq DOMAIN statuses
  /\ sends \in 0..MaxSends /\ breaks \in 0..MaxBreaks
  /\ twice \subseteq Drafts

\* However often a draft is submitted there is one status of it, unless a
\* request looked for the key while another one was at work or had broken off
\* before it wrote it, or the key ran out
OnePerKey ==
  \A i, j \in DOMAIN statuses :
    i # j /\ statuses[i].key = statuses[j].key => statuses[i].key \in twice

\* A status that a request is answered with, be it one that another request
\* created and that broke off later, has been handed to everybody it is for
AnsweredAreOut ==
  \A i \in answered :
    /\ <<i, "mentioned">> \in out /\ <<i, "here">> \in out
    /\ LocalOnly(statuses[i]) \/ <<i, "elsewhere">> \in out

\* What is spared by the rules comes out as it went in, and only that, however
\* many exceptions there are and whatever earlier rules have made of the text
ExceptionsStay ==
  \A i \in DOMAIN statuses :
    LeavesHold(profile) /\ HOLD \notin ToSet(statuses[i].text)
    => statuses[i].content = Meant(profile, statuses[i].text)

\* A draft meant for this server only is not handed to the workers that send
\* it to others
StaysHere ==
  \A i \in DOMAIN statuses : statuses[i].local => <<i, "elsewhere">> \notin out

\* The end of a text, where the mark is, is left alone
LeavesEnd ==
  \A i \in DOMAIN profile.regexes : ~ profile.regexes[i].atEnd /\ EYE \notin profile.regexes[i].matches

\* So it is, if no rule of the author's changes the end of a text
StaysHereUnlessRewritten ==
  profile # Unset /\ LeavesEnd => StaysHere
=============================================================================
