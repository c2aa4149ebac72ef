---------------------------- MODULE StatusesProofs ----------------------------
(***************************************************************************)
(* Theorems about how the statuses of a person come in and go with their   *)
(* author: of posting, for any number of threads, drafts and requests and  *)
(* for any rules, and of the removal of a person, for any number of        *)
(* threads, posts, orders and interruptions.                               *)
(***************************************************************************)
EXTENDS Posting, Suspension, SequenceTheorems, WellFoundedInduction, TLAPS

-----------------------------------------------------------------------------
(* Posting *)

Composers == [at : {"editing", "submitting", "done"}, key : Drafts, text : Texts, local : BOOLEAN]

LEMMA BusyType ==
  ASSUME PostingTypeOK, NEW t \in Puma, Handles(t)
  PROVE  handling[t] \in Requests
BY DEF PostingTypeOK, Handles

LEMMA RequestIsOne ==
  ASSUME NEW r \in Requests
  PROVE  r # NoRequest /\ r.at \in Phases /\ r.key \in Drafts /\ r.text \in Submitted
         /\ r.local \in BOOLEAN /\ r.id \in Nat
BY DEF Requests, NoRequest, Phases

LEMMA StatusType ==
  ASSUME PostingTypeOK
  PROVE  0 \notin DOMAIN statuses /\ \A i \in DOMAIN statuses : statuses[i].key \in Drafts
<1>1. statuses \in Seq(Stored)
  BY DEF PostingTypeOK
<1>2. 0 \notin DOMAIN statuses /\ \A i \in DOMAIN statuses : statuses[i] \in Stored
  BY <1>1
<1>3. ASSUME NEW C, NEW s \in [key : Drafts, text : Submitted, local : BOOLEAN, content : C]
      PROVE  s.key \in Drafts
  OBVIOUS
<1>4. \A s \in Stored : s.key \in Drafts
  <2> DEFINE C == {QuirkifyText(p, t) : p \in Profiles \ {Unset}, t \in Submitted}
  <2>1. Stored = [key : Drafts, text : Submitted, local : BOOLEAN, content : C]
    BY DEF Stored
  <2> HIDE DEF C
  <2> QED BY <1>3, <2>1
<1> QED BY <1>2, <1>4

\* A thread goes on to its next step
LEMMA GoType ==
  ASSUME PostingTypeOK, NEW t \in Puma, Handles(t), NEW at \in Phases, Go(t, at)
  PROVE  /\ handling' \in [Puma -> Requests \cup {NoRequest}]
         /\ Handles(t)' /\ handling'[t].at = at
         /\ handling'[t].key = handling[t].key /\ handling'[t].id = handling[t].id
         /\ \A u \in Puma \ {t} : handling'[u] = handling[u]
<1> DEFINE r == [handling[t] EXCEPT !.at = at]
<1>1. handling[t] \in Requests
  BY BusyType
<1>2. r \in Requests /\ r.at = at /\ r.key = handling[t].key /\ r.id = handling[t].id
  BY <1>1 DEF Requests
<1>3. handling \in [Puma -> Requests \cup {NoRequest}] /\ handling' = [handling EXCEPT ![t] = r]
  BY DEF PostingTypeOK, Go
<1>4. handling'[t] = r /\ handling' \in [Puma -> Requests \cup {NoRequest}]
  BY <1>2, <1>3
<1> QED BY <1>2, <1>3, <1>4, RequestIsOne DEF Handles

LEMMA FreeType ==
  ASSUME PostingTypeOK, NEW t \in Puma, Free(t)
  PROVE  /\ handling' \in [Puma -> Requests \cup {NoRequest}]
         /\ ~ Handles(t)'
         /\ \A u \in Puma \ {t} : handling'[u] = handling[u]
BY DEF PostingTypeOK, Free, Handles

LEMMA WrittenType ==
  ASSUME PostingTypeOK, composer.key < MaxDrafts, composer' \in Written(composer.key + 1)
  PROVE  composer' \in Composers
BY PostingAssumption DEF PostingTypeOK, Written, Composers, Drafts

LEMMA ClearedType ==
  ASSUME PostingTypeOK, NEW t \in Puma, Cleared(t)
  PROVE  composer' \in Composers
<1>1. composer \in Composers
  BY DEF PostingTypeOK, Composers
<1>2. CASE ~ handling[t].awaited
  BY <1>1, <1>2 DEF Cleared
<1>3. CASE handling[t].awaited /\ composer.key < MaxDrafts
  BY <1>3, WrittenType DEF Cleared
<1>4. CASE handling[t].awaited /\ ~ (composer.key < MaxDrafts)
  BY <1>1, <1>4 DEF Cleared, Composers
<1> QED BY <1>2, <1>3, <1>4

LEMMA FailType ==
  ASSUME PostingTypeOK, NEW t \in Puma, Fail(t)
  PROVE  composer' \in Composers /\ answered' = answered
BY DEF PostingTypeOK, Fail, Composers

LEMMA CreateType ==
  ASSUME PostingTypeOK, NEW t \in Puma, Handles(t), profile # Unset,
         statuses' = Append(statuses, NewStatus(handling[t])),
         handling' = [handling EXCEPT ![t].at = "mentions", ![t].id = Len(statuses')]
  PROVE  /\ statuses' \in Seq(Stored) /\ DOMAIN statuses = 1..Len(statuses)
         /\ Len(statuses') = Len(statuses) + 1 /\ DOMAIN statuses' = 1..Len(statuses')
         /\ DOMAIN statuses' = DOMAIN statuses \cup {Len(statuses')} /\ Len(statuses') \in Nat \ {0}
         /\ Len(statuses') \notin DOMAIN statuses
         /\ \A i \in DOMAIN statuses : statuses'[i] = statuses[i]
         /\ statuses'[Len(statuses')].key = handling[t].key
         /\ handling' \in [Puma -> Requests \cup {NoRequest}]
         /\ Handles(t)' /\ handling'[t].at = "mentions"
         /\ handling'[t].key = handling[t].key /\ handling'[t].id = Len(statuses')
         /\ \A u \in Puma \ {t} : handling'[u] = handling[u]
<1> DEFINE s == NewStatus(handling[t])
<1>1. handling[t] \in Requests
  BY BusyType
<1>2. profile \in Profiles \ {Unset} /\ handling[t].text \in Submitted
  BY <1>1, RequestIsOne DEF PostingTypeOK
<1>3. s \in Stored /\ s.key = handling[t].key
  <2>1. QuirkifyText(profile, handling[t].text) \in {QuirkifyText(p, x) : p \in Profiles \ {Unset}, x \in Submitted}
    BY <1>2
  <2> QED BY <1>1, <2>1, RequestIsOne DEF NewStatus, Stored
<1>4. statuses \in Seq(Stored)
  BY DEF PostingTypeOK
<1> HIDE DEF s
<1>5. /\ statuses' \in Seq(Stored) /\ Len(statuses') = Len(statuses) + 1
      /\ \A i \in 1..Len(statuses) : statuses'[i] = statuses[i]
      /\ statuses'[Len(statuses')] = s
  <2>1. statuses' = Append(statuses, s)
    BY DEF s
  <2> QED BY <1>3, <1>4, <2>1, AppendProperties
<1>6. Len(statuses) \in Nat /\ DOMAIN statuses = 1..Len(statuses) /\ DOMAIN statuses' = 1..Len(statuses')
  BY <1>4, <1>5
<1>7. /\ handling' \in [Puma -> Requests \cup {NoRequest}]
      /\ Handles(t)' /\ handling'[t].at = "mentions"
      /\ handling'[t].key = handling[t].key /\ handling'[t].id = Len(statuses')
      /\ \A u \in Puma \ {t} : handling'[u] = handling[u]
  <2> DEFINE n == Len(statuses')
             r == [handling[t] EXCEPT !.at = "mentions", !.id = n]
  <2>1. n \in Nat
    BY <1>5, <1>6
  <2>2. handling' = [handling EXCEPT ![t] = r] /\ handling \in [Puma -> Requests \cup {NoRequest}]
    BY DEF PostingTypeOK
  <2> HIDE DEF n
  <2>3. r \in Requests /\ r.at = "mentions" /\ r.key = handling[t].key /\ r.id = n
    BY <1>1, <2>1 DEF Requests, Phases
  <2>4. handling'[t] = r /\ handling' \in [Puma -> Requests \cup {NoRequest}]
    BY <2>2, <2>3
  <2> QED BY <2>2, <2>3, <2>4, RequestIsOne DEF Handles, n
<1>8. /\ DOMAIN statuses' = DOMAIN statuses \cup {Len(statuses')} /\ Len(statuses') \in Nat \ {0}
      /\ Len(statuses') \notin DOMAIN statuses
  BY <1>5, <1>6
<1> QED BY <1>3, <1>5, <1>6, <1>7, <1>8

-----------------------------------------------------------------------------
(* Types *)

\* Past the transaction a thread has a status
Created == \A t \in Puma :
  Handles(t) /\ handling[t].at \notin {"lookup", "create"} => handling[t].id \in DOMAIN statuses

LEMMA TypeHolds ==
  ASSUME PostingTypeOK, Created, [PostingNext]_postingVars
  PROVE  PostingTypeOK'
<1>1. CASE Change
  BY <1>1, WrittenType DEF Change, PostingTypeOK, Composers
<1>2. CASE Submit
  <2>1. composer' \in Composers /\ sends' \in 0..MaxSends
    BY <1>2, PostingAssumption DEF Submit, PostingTypeOK, Composers
  <2>2. handling' \in [Puma -> Requests \cup {NoRequest}]
    <3>1. ASSUME NEW t \in Puma
          PROVE  [at |-> "lookup", key |-> composer.key, text |-> Marked(composer.text, composer.local),
                  local |-> composer.local, id |-> 0, awaited |-> TRUE] \in Requests
      <4>1. composer.key \in Drafts /\ composer.local \in BOOLEAN /\ composer.text \in Texts
        BY DEF PostingTypeOK
      <4>2. Marked(composer.text, composer.local) \in Submitted
        BY <4>1 DEF Submitted
      <4> QED BY <4>1, <4>2 DEF Requests, Phases
    <3> QED BY <1>2, <3>1 DEF Submit, PostingTypeOK
  <2> QED BY <1>2, <2>1, <2>2 DEF Submit, PostingTypeOK, Composers
<1>3. CASE GiveUp
  <2>1. composer' \in Composers
    BY <1>3 DEF GiveUp, PostingTypeOK, Composers
  <2>2. \A t \in Puma : Handles(t) => [handling[t] EXCEPT !.awaited = FALSE] \in Requests
    BY BusyType DEF Requests
  <2>3. handling' \in [Puma -> Requests \cup {NoRequest}]
    BY <1>3, <2>2 DEF GiveUp
  <2> QED BY <1>3, <2>1, <2>3 DEF GiveUp, PostingTypeOK, Composers
<1>4. ASSUME NEW t \in Puma, Handles(t), LookUp(t)
      PROVE  PostingTypeOK'
  <2>1. saved[handling[t].key] \in {0} \cup DOMAIN statuses /\ handling[t].key \in Drafts
    BY <1>4, BusyType, RequestIsOne DEF PostingTypeOK
  <2>2. handling' \in [Puma -> Requests \cup {NoRequest}] /\ composer' \in Composers
    BY <1>4, GoType, FreeType, ClearedType, FailType
    DEF LookUp, Reply, Fail, Phases, PostingTypeOK, Composers
  <2>3. answered' \subseteq DOMAIN statuses /\ twice' \subseteq Drafts
    BY <1>4, <2>1 DEF LookUp, Reply, Fail, PostingTypeOK
  <2> QED BY <1>4, <2>2, <2>3 DEF LookUp, PostingTypeOK, Composers
<1>5. ASSUME NEW t \in Puma, Handles(t), Create(t)
      PROVE  PostingTypeOK'
  <2>1. CASE profile = Unset
    <3>1. handling' \in [Puma -> Requests \cup {NoRequest}] /\ composer' \in Composers /\ answered' = answered
      BY <1>5, <2>1, FreeType, FailType DEF Create, Fail
    <3> QED BY <1>5, <2>1, <3>1 DEF Create, PostingTypeOK, Composers
  <2>2. CASE profile # Unset
    <3>1. /\ statuses' = Append(statuses, NewStatus(handling[t]))
          /\ handling' = [handling EXCEPT ![t].at = "mentions", ![t].id = Len(statuses')]
          /\ UNCHANGED <<profile, composer, deleted, saved, out, answered, sends, breaks, twice>>
      BY <1>5, <2>2 DEF Create
    <3>2. /\ handling' \in [Puma -> Requests \cup {NoRequest}] /\ statuses' \in Seq(Stored)
          /\ DOMAIN statuses \subseteq DOMAIN statuses'
      BY <1>5, <2>2, <3>1, CreateType
    <3> HIDE DEF Create
    <3> QED BY <3>1, <3>2 DEF PostingTypeOK
  <2> QED BY <2>1, <2>2
<1>6. ASSUME NEW t \in Puma, Handles(t), ProcessMentions(t) \/ Distribute(t) \/ Federate(t) \/ Save(t)
      PROVE  PostingTypeOK'
  <2>1. handling' \in [Puma -> Requests \cup {NoRequest}]
    BY <1>6, GoType DEF ProcessMentions, Distribute, Federate, Save, Phases
  <2>2. handling[t].id \in DOMAIN statuses /\ handling[t].key \in Drafts
    BY <1>6, BusyType, RequestIsOne DEF Created, ProcessMentions, Distribute, Federate, Save
  <2>3. out' \subseteq (DOMAIN statuses) \X {"mentioned", "here", "elsewhere"}
    BY <1>6, <2>2 DEF ProcessMentions, Distribute, Federate, Save, Tell, PostingTypeOK
  <2>4. saved' \in [Drafts -> {0} \cup DOMAIN statuses]
    BY <1>6, <2>2 DEF ProcessMentions, Distribute, Federate, Save, PostingTypeOK
  <2> QED BY <1>6, <2>1, <2>3, <2>4 DEF ProcessMentions, Distribute, Federate, Save, PostingTypeOK
<1>7. ASSUME NEW t \in Puma, Handles(t), Answer(t)
      PROVE  PostingTypeOK'
  <2>1. handling[t].id \in DOMAIN statuses
    BY <1>7 DEF Created, Answer
  <2>2. handling' \in [Puma -> Requests \cup {NoRequest}] /\ composer' \in Composers
    BY <1>7, FreeType, ClearedType DEF Answer, Reply
  <2> QED BY <1>7, <2>1, <2>2 DEF Answer, Reply, PostingTypeOK, Composers
<1>8. ASSUME NEW t \in Puma, Break(t)
      PROVE  PostingTypeOK'
  <2>1. handling' \in [Puma -> Requests \cup {NoRequest}] /\ composer' \in Composers /\ answered' = answered
    BY <1>8, FreeType, FailType DEF Break, Fail
  <2>2. breaks' \in 0..MaxBreaks
    BY <1>8, PostingAssumption DEF Break, PostingTypeOK
  <2> QED BY <1>8, <2>1, <2>2 DEF Break, PostingTypeOK, Composers
<1>9. ASSUME NEW k \in Drafts, Expire(k)
      PROVE  PostingTypeOK'
  BY <1>9 DEF Expire, PostingTypeOK
<1>10. ASSUME NEW i \in DOMAIN statuses, Destroy(i)
       PROVE  PostingTypeOK'
  BY <1>10 DEF Destroy, PostingTypeOK
<1>11. CASE UNCHANGED postingVars
  BY <1>11 DEF postingVars, PostingTypeOK
<1> QED BY <1>1, <1>2, <1>3, <1>4, <1>5, <1>6, <1>7, <1>8, <1>9, <1>10, <1>11 DEF PostingNext, Serve

-----------------------------------------------------------------------------
(* Keys *)

\* While a draft is worked on, and unless its key could not be looked up when
\* it mattered, one thread does so and nothing is saved for it
Alone == \A k \in Drafts \ twice : \A t \in Puma :
  Working(t, k) => saved[k] = 0 /\ \A u \in Puma : Working(u, k) => u = t

\* The status of such a draft is in the hands of that thread or saved
Known == \A i \in DOMAIN statuses :
  \/ statuses[i].key \in twice
  \/ saved[statuses[i].key] = i
  \/ \E t \in Puma : Working(t, statuses[i].key) /\ handling[t].at # "create" /\ handling[t].id = i

Out(i) ==
  /\ <<i, "mentioned">> \in out /\ <<i, "here">> \in out
  /\ LocalOnly(statuses[i]) \/ <<i, "elsewhere">> \in out

\* Who has been told, by the step a thread has come to
Told == \A t \in Puma : Handles(t) =>
  LET id == handling[t].id
      at == handling[t].at
  IN
  /\ at \in {"distribute", "federate", "save", "answer"} => <<id, "mentioned">> \in out
  /\ at \in {"federate", "save", "answer"} => <<id, "here">> \in out
  /\ at \in {"save", "answer"} => LocalOnly(statuses[id]) \/ <<id, "elsewhere">> \in out

SavedAreOut == \A k \in Drafts : saved[k] # 0 => Out(saved[k])

Sound == Created /\ Alone /\ Known /\ Told /\ SavedAreOut /\ AnsweredAreOut

IInv == PostingTypeOK /\ Sound

\* What changes nothing but the composer, or hands a thread a new request
StatusSame ==
  /\ UNCHANGED <<statuses, saved, out, answered, twice>>
  /\ \A t \in Puma : Handles(t) =>
       /\ Handles(t)' /\ handling'[t].at = handling[t].at
       /\ handling'[t].key = handling[t].key /\ handling'[t].id = handling[t].id
  /\ \A t \in Puma : Handles(t)' /\ ~ Handles(t) => handling'[t].at = "lookup"

LEMMA QuietStep ==
  ASSUME IInv, StatusSame
  PROVE  Sound'
<1>1. \A t \in Puma, k \in Drafts : Working(t, k)' <=> Working(t, k)
  BY DEF StatusSame, Working
<1>2. Created'
  BY DEF StatusSame, IInv, Sound, Created
<1>3. Alone'
  BY <1>1 DEF StatusSame, IInv, Sound, Alone
<1>4. Known'
  BY DEF StatusSame, IInv, Sound, Known, Working
<1>5. Told'
  BY DEF StatusSame, IInv, Sound, Told
<1>6. SavedAreOut' /\ AnsweredAreOut'
  BY DEF StatusSame, IInv, Sound, SavedAreOut, AnsweredAreOut, Out
<1> QED BY <1>2, <1>3, <1>4, <1>5, <1>6 DEF Sound

LEMMA LookUpStep ==
  ASSUME IInv, NEW t \in Puma, Handles(t), LookUp(t)
  PROVE  Sound'
<1> DEFINE key == handling[t].key
<1>1. PostingTypeOK /\ Sound /\ key \in Drafts /\ twice \subseteq Drafts /\ handling[t].at = "lookup"
  BY BusyType, RequestIsOne DEF IInv, PostingTypeOK, LookUp
<1>2. UNCHANGED <<statuses, saved, out>> /\ twice \subseteq twice'
  BY DEF LookUp
<1>3. \A u \in Puma \ {t} : handling'[u] = handling[u]
  BY <1>1, GoType, FreeType DEF LookUp, Reply, Fail, Phases
<1>4. CASE Go(t, "create") /\ saved[key] = 0 /\ UNCHANGED answered
           /\ twice' = IF \E u \in Puma : Working(u, key) THEN twice \cup {key} ELSE twice
  <2>1. Handles(t)' /\ handling'[t].at = "create" /\ handling'[t].key = key
    BY <1>1, <1>4, GoType DEF Phases
  <2>2. \A k : \A u \in Puma \ {t} : Working(u, k)' <=> Working(u, k)
    BY <1>3 DEF Working, Handles
  <2>3. \A k : Working(t, k)' <=> k = key
    BY <2>1 DEF Working, Phases
  <2>4. Created'
    BY <1>1, <1>2, <1>3, <2>1 DEF Sound, Created, Handles
  <2>5. Alone'
    BY <1>1, <1>2, <1>4, <2>2, <2>3 DEF Sound, Alone
  <2>6. Known'
    BY <1>1, <1>2, <1>3, <2>2 DEF Sound, Known, Working
  <2>7. Told'
    BY <1>1, <1>2, <1>3, <2>1 DEF Sound, Told, Handles
  <2> QED BY <1>1, <1>2, <1>4, <2>4, <2>5, <2>6, <2>7 DEF Sound, SavedAreOut, AnsweredAreOut, Out
<1>5. CASE Free(t) /\ twice' = twice
           /\ (answered' = answered \/ (saved[key] # 0 /\ answered' = answered \cup {saved[key]}))
  <2>1. ~ Handles(t)' /\ \A k : ~ Working(t, k)
    BY <1>1, <1>5, FreeType DEF Working
  <2>2. \A k : \A u \in Puma : Working(u, k)' <=> Working(u, k)
    BY <1>3, <2>1 DEF Working, Handles
  <2>3. Created' /\ Told'
    BY <1>1, <1>2, <1>3, <2>1 DEF Sound, Created, Told, Handles
  <2>4. Alone'
    BY <1>1, <1>2, <1>5, <2>2 DEF Sound, Alone
  <2>5. Known'
    BY <1>1, <1>2, <1>3, <1>5, <2>1, <2>2 DEF Sound, Known, Working
  <2>6. SavedAreOut' /\ AnsweredAreOut'
    BY <1>1, <1>2, <1>5 DEF Sound, SavedAreOut, AnsweredAreOut, Out
  <2> QED BY <2>3, <2>4, <2>5, <2>6 DEF Sound
<1>6. \/ saved[key] # 0 /\ Reply(t, saved[key]) /\ twice' = twice
      \/ Fail(t) /\ twice' = twice
      \/ /\ saved[key] = 0 /\ Go(t, "create") /\ UNCHANGED answered
         /\ twice' = IF \E u \in Puma : Working(u, key) THEN twice \cup {key} ELSE twice
  BY DEF LookUp
<1>7. CASE saved[key] # 0 /\ Reply(t, saved[key]) /\ twice' = twice
  <2>1. Free(t) /\ answered' = answered \cup {saved[key]}
    BY <1>7 DEF Reply
  <2> QED BY <1>5, <1>7, <2>1
<1>8. CASE Fail(t) /\ twice' = twice
  <2>1. Free(t) /\ answered' = answered
    BY <1>8 DEF Fail
  <2> QED BY <1>5, <1>8, <2>1
<1> QED BY <1>4, <1>6, <1>7, <1>8

LEMMA CreateStep ==
  ASSUME IInv, NEW t \in Puma, Handles(t), Create(t)
  PROVE  Sound'
<1> DEFINE r == handling[t]
           n == Len(statuses')
<1>1. PostingTypeOK /\ Sound /\ r.key \in Drafts /\ r.at = "create" /\ Working(t, r.key)
  BY BusyType, RequestIsOne DEF IInv, Create, Working, Phases
<1>2. UNCHANGED <<saved, out, twice>>
  BY DEF Create
<1>3. CASE profile = Unset
  <2>1. Free(t) /\ UNCHANGED <<statuses, answered>>
    BY <1>3 DEF Create, Fail
  <2>2. ~ Handles(t)' /\ \A u \in Puma \ {t} : handling'[u] = handling[u]
    BY <1>1, <2>1, FreeType
  <2>3. \A k : \A u \in Puma : Working(u, k)' => Working(u, k) /\ u # t
    BY <2>2 DEF Working, Handles
  <2>4. Created' /\ Told'
    BY <1>1, <1>2, <2>1, <2>2 DEF Sound, Created, Told, Handles
  <2>5. Alone'
    BY <1>1, <1>2, <2>3 DEF Sound, Alone
  <2>6. Known'
    BY <1>1, <1>2, <2>1, <2>2 DEF Sound, Known, Working, Handles
  <2>7. SavedAreOut' /\ AnsweredAreOut'
    BY <1>1, <1>2, <2>1 DEF Sound, SavedAreOut, AnsweredAreOut, Out
  <2> QED BY <2>4, <2>5, <2>6, <2>7 DEF Sound
<1>4. CASE profile # Unset
  <2>1. /\ statuses' = Append(statuses, NewStatus(r))
        /\ handling' = [handling EXCEPT ![t].at = "mentions", ![t].id = n]
        /\ answered' = answered
    BY <1>4 DEF Create
  <2>2. /\ DOMAIN statuses' = DOMAIN statuses \cup {n} /\ n \in Nat \ {0} /\ n \notin DOMAIN statuses
        /\ \A i \in DOMAIN statuses : statuses'[i] = statuses[i]
        /\ statuses'[n].key = r.key
    BY <1>1, <1>4, <2>1, CreateType
  <2>3. /\ Handles(t)' /\ handling'[t].at = "mentions"
        /\ handling'[t].key = r.key /\ handling'[t].id = n
        /\ \A u \in Puma \ {t} : handling'[u] = handling[u]
    BY <1>1, <1>4, <2>1, CreateType
  <2> HIDE DEF n, r
  <2>4. \A k : \A u \in Puma : Working(u, k)' <=> Working(u, k)
    BY <1>1, <2>3 DEF Working, Handles, Phases, r
  <2>5. Created'
    BY <1>1, <2>2, <2>3 DEF Sound, Created, Handles
  <2>6. Alone'
    BY <1>1, <1>2, <2>4 DEF Sound, Alone
  <2>7. Known'
    <3> SUFFICES ASSUME NEW i, i \in DOMAIN statuses', NEW k, k = statuses'[i].key, k \notin twice, saved[k] # i
                 PROVE  \E u \in Puma : Working(u, k)' /\ handling'[u].at # "create" /\ handling'[u].id = i
      BY <1>2 DEF Known, Working, Handles
    <3>1. CASE i = n
      <4>1. k = r.key /\ Working(t, k)'
        BY <1>1, <2>2, <2>4, <3>1
      <4> QED BY <2>3, <3>1, <4>1
    <3>2. CASE i \in DOMAIN statuses
      <4>1. k = statuses[i].key
        BY <2>2, <3>2
      <4>2. PICK u \in Puma : Working(u, k) /\ handling[u].at # "create" /\ handling[u].id = i
        BY <1>1, <3>2, <4>1 DEF Sound, Known
      <4>3. u # t
        BY <1>1, <4>2 DEF r
      <4> QED BY <2>3, <2>4, <4>2, <4>3
    <3> QED BY <2>2, <3>1, <3>2
  <2>8. Told'
    <3> SUFFICES ASSUME NEW u \in Puma, Handles(u)'
                 PROVE  LET id == handling'[u].id
                            at == handling'[u].at
                        IN
                        /\ at \in {"distribute", "federate", "save", "answer"} => <<id, "mentioned">> \in out
                        /\ at \in {"federate", "save", "answer"} => <<id, "here">> \in out
                        /\ at \in {"save", "answer"} => LocalOnly(statuses'[id]) \/ <<id, "elsewhere">> \in out
      BY <1>2 DEF Told
    <3>1. CASE u = t
      BY <2>3, <3>1
    <3>2. CASE u # t
      <4>1. handling'[u] = handling[u] /\ Handles(u)
        BY <2>3, <3>2 DEF Handles
      <4>2. handling[u].at \in {"save", "answer"} => statuses'[handling[u].id] = statuses[handling[u].id]
        BY <1>1, <2>2, <4>1 DEF Sound, Created
      <4> QED BY <1>1, <4>1, <4>2 DEF Sound, Told
    <3> QED BY <3>1, <3>2
  <2>9. \A i \in DOMAIN statuses : Out(i) => Out(i)'
    BY <1>2, <2>2 DEF Out
  <2>10. SavedAreOut' /\ AnsweredAreOut'
    BY <1>1, <1>2, <2>1, <2>9 DEF Sound, SavedAreOut, AnsweredAreOut, Out, PostingTypeOK
  <2> QED BY <2>5, <2>6, <2>7, <2>8, <2>10 DEF Sound
<1> QED BY <1>3, <1>4

\* The steps in which people are told
LEMMA TellStep ==
  ASSUME IInv, NEW t \in Puma, Handles(t), ProcessMentions(t) \/ Distribute(t) \/ Federate(t)
  PROVE  Sound'
<1> DEFINE at == handling'[t].at
           id == handling[t].id
<1>1. PostingTypeOK /\ Sound /\ UNCHANGED <<statuses, saved, answered, twice>>
  BY DEF IInv, ProcessMentions, Distribute, Federate
<1>2. /\ Handles(t)' /\ at \in {"distribute", "federate", "save"}
      /\ handling'[t].key = handling[t].key /\ handling'[t].id = id
      /\ \A u \in Puma \ {t} : handling'[u] = handling[u]
  BY <1>1, GoType DEF ProcessMentions, Distribute, Federate, Phases
<1>3. handling[t].at \in {"mentions", "distribute", "federate"} /\ out \subseteq out'
  BY DEF ProcessMentions, Distribute, Federate, Tell
<1>4. \A k : \A u \in Puma : Working(u, k)' <=> Working(u, k)
  BY <1>2, <1>3 DEF Working, Handles, Phases
<1>5. /\ at \in {"distribute", "federate", "save"} => <<id, "mentioned">> \in out'
      /\ at \in {"federate", "save"} => <<id, "here">> \in out'
      /\ at = "save" => LocalOnly(statuses[id]) \/ <<id, "elsewhere">> \in out'
  <2>1. CASE ProcessMentions(t)
    <3>1. at = "distribute" /\ <<id, "mentioned">> \in out'
      BY <1>1, <2>1, GoType DEF ProcessMentions, Tell, Phases
    <3> QED BY <3>1
  <2>2. CASE Distribute(t)
    <3>1. at = (IF LocalOnly(statuses[id]) THEN "save" ELSE "federate") /\ <<id, "here">> \in out'
      BY <1>1, <2>2, GoType DEF Distribute, Tell, Phases
    <3>2. <<id, "mentioned">> \in out
      BY <1>1, <2>2 DEF Sound, Told, Distribute
    <3> QED BY <1>3, <3>1, <3>2
  <2>3. CASE Federate(t)
    <3>1. at = "save" /\ <<id, "elsewhere">> \in out'
      BY <1>1, <2>3, GoType DEF Federate, Tell, Phases
    <3>2. <<id, "mentioned">> \in out /\ <<id, "here">> \in out
      BY <1>1, <2>3 DEF Sound, Told, Federate
    <3> QED BY <1>3, <3>1, <3>2
  <2> QED BY <2>1, <2>2, <2>3
<1> HIDE DEF at, id
<1>6. Created'
  BY <1>1, <1>2, <1>3 DEF Sound, Created, Handles, id
<1>7. Alone'
  BY <1>1, <1>4 DEF Sound, Alone
<1>8. Known'
  BY <1>1, <1>2, <1>3, <1>4 DEF Sound, Known, at, id, Working
<1>9. Told'
  BY <1>1, <1>2, <1>3, <1>5 DEF Sound, Told, Handles, at, id
<1>10. SavedAreOut' /\ AnsweredAreOut'
  BY <1>1, <1>3 DEF Sound, SavedAreOut, AnsweredAreOut, Out
<1> QED BY <1>6, <1>7, <1>8, <1>9, <1>10 DEF Sound

LEMMA SaveStep ==
  ASSUME IInv, NEW t \in Puma, Handles(t), Save(t)
  PROVE  Sound'
<1> DEFINE key == handling[t].key
           id == handling[t].id
<1>1. PostingTypeOK /\ Sound /\ key \in Drafts /\ handling[t].at = "save" /\ Working(t, key)
  BY BusyType, RequestIsOne DEF IInv, Save, Working, Phases
<1>2. UNCHANGED <<statuses, out, answered, twice>> /\ saved' = [saved EXCEPT ![key] = id]
  BY DEF Save
<1>3. /\ Handles(t)' /\ handling'[t].at = "answer"
      /\ handling'[t].key = key /\ handling'[t].id = id
      /\ \A u \in Puma \ {t} : handling'[u] = handling[u]
  BY <1>1, GoType DEF Save, Phases
<1>4. saved \in [Drafts -> {0} \cup DOMAIN statuses] /\ 0 \notin DOMAIN statuses
      /\ \A i \in DOMAIN statuses : statuses[i].key \in Drafts
  BY <1>1, StatusType DEF PostingTypeOK
<1> HIDE DEF key, id
<1>5. saved'[key] = id /\ \A k \in Drafts \ {key} : saved'[k] = saved[k]
  BY <1>1, <1>2, <1>4
<1>6. \A k : \A u \in Puma : Working(u, k)' <=> Working(u, k) /\ u # t
  BY <1>3 DEF Working, Handles
<1>7. Created' /\ Told'
  BY <1>1, <1>2, <1>3 DEF Sound, Created, Told, Handles, id
<1>8. Alone'
  BY <1>1, <1>2, <1>5, <1>6 DEF Sound, Alone
<1>9. Known'
  <2> SUFFICES ASSUME NEW i \in DOMAIN statuses, statuses[i].key \notin twice, saved'[statuses[i].key] # i
               PROVE  \E u \in Puma : Working(u, statuses[i].key)' /\ handling'[u].at # "create" /\ handling'[u].id = i
    BY <1>2 DEF Known, Working, Handles
  <2>1. CASE statuses[i].key = key
    <3>1. saved[key] = 0 /\ \A u \in Puma : Working(u, key) => u = t
      BY <1>1, <1>4, <2>1 DEF Sound, Alone
    <3>2. PICK u \in Puma : Working(u, key) /\ handling[u].id = i
      BY <1>1, <1>4, <2>1, <3>1 DEF Sound, Known
    <3> QED BY <1>5, <2>1, <3>1, <3>2 DEF id
  <2>2. CASE statuses[i].key # key
    <3>1. PICK u \in Puma : Working(u, statuses[i].key) /\ handling[u].at # "create" /\ handling[u].id = i
      BY <1>1, <1>4, <1>5, <2>2 DEF Sound, Known
    <3>2. u # t
      BY <2>2, <3>1 DEF Working, key
    <3> QED BY <1>2, <1>3, <1>6, <3>1, <3>2
  <2> QED BY <2>1, <2>2
<1>10. Out(id)
  BY <1>1 DEF Sound, Told, Out, id
<1>11. SavedAreOut' /\ AnsweredAreOut'
  BY <1>1, <1>2, <1>5, <1>10 DEF Sound, SavedAreOut, AnsweredAreOut, Out
<1> QED BY <1>7, <1>8, <1>9, <1>11 DEF Sound

LEMMA AnswerStep ==
  ASSUME IInv, NEW t \in Puma, Handles(t), Answer(t)
  PROVE  Sound'
<1> DEFINE id == handling[t].id
<1>1. PostingTypeOK /\ Sound /\ handling[t].at = "answer"
  BY DEF IInv, Answer
<1>2. UNCHANGED <<statuses, saved, out, twice>> /\ answered' = answered \cup {id} /\ Free(t)
  BY DEF Answer, Reply
<1>3. ~ Handles(t)' /\ \A u \in Puma \ {t} : handling'[u] = handling[u]
  BY <1>1, <1>2, FreeType
<1>4. \A k : \A u \in Puma : Working(u, k)' <=> Working(u, k)
  BY <1>1, <1>3 DEF Working, Handles
<1>5. Created' /\ Told'
  BY <1>1, <1>2, <1>3 DEF Sound, Created, Told, Handles
<1>6. Alone'
  BY <1>1, <1>2, <1>4 DEF Sound, Alone
<1>7. Known'
  BY <1>1, <1>2, <1>3, <1>4 DEF Sound, Known, Working, Handles
<1>8. Out(id)
  BY <1>1 DEF Sound, Told, Out
<1>9. SavedAreOut' /\ AnsweredAreOut'
  BY <1>1, <1>2, <1>8 DEF Sound, SavedAreOut, AnsweredAreOut, Out
<1> QED BY <1>5, <1>6, <1>7, <1>9 DEF Sound

LEMMA BreakStep ==
  ASSUME IInv, NEW t \in Puma, Break(t)
  PROVE  Sound'
<1>1. PostingTypeOK /\ Sound /\ Handles(t)
  BY DEF IInv, Break
<1>2. UNCHANGED <<statuses, saved, out, answered>> /\ Free(t)
  BY DEF Break, Fail
<1>3. twice' = twice \cup {k \in Drafts : Working(t, k) /\ handling[t].at # "create"}
  BY DEF Break
<1>4. ~ Handles(t)' /\ \A u \in Puma \ {t} : handling'[u] = handling[u]
  BY <1>1, <1>2, FreeType
<1>5. \A k : \A u \in Puma : Working(u, k)' <=> Working(u, k) /\ u # t
  BY <1>4 DEF Working, Handles
<1>6. Created' /\ Told'
  BY <1>1, <1>2, <1>4 DEF Sound, Created, Told, Handles
<1>7. Alone'
  BY <1>1, <1>2, <1>3, <1>5 DEF Sound, Alone
<1>8. Known'
  <2> SUFFICES ASSUME NEW i \in DOMAIN statuses, statuses[i].key \notin twice', saved[statuses[i].key] # i
               PROVE  \E u \in Puma : Working(u, statuses[i].key)' /\ handling'[u].at # "create" /\ handling'[u].id = i
    BY <1>2 DEF Known, Working, Handles
  <2>1. PICK u \in Puma : Working(u, statuses[i].key) /\ handling[u].at # "create" /\ handling[u].id = i
    BY <1>1, <1>3 DEF Sound, Known
  <2>2. u # t
    BY <1>1, <1>3, <2>1, StatusType
  <2> QED BY <1>2, <1>4, <1>5, <2>1, <2>2
<1>9. SavedAreOut' /\ AnsweredAreOut'
  BY <1>1, <1>2 DEF Sound, SavedAreOut, AnsweredAreOut, Out
<1> QED BY <1>6, <1>7, <1>8, <1>9 DEF Sound

LEMMA ExpireStep ==
  ASSUME IInv, NEW k \in Drafts, Expire(k)
  PROVE  Sound'
<1>1. PostingTypeOK /\ Sound /\ UNCHANGED <<handling, statuses, out, answered>>
  BY DEF IInv, Expire
<1>2. saved'[k] = 0 /\ (\A j \in Drafts \ {k} : saved'[j] = saved[j]) /\ twice' = twice \cup {k}
  BY <1>1 DEF Expire, PostingTypeOK
<1>3. Created' /\ Told'
  BY <1>1 DEF Sound, Created, Told, Handles
<1>4. Alone'
  BY <1>1, <1>2 DEF Sound, Alone, Working, Handles
<1>5. Known'
  BY <1>1, <1>2, StatusType DEF Sound, Known, Working, Handles
<1>6. SavedAreOut' /\ AnsweredAreOut'
  BY <1>1, <1>2 DEF Sound, SavedAreOut, AnsweredAreOut, Out
<1> QED BY <1>3, <1>4, <1>5, <1>6 DEF Sound

-----------------------------------------------------------------------------
LEMMA InitHolds == PostingInit => IInv
<1> SUFFICES ASSUME PostingInit PROVE IInv
  OBVIOUS
<1>1. composer \in Composers
  BY PostingAssumption DEF PostingInit, Written, Composers, Drafts
<1>2. sends \in 0..MaxSends /\ breaks \in 0..MaxBreaks
  BY PostingAssumption DEF PostingInit
<1>3. statuses = <<>> /\ statuses \in Seq(Stored) /\ DOMAIN statuses = {}
  BY DEF PostingInit
<1>4. PostingTypeOK
  BY <1>1, <1>2, <1>3 DEF PostingInit, PostingTypeOK, Composers
<1>5. Sound
  BY <1>3 DEF PostingInit, Sound, Created, Alone, Known, Told, SavedAreOut, AnsweredAreOut, Handles, Working
<1> QED BY <1>4, <1>5 DEF IInv

LEMMA NextHolds ==
  ASSUME IInv, [PostingNext]_postingVars
  PROVE  IInv'
<1>1. PostingTypeOK'
  BY TypeHolds DEF IInv, Sound
<1> SUFFICES Sound'
  BY <1>1 DEF IInv
<1>2. CASE Change
  BY <1>2, QuietStep DEF Change, StatusSame, Handles
<1>3. CASE Submit
  <2>1. UNCHANGED <<statuses, saved, out, answered, twice>>
    BY <1>3 DEF Submit
  <2>2. CASE UNCHANGED handling
    BY <2>1, <2>2, QuietStep DEF StatusSame, Handles
  <2>3. ASSUME NEW t \in Puma, NEW r, ~ Handles(t), r.at = "lookup",
               handling' = [handling EXCEPT ![t] = r]
        PROVE  Sound'
    <3>1. handling'[t] = r /\ \A u \in Puma \ {t} : handling'[u] = handling[u]
      BY <2>3 DEF IInv, PostingTypeOK
    <3>2. \A u \in Puma : Handles(u) => u # t /\ Handles(u)' /\ handling'[u] = handling[u]
      BY <2>3, <3>1 DEF Handles
    <3>3. \A u \in Puma : Handles(u)' /\ ~ Handles(u) => handling'[u].at = "lookup"
      BY <2>3, <3>1 DEF Handles
    <3>4. StatusSame
      BY <2>1, <3>2, <3>3 DEF StatusSame
    <3> QED BY <3>4, QuietStep
  <2> QED BY <1>3, <2>2, <2>3 DEF Submit
<1>4. CASE GiveUp
  <2>1. UNCHANGED <<statuses, saved, out, answered, twice>>
    BY <1>4 DEF GiveUp
  <2>2. ASSUME NEW t \in Puma
        PROVE  IF Handles(t) THEN handling'[t] = [handling[t] EXCEPT !.awaited = FALSE] ELSE handling'[t] = NoRequest
    BY <1>4 DEF GiveUp
  <2>3. ASSUME NEW t \in Puma, Handles(t)
        PROVE  /\ Handles(t)' /\ handling'[t].at = handling[t].at
               /\ handling'[t].key = handling[t].key /\ handling'[t].id = handling[t].id
    <3>1. handling[t] \in Requests
      BY <2>3, BusyType DEF IInv
    <3>2. handling'[t] \in Requests /\ handling'[t].at = handling[t].at
          /\ handling'[t].key = handling[t].key /\ handling'[t].id = handling[t].id
      BY <2>2, <2>3, <3>1 DEF Requests
    <3> QED BY <3>2, RequestIsOne DEF Handles
  <2>4. \A t \in Puma : Handles(t)' => Handles(t)
    BY <2>2 DEF Handles
  <2>5. StatusSame
    BY <2>1, <2>3, <2>4 DEF StatusSame
  <2> QED BY <2>5, QuietStep
<1>5. ASSUME NEW t \in Puma, Handles(t), Serve(t)
      PROVE  Sound'
  BY <1>5, LookUpStep, CreateStep, TellStep, SaveStep, AnswerStep DEF Serve
<1>6. ASSUME NEW i \in DOMAIN statuses, Destroy(i)
      PROVE  Sound'
  BY <1>6, QuietStep DEF Destroy, StatusSame, Handles
<1>7. CASE UNCHANGED postingVars
  BY <1>7, QuietStep DEF postingVars, StatusSame, Handles
<1> QED
  BY <1>2, <1>3, <1>4, <1>5, <1>6, <1>7, BreakStep, ExpireStep DEF PostingNext, Serve

LEMMA Inductive == PostingSpec => []IInv
BY InitHolds, NextHolds, PTL DEF PostingSpec

\* Everything stays what it is: nothing is saved, told or answered about a
\* status that was not created
THEOREM TypeCorrect == PostingSpec => []PostingTypeOK
<1>1. IInv => PostingTypeOK
  BY DEF IInv
<1> QED BY <1>1, Inductive, PTL

LEMMA OneIfKnown == IInv => OnePerKey
<1> SUFFICES ASSUME IInv, NEW i \in DOMAIN statuses, NEW j \in DOMAIN statuses,
                    statuses[i].key = statuses[j].key, statuses[i].key \notin twice
             PROVE  i = j
  BY DEF OnePerKey
<1> DEFINE k == statuses[i].key
<1>1. k \in Drafts \ twice /\ i # 0 /\ j # 0
  BY StatusType DEF IInv
<1>2. \A n \in {i, j} : saved[k] = n \/ \E t \in Puma : Working(t, k) /\ handling[t].id = n
  BY DEF IInv, Sound, Known
<1>3. \A t \in Puma : Working(t, k) => saved[k] = 0 /\ \A u \in Puma : Working(u, k) => u = t
  BY <1>1 DEF IInv, Sound, Alone
<1> HIDE DEF k
<1> QED BY <1>1, <1>2, <1>3

\* A draft becomes one status, however often it is submitted and by however
\* many threads, if the look at its key is not overtaken
THEOREM OneEach == PostingSpec => []OnePerKey
BY OneIfKnown, Inductive, PTL

\* Whatever a request is answered with has been handed to all it is for
THEOREM OutFirst == PostingSpec => []AnsweredAreOut
<1>1. IInv => AnsweredAreOut
  BY DEF IInv, Sound
<1> QED BY <1>1, Inductive, PTL

-----------------------------------------------------------------------------
(* Folds: what the recursive function of a fold has come to after each element *)

LEMMA LeastNatural ==
  ASSUME NEW T \in SUBSET Nat, T # {}
  PROVE  \E n \in T : \A m \in T : n <= m
<1>1. IsWellFoundedOn(OpToRel(<, Nat), Nat)
  BY NatLessThanWellFounded
<1>2. PICK n \in T : \A m \in T : ~ (<<m, n>> \in OpToRel(<, Nat))
  BY <1>1, WFMin
<1>3. \A m \in T : ~ (m < n)
  BY <1>2 DEF OpToRel
<1> QED BY <1>3

\* What holds at the beginning and is kept by every step holds at the end
LEMMA StepByStep ==
  ASSUME NEW n \in Nat, NEW P, 0 \in P, \A k \in 0..n : k < n /\ k \in P => k + 1 \in P
  PROVE  \A k \in 0..n : k \in P
<1> DEFINE T == {k \in 0..n : k \notin P}
<1>1. SUFFICES ASSUME T # {} PROVE FALSE
  OBVIOUS
<1>2. T \in SUBSET Nat
  OBVIOUS
<1>3. PICK k \in T : \A m \in T : k <= m
  <2> HIDE DEF T
  <2> QED BY <1>1, <1>2, LeastNatural
<1>4. k \in 0..n /\ k \notin P /\ k # 0
  OBVIOUS
<1>5. k - 1 \in 0..n /\ k - 1 < n /\ k - 1 < k /\ (k - 1) + 1 = k
  BY <1>4
<1>6. k - 1 \in P
  <2>1. k - 1 \notin T
    <3> HIDE DEF T
    <3> QED BY <1>3, <1>4, <1>5
  <2> QED BY <1>5, <2>1
<1> QED BY <1>4, <1>5, <1>6

\* The function that a fold of G over 1..n evaluates, on sets of what is folded
IsFold(h, G, base, n) ==
  h = [s \in SUBSET (1..n) |-> IF s = {} THEN base ELSE G[<<Max(s), h[s \ {Max(s)}]>>]]

LEMMA MaxIs ==
  ASSUME NEW n \in Nat, NEW s \in SUBSET (1..n), n \in s
  PROVE  Max(s) = n
<1>1. \A y \in s : n >= y
  OBVIOUS
<1>2. \A x \in s : (\A y \in s : x >= y) => x = n
  <2> SUFFICES ASSUME NEW x \in s, x >= n PROVE x = n
    OBVIOUS
  <2> QED OBVIOUS
<1> QED BY <1>1, <1>2 DEF Max

LEMMA FoldExists ==
  ASSUME NEW n \in Nat, NEW A, NEW base \in A, NEW G \in [(1..n) \X A -> A]
  PROVE  \E h \in [SUBSET (1..n) -> A] : IsFold(h, G, base, n)
<1> DEFINE P == {k \in 0..n : \E h \in [SUBSET (1..k) -> A] : IsFold(h, G, base, k)}
<1>1. 0 \in P
  <2>1. 1..0 = {}
    OBVIOUS
  <2> DEFINE h == [s \in SUBSET (1..0) |-> base]
  <2>2. h \in [SUBSET (1..0) -> A]
    OBVIOUS
  <2>3. IsFold(h, G, base, 0)
    BY <2>1 DEF IsFold
  <2> QED BY <2>2, <2>3
<1>2. ASSUME NEW k \in 0..n, k < n, k \in P PROVE k + 1 \in P
  <2>1. PICK h \in [SUBSET (1..k) -> A] : IsFold(h, G, base, k)
    BY <1>2
  <2>2. k + 1 \in 1..n /\ 1..k \subseteq 1..(k + 1) /\ k + 1 \in Nat /\ k + 1 \in 0..n
        /\ k + 1 \notin 1..k /\ \A s \in SUBSET (1..(k + 1)) : s \ {k + 1} \in SUBSET (1..k)
    BY <1>2
  <2> DEFINE g == [s \in SUBSET (1..(k + 1)) |->
                     IF k + 1 \in s THEN G[<<k + 1, h[s \ {k + 1}]>>] ELSE h[s]]
  <2>3. \A s \in SUBSET (1..(k + 1)) : k + 1 \notin s => s \in SUBSET (1..k)
    BY <2>2
  <2>4. \A s \in SUBSET (1..(k + 1)) : g[s] \in A
    BY <2>2, <2>3
  <2>5. g \in [SUBSET (1..(k + 1)) -> A]
    BY <2>4
  <2>6. \A s \in SUBSET (1..k) : g[s] = h[s]
    <3> SUFFICES ASSUME NEW s \in SUBSET (1..k) PROVE g[s] = h[s]
      OBVIOUS
    <3>1. s \in SUBSET (1..(k + 1)) /\ k + 1 \notin s
      BY <2>2
    <3> QED BY <3>1
  <2>7. ASSUME NEW s \in SUBSET (1..(k + 1))
        PROVE  g[s] = IF s = {} THEN base ELSE G[<<Max(s), g[s \ {Max(s)}]>>]
    <3>1. CASE k + 1 \in s
      <4>1. Max(s) = k + 1
        BY <2>2, <3>1, MaxIs
      <4>2. g[s \ {k + 1}] = h[s \ {k + 1}]
        BY <2>2, <2>6
      <4>3. g[s] = G[<<k + 1, h[s \ {k + 1}]>>]
        BY <3>1
      <4> HIDE DEF g
      <4> QED BY <3>1, <4>1, <4>2, <4>3
    <3>2. CASE k + 1 \notin s
      <4>1. s \in SUBSET (1..k) /\ s \ {Max(s)} \in SUBSET (1..k)
        BY <2>3, <3>2
      <4>2. h[s] = IF s = {} THEN base ELSE G[<<Max(s), h[s \ {Max(s)}]>>]
        BY <2>1, <4>1 DEF IsFold
      <4>3. g[s] = h[s] /\ g[s \ {Max(s)}] = h[s \ {Max(s)}]
        BY <2>6, <4>1
      <4> HIDE DEF g
      <4> QED BY <4>2, <4>3
    <3> QED BY <3>1, <3>2
  <2>8. IsFold(g, G, base, k + 1)
    <3>1. g = [s \in SUBSET (1..(k + 1)) |-> g[s]]
      BY <2>5
    <3> HIDE DEF g
    <3> QED BY <2>7, <3>1 DEF IsFold
  <2> HIDE DEF g
  <2> QED BY <2>2, <2>5, <2>8
<1>3. n \in P
  <2> HIDE DEF P
  <2>1. n \in 0..n
    OBVIOUS
  <2> QED BY <1>1, <1>2, <2>1, StepByStep
<1> QED BY <1>3
LEMMA Unroll ==
  ASSUME NEW n \in Nat, NEW G, NEW base, NEW h, IsFold(h, G, base, n)
  PROVE  /\ h[{}] = base
         /\ \A k \in 1..n : h[1..k] = G[<<k, h[1..(k - 1)]>>]
<1>1. \A s \in SUBSET (1..n) : h[s] = IF s = {} THEN base ELSE G[<<Max(s), h[s \ {Max(s)}]>>]
  BY DEF IsFold
<1>2. ASSUME NEW k \in 1..n PROVE h[1..k] = G[<<k, h[1..(k - 1)]>>]
  <2>1. 1..k \in SUBSET (1..n) /\ 1..k \in SUBSET (1..k) /\ k \in 1..k /\ k \in Nat /\ 1..k # {}
    OBVIOUS
  <2>2. Max(1..k) = k
    BY <2>1, MaxIs
  <2>3. (1..k) \ {k} = 1..(k - 1)
    OBVIOUS
  <2> QED BY <1>1, <2>1, <2>2, <2>3
<1> QED BY <1>1, <1>2

-----------------------------------------------------------------------------
(* String#sub *)

LEMMA CatIs ==
  ASSUME NEW S, NEW u \in Seq(S), NEW v \in Seq(S)
  PROVE  /\ u \o v \in Seq(S) /\ Len(u \o v) = Len(u) + Len(v)
         /\ Len(u) \in Nat /\ Len(v) \in Nat
         /\ \A j \in 1..Len(u) : (u \o v)[j] = u[j]
         /\ \A j \in 1..Len(v) : (u \o v)[Len(u) + j] = v[j]
OBVIOUS

LEMMA SameSeq ==
  ASSUME NEW S, NEW u \in Seq(S), NEW v \in Seq(S), Len(u) = Len(v),
         \A j \in 1..Len(u) : u[j] = v[j]
  PROVE  u = v
OBVIOUS

LEMMA SplicedIs ==
  ASSUME NEW S, NEW t \in Seq(S), NEW y \in S, NEW p \in 1..Len(t), NEW r \in Seq(S),
         Len(r) = Len(t), \A j \in 1..Len(t) : r[j] = IF j = p THEN y ELSE t[j]
  PROVE  r = [t EXCEPT ![p] = y]
<1>1. [t EXCEPT ![p] = y] \in Seq(S) /\ Len([t EXCEPT ![p] = y]) = Len(t)
  OBVIOUS
<1>2. \A j \in 1..Len(t) : [t EXCEPT ![p] = y][j] = IF j = p THEN y ELSE t[j]
  OBVIOUS
<1> QED BY <1>1, <1>2, SameSeq

LEMMA InSubSeqs ==
  ASSUME NEW S, NEW t \in Seq(S), NEW x
  PROVE  <<x>> \in SubSeqs(t) <=> \E i \in 1..Len(t) : t[i] = x
<1>1. ASSUME NEW i \in 1..Len(t), t[i] = x PROVE <<x>> \in SubSeqs(t)
  <2>1. i - 1 \in 0..Len(t) /\ i \in 0..Len(t) /\ (i - 1) + 1 = i
    OBVIOUS
  <2>2. SubSeq(t, i, i) = <<x>>
    <3>1. SubSeq(t, i, i) \in Seq(S) /\ Len(SubSeq(t, i, i)) = 1 /\ SubSeq(t, i, i)[1] = t[i]
      OBVIOUS
    <3>2. <<x>> \in Seq(S) /\ Len(<<x>>) = 1 /\ <<x>>[1] = x
      BY <1>1
    <3>3. \A j \in 1..1 : j = 1
      OBVIOUS
    <3> QED BY <1>1, <3>1, <3>2, <3>3, SameSeq
  <2>3. <<x>> = SubSeq(t, (i - 1) + 1, i)
    BY <2>1, <2>2
  <2>4. \E a \in 0..Len(t), b \in 0..Len(t) : <<x>> = SubSeq(t, a + 1, b)
    <3> QED BY <2>1, <2>3, Zenon
  <2> QED BY <2>4 DEF SubSeqs
<1>2. ASSUME <<x>> \in SubSeqs(t) PROVE \E i \in 1..Len(t) : t[i] = x
  <2>1. PICK i, j \in 0..Len(t) : <<x>> = SubSeq(t, i + 1, j)
    BY <1>2 DEF SubSeqs
  <2>2. Len(SubSeq(t, i + 1, j)) = 1 /\ SubSeq(t, i + 1, j)[1] = x
    BY <2>1
  <2>3. Len(SubSeq(t, i + 1, j)) = IF i + 1 <= j THEN j - i ELSE 0
    OBVIOUS
  <2>4. j = i + 1 /\ i + 1 \in 1..Len(t)
    BY <2>2, <2>3
  <2>5. SubSeq(t, i + 1, j)[1] = t[i + 1]
    BY <2>4
  <2> QED BY <2>2, <2>4, <2>5
<1> QED BY <1>1, <1>2

(* It puts `new' in the place of the first `old'. *)
LEMMA SubIs ==
  ASSUME NEW S, NEW t \in Seq(S), NEW x, NEW y \in S, NEW p \in 1..Len(t),
         t[p] = x, \A j \in 1..(p - 1) : t[j] # x
  PROVE  Sub(t, x, y) = [t EXCEPT ![p] = y]
<1>1. <<x>> \in SubSeqs(t)
  BY InSubSeqs
<1>2. ASSUME NEW i \in 0..Len(t) PROVE <<x>> \in SubSeqs(SubSeq(t, 1, i)) <=> p <= i
  <2>1. SubSeq(t, 1, i) \in Seq(S) /\ Len(SubSeq(t, 1, i)) = i
        /\ \A j \in 1..i : SubSeq(t, 1, i)[j] = t[j]
    OBVIOUS
  <2>2. <<x>> \in SubSeqs(SubSeq(t, 1, i)) <=> \E j \in 1..i : t[j] = x
    <3>1. ASSUME NEW u \in Seq(S), Len(u) = i, \A j \in 1..i : u[j] = t[j]
          PROVE  <<x>> \in SubSeqs(u) <=> \E j \in 1..i : t[j] = x
      <4>1. <<x>> \in SubSeqs(u) <=> \E j \in 1..Len(u) : u[j] = x
        BY InSubSeqs
      <4> QED BY <3>1, <4>1
    <3> QED BY <2>1, <3>1
  <2> QED BY <2>2
<1> DEFINE Ends(i) == /\ <<x>> \in SubSeqs(SubSeq(t, 1, i))
                      /\ \A j \in 0..i-1 : <<x>> \notin SubSeqs(SubSeq(t, 1, j))
<1>3. \A i \in 0..Len(t) : Ends(i) <=> i = p
  <2> SUFFICES ASSUME NEW i \in 0..Len(t) PROVE Ends(i) <=> i = p
    OBVIOUS
  <2>1. \A j \in 0..i-1 : j \in 0..Len(t)
    OBVIOUS
  <2>2. Ends(i) <=> p <= i /\ \A j \in 0..i-1 : ~ (p <= j)
    BY <1>2, <2>1
  <2>3. p - 1 \in Nat
    OBVIOUS
  <2>4. p < i => p \in 0..i-1
    OBVIOUS
  <2> HIDE DEF Ends
  <2> QED BY <2>2, <2>4
<1>4. p \in 0..Len(t)
  OBVIOUS
<1>5. (CHOOSE i \in 0..Len(t) : Ends(i)) = p
  <2> HIDE DEF Ends
  <2> QED BY <1>3, <1>4
<1>6. IndexFirstSubSeq(<<x>>, t) = p
  <2>1. IndexFirstSubSeq(<<x>>, t) = (CHOOSE i \in 0..Len(t) : Ends(i)) - (Len(<<x>>) - 1)
    BY DEF IndexFirstSubSeq
  <2>2. Len(<<x>>) = 1
    OBVIOUS
  <2> HIDE DEF Ends
  <2>3. IndexFirstSubSeq(<<x>>, t) = p - (1 - 1)
    BY <1>5, <2>1, <2>2, Zenon
  <2>4. p - (1 - 1) = p
    OBVIOUS
  <2> QED BY <2>3, <2>4
<1>7. Sub(t, x, y) = SubSeq(t, 1, p - 1) \o <<y>> \o SubSeq(t, p + 1, Len(t))
  <2>1. Sub(t, x, y) = ReplaceSubSeqAt(p, <<y>>, <<x>>, t)
    BY <1>1, <1>6 DEF Sub, ReplaceFirstSubSeq
  <2>2. Len(<<x>>) = 1
    OBVIOUS
  <2> QED BY <2>1, <2>2 DEF ReplaceSubSeqAt
<1> DEFINE u == SubSeq(t, 1, p - 1)
           v == SubSeq(t, p + 1, Len(t))
<1>8. u \in Seq(S) /\ v \in Seq(S) /\ Len(u) = p - 1 /\ Len(v) = Len(t) - p
  OBVIOUS
<1>9. /\ \A j \in 1..(p - 1) : u[j] = t[j]
      /\ \A j \in 1..(Len(t) - p) : v[j] = t[p + j]
  OBVIOUS
<1>10. (u \o <<y>>) \o v = [t EXCEPT ![p] = y]
  <2> HIDE DEF u, v
  <2> DEFINE w == u \o <<y>>
  <2>1. w \in Seq(S) /\ Len(w) = p /\ w[p] = y /\ \A j \in 1..(p - 1) : w[j] = t[j]
    BY <1>8, <1>9
  <2> HIDE DEF w
  <2> DEFINE r == w \o v
  <2>a. /\ r \in Seq(S) /\ Len(r) = Len(w) + Len(v)
        /\ \A j \in 1..Len(w) : r[j] = w[j]
        /\ \A j \in 1..Len(v) : r[Len(w) + j] = v[j]
    <3>1. w \in Seq(S) /\ v \in Seq(S)
      BY <1>8, <2>1
    <3> QED BY <3>1, CatIs
  <2> HIDE DEF r
  <2>2. /\ r \in Seq(S) /\ Len(r) = Len(t)
        /\ \A j \in 1..p : r[j] = w[j]
        /\ \A j \in 1..(Len(t) - p) : r[p + j] = v[j]
    BY <1>8, <2>1, <2>a
  <2>3. ASSUME NEW j \in 1..Len(t) PROVE r[j] = IF j = p THEN y ELSE t[j]
    <3>1. CASE j = p
      BY <2>1, <2>2, <3>1
    <3>2. CASE j < p
      <4>1. j \in 1..(p - 1) /\ j \in 1..p
        BY <3>2
      <4> QED BY <2>1, <2>2, <3>2, <4>1
    <3>3. CASE j > p
      <4>1. j - p \in 1..(Len(t) - p) /\ p + (j - p) = j
        BY <3>3
      <4>2. r[p + (j - p)] = v[j - p] /\ v[j - p] = t[p + (j - p)]
        BY <1>9, <2>2, <4>1
      <4> QED BY <3>3, <4>1, <4>2
    <3> QED BY <3>1, <3>2, <3>3
  <2>6. r = [t EXCEPT ![p] = y]
    BY <2>2, <2>3, SplicedIs
  <2> QED BY <2>6 DEF r, w
<1> QED BY <1>7, <1>10

LEMMA SubNone ==
  ASSUME NEW S, NEW t \in Seq(S), NEW x, NEW y, \A j \in 1..Len(t) : t[j] # x
  PROVE  Sub(t, x, y) = t
BY InSubSeqs DEF Sub, ReplaceFirstSubSeq

-----------------------------------------------------------------------------
(* FlattenSeq *)

\* f holds what FlattenSeq has joined after each piece
Flats(f, a) ==
  /\ f[0] = <<>>
  /\ \A k \in 1..Len(a) : f[k] = f[k - 1] \o a[k]
  /\ FlattenSeq(a) = f[Len(a)]

FlatFold(f, a) == f = [i \in 1..Len(a) |-> IF i = 1 THEN a[i] ELSE f[i - 1] \o a[i]]

LEMMA FlatFoldExists ==
  ASSUME NEW S, NEW a \in Seq(Seq(S))
  PROVE  \E f \in [1..Len(a) -> Seq(S)] : FlatFold(f, a)
<1> DEFINE n == Len(a)
           G == [q \in (1..n) \X Seq(S) |-> IF q[1] = 1 THEN a[q[1]] ELSE q[2] \o a[q[1]]]
<1>1. n \in Nat /\ \A i \in 1..n : a[i] \in Seq(S)
  OBVIOUS
<1>2. <<>> \in Seq(S)
  OBVIOUS
<1>3. \A i \in 1..n, u \in Seq(S) : u \o a[i] \in Seq(S)
  BY <1>1
<1>4. G \in [(1..n) \X Seq(S) -> Seq(S)]
  BY <1>1, <1>3
<1>5. \A i \in 1..n, u \in Seq(S) : G[<<i, u>>] = IF i = 1 THEN a[i] ELSE u \o a[i]
  OBVIOUS
<1> HIDE DEF G, n
<1>6. PICK h \in [SUBSET (1..n) -> Seq(S)] : IsFold(h, G, <<>>, n)
  BY <1>1, <1>2, <1>4, FoldExists
<1>7. \A k \in 1..n : h[1..k] = G[<<k, h[1..(k - 1)]>>]
  <2>1. ASSUME NEW N, NEW g, N \in Nat, IsFold(h, g, <<>>, N)
        PROVE  \A k \in 1..N : h[1..k] = g[<<k, h[1..(k - 1)]>>]
    BY <2>1, Unroll
  <2> QED BY <1>1, <1>6, <2>1
<1>8. \A k \in 0..n : h[1..k] \in Seq(S)
  <2>1. \A k \in 0..n : 1..k \in SUBSET (1..n)
    BY <1>1
  <2> QED BY <1>6, <2>1
<1> DEFINE f == [k \in 1..n |-> h[1..k]]
<1>9. f \in [1..n -> Seq(S)]
  BY <1>1, <1>8
<1>10. ASSUME NEW k \in 1..n PROVE f[k] = IF k = 1 THEN a[k] ELSE f[k - 1] \o a[k]
  <2>1. k - 1 \in 0..n /\ (k # 1 => k - 1 \in 1..n)
    BY <1>1
  <2>2. f[k] = IF k = 1 THEN a[k] ELSE h[1..(k - 1)] \o a[k]
    BY <1>5, <1>7, <1>8, <2>1
  <2>3. k # 1 => f[k - 1] = h[1..(k - 1)]
    BY <2>1
  <2> HIDE DEF f
  <2> QED BY <2>2, <2>3
<1>11. f = [k \in 1..n |-> f[k]]
  OBVIOUS
<1>12. FlatFold(f, a)
  <2> HIDE DEF f
  <2> QED BY <1>10, <1>11 DEF FlatFold, n
<1> HIDE DEF f
<1> QED BY <1>9, <1>12 DEF n

(* It has what the pieces have, piece by piece. *)
LEMMA FlatsExist ==
  ASSUME NEW S, NEW a \in Seq(Seq(S))
  PROVE  \E f \in [0..Len(a) -> Seq(S)] : Flats(f, a)
<1>1. Len(a) \in Nat /\ \A i \in 1..Len(a) : a[i] \in Seq(S)
  OBVIOUS
<1>2. CASE Len(a) = 0
  <2> DEFINE f == [k \in 0..0 |-> <<>>]
  <2>1. a = <<>>
    BY <1>2
  <2>2. FlattenSeq(a) = <<>>
    BY <1>2, <2>1 DEF FlattenSeq
  <2>3. f \in [0..Len(a) -> Seq(S)] /\ f[0] = <<>>
    BY <1>2
  <2> HIDE DEF f
  <2>4. Flats(f, a)
    BY <1>2, <2>2, <2>3 DEF Flats
  <2> QED BY <2>3, <2>4
<1>3. CASE Len(a) # 0
  <2> DEFINE g == CHOOSE g : FlatFold(g, a)
  <2>1. FlattenSeq(a) = g[Len(a)]
    BY <1>3 DEF FlattenSeq, FlatFold
  <2>2. FlatFold(g, a)
    BY FlatFoldExists
  <2> HIDE DEF g
  <2>3. \A k \in 1..Len(a) : g[k] = IF k = 1 THEN a[k] ELSE g[k - 1] \o a[k]
    BY <2>2 DEF FlatFold
  <2> DEFINE f == [k \in 0..Len(a) |-> IF k = 0 THEN <<>> ELSE g[k]]
  <2>4. f[0] = <<>> /\ \A k \in 1..Len(a) : f[k] = g[k]
    BY <1>1
  <2>5. f = [k \in 0..Len(a) |-> f[k]]
    OBVIOUS
  <2> HIDE DEF f
  <2> DEFINE P == {k \in 0..Len(a) : f[k] \in Seq(S) /\ (k # 0 => f[k] = f[k - 1] \o a[k])}
  <2>6. 0 \in P
    <3>1. 0 \in 0..Len(a) /\ f[0] \in Seq(S)
      BY <1>1, <2>4
    <3> QED BY <3>1
  <2>7. ASSUME NEW k \in 0..Len(a), k < Len(a), k \in P PROVE k + 1 \in P
    <3>1. k + 1 \in 1..Len(a) /\ k + 1 \in 0..Len(a) /\ k + 1 # 0 /\ (k + 1) - 1 = k
          /\ f[k] \in Seq(S) /\ (k # 0 => k \in 1..Len(a))
      BY <1>1, <2>7
    <3>2. a[k + 1] \in Seq(S)
      BY <1>1, <3>1
    <3>3. f[k + 1] = f[k] \o a[k + 1]
      <4>1. CASE k = 0
        <5>1. f[k + 1] = a[k + 1] /\ f[k] = <<>>
          BY <2>3, <2>4, <3>1, <4>1
        <5> QED BY <3>2, <5>1
      <4>2. CASE k # 0
        <5>1. k + 1 # 1
          BY <4>2, <3>1
        <5>2. f[k + 1] = g[k + 1] /\ f[k] = g[k] /\ g[k + 1] = g[k] \o a[k + 1]
          BY <2>3, <2>4, <3>1, <4>2, <5>1
        <5> QED BY <5>2
      <4> QED BY <4>1, <4>2
    <3>4. f[k + 1] \in Seq(S)
      BY <3>1, <3>2, <3>3
    <3> QED BY <3>1, <3>3, <3>4
  <2>8. \A k \in 0..Len(a) : k \in P
    <3> HIDE DEF P
    <3> QED BY <1>1, <2>6, <2>7, StepByStep
  <2>9. f \in [0..Len(a) -> Seq(S)]
    BY <2>5, <2>8
  <2>10. \A k \in 1..Len(a) : f[k] = f[k - 1] \o a[k]
    <3>1. \A k \in 1..Len(a) : k \in 0..Len(a) /\ k # 0
      OBVIOUS
    <3> QED BY <2>8, <3>1
  <2>11. FlattenSeq(a) = f[Len(a)]
    BY <1>1, <1>3, <2>1, <2>4
  <2> HIDE DEF P
  <2> QED BY <2>4, <2>9, <2>10, <2>11 DEF Flats
<1> QED BY <1>2, <1>3
-----------------------------------------------------------------------------
(* A piece replaced *)

\* The first x of a text is at q
First(u, q, x) == q \in 1..Len(u) /\ u[q] = x /\ \A j \in 1..(q - 1) : u[j] # x

\* w is u with y at q
Changed(w, u, q, y) == w = [u EXCEPT ![q] = y]

LEMMA CatEach ==
  ASSUME NEW S, NEW u \in Seq(S), NEW v \in Seq(S), NEW T,
         \A j \in 1..Len(u) : u[j] \in T, \A j \in 1..Len(v) : v[j] \in T
  PROVE  \A j \in 1..Len(u \o v) : (u \o v)[j] \in T
<1> DEFINE r == u \o v
<1>1. /\ Len(r) = Len(u) + Len(v) /\ Len(u) \in Nat /\ Len(v) \in Nat
      /\ \A j \in 1..Len(u) : r[j] = u[j]
      /\ \A j \in 1..Len(v) : r[Len(u) + j] = v[j]
  BY CatIs
<1> HIDE DEF r
<1>2. ASSUME NEW j \in 1..Len(r) PROVE r[j] \in T
  <2>1. CASE j <= Len(u)
    BY <1>1, <2>1
  <2>2. CASE j > Len(u)
    <3>1. j - Len(u) \in 1..Len(v) /\ Len(u) + (j - Len(u)) = j
      BY <1>1, <2>2
    <3>2. r[Len(u) + (j - Len(u))] = v[j - Len(u)]
      BY <1>1, <3>1
    <3> QED BY <3>1, <3>2
  <2> QED BY <1>1, <2>1, <2>2
<1> QED BY <1>2 DEF r

LEMMA FirstCat ==
  ASSUME NEW S, NEW u \in Seq(S), NEW v \in Seq(S), NEW x, NEW y \in S, NEW q, NEW w,
         First(u, q, x), Changed(w, u, q, y)
  PROVE  First(u \o v, q, x) /\ Changed(w \o v, u \o v, q, y)
<1> DEFINE r == u \o v
           z == w \o v
<1>1. q \in 1..Len(u) /\ u[q] = x /\ \A j \in 1..(q - 1) : u[j] # x
  BY DEF First
<1>2. w \in Seq(S) /\ Len(w) = Len(u) /\ \A j \in 1..Len(u) : w[j] = IF j = q THEN y ELSE u[j]
  BY <1>1 DEF Changed
<1>3. /\ r \in Seq(S) /\ Len(r) = Len(u) + Len(v) /\ Len(u) \in Nat /\ Len(v) \in Nat
      /\ \A j \in 1..Len(u) : r[j] = u[j]
      /\ \A j \in 1..Len(v) : r[Len(u) + j] = v[j]
  BY CatIs
<1>4. /\ z \in Seq(S) /\ Len(z) = Len(w) + Len(v)
      /\ \A j \in 1..Len(w) : z[j] = w[j]
      /\ \A j \in 1..Len(v) : z[Len(w) + j] = v[j]
  <2>1. w \in Seq(S)
    BY <1>2
  <2> QED BY <2>1, CatIs
<1> HIDE DEF r, z
<1>5. Len(z) = Len(r) /\ q \in 1..Len(r)
  BY <1>1, <1>2, <1>3, <1>4
<1>6. ASSUME NEW j \in 1..Len(r) PROVE z[j] = IF j = q THEN y ELSE r[j]
  <2>1. CASE j <= Len(u)
    <3>1. j \in 1..Len(u)
      BY <2>1
    <3> QED BY <1>2, <1>3, <1>4, <3>1
  <2>2. CASE j > Len(u)
    <3>1. j - Len(u) \in 1..Len(v) /\ Len(u) + (j - Len(u)) = j /\ j # q
      BY <1>1, <1>3, <2>2
    <3>2. r[Len(u) + (j - Len(u))] = v[j - Len(u)] /\ z[Len(u) + (j - Len(u))] = v[j - Len(u)]
      BY <1>2, <1>3, <1>4, <3>1
    <3> QED BY <3>1, <3>2
  <2> QED BY <1>3, <2>1, <2>2
<1>7. z = [r EXCEPT ![q] = y]
  BY <1>3, <1>4, <1>5, <1>6, SplicedIs
<1>8. First(r, q, x)
  <2>1. \A j \in 1..(q - 1) : j \in 1..Len(u)
    BY <1>1, <1>3
  <2> QED BY <1>1, <1>3, <1>5, <2>1 DEF First
<1>9. First(u \o v, q, x)
  BY <1>8 DEF r
<1>10. Changed(z, r, q, y)
  BY <1>7 DEF Changed
<1>11. Changed(w \o v, u \o v, q, y)
  BY <1>10 DEF r, z
<1> QED BY <1>9, <1>11

(* A piece that is a single token is replaced by the first String#sub of   *)
(* it, if the pieces before do not have the token.                         *)
LEMMA FlatSub ==
  ASSUME NEW S, NEW a \in Seq(Seq(S)), NEW b \in Seq(Seq(S)), NEW e \in Seq(S),
         NEW p \in 1..Len(a), NEW x \in S, NEW y \in S,
         a[p] = <<x>>, \A j \in 1..(p - 1) : \A i \in 1..Len(a[j]) : a[j][i] # x,
         Len(b) = Len(a), b[p] = <<y>>, \A j \in 1..Len(a) : j # p => b[j] = a[j]
  PROVE  Sub(FlattenSeq(a) \o e, x, y) = FlattenSeq(b) \o e
<1>1. PICK f \in [0..Len(a) -> Seq(S)] : Flats(f, a)
  BY FlatsExist
<1>2. PICK g \in [0..Len(b) -> Seq(S)] : Flats(g, b)
  BY FlatsExist
<1>0. ASSUME NEW u \in Seq(S), NEW v \in Seq(S), NEW i, NEW w, First(u, i, x), Changed(w, u, i, y)
      PROVE  First(u \o v, i, x) /\ Changed(w \o v, u \o v, i, y)
  BY <1>0, FirstCat
<1> DEFINE n == Len(a)
           m == p - 1
           q == Len(f[m]) + 1
<1>a. n \in Nat /\ \A j \in 1..n : a[j] \in Seq(S)
  OBVIOUS
<1>b. p \in 1..n
  OBVIOUS
<1>3. n \in Nat /\ m \in 0..n /\ m \in Nat /\ \A j \in 1..n : a[j] \in Seq(S)
  <2> HIDE DEF n, q
  <2> QED BY <1>a, <1>b
<1>4. /\ f[0] = <<>> /\ g[0] = <<>>
      /\ \A k \in 1..n : f[k] = f[k - 1] \o a[k] /\ g[k] = g[k - 1] \o b[k]
      /\ FlattenSeq(a) = f[n] /\ FlattenSeq(b) = g[n]
  BY <1>1, <1>2 DEF Flats
<1> HIDE DEF n
<1>c. ASSUME NEW u \in Seq(S), NEW v \in Seq(S),
             \A j \in 1..Len(u) : u[j] \in S \ {x}, \A j \in 1..Len(v) : v[j] \in S \ {x}
      PROVE  \A j \in 1..Len(u \o v) : (u \o v)[j] \in S \ {x}
  BY <1>c, CatEach
<1> DEFINE Clear(u) == \A j \in 1..Len(u) : u[j] \in S \ {x}
           P == {k \in 0..m : g[k] = f[k] /\ Clear(f[k])}
<1>5. \A k \in 0..m : k \in P
  <2>1. 0 \in P
    <3>1. Clear(<<>>)
      OBVIOUS
    <3> HIDE DEF Clear
    <3> QED BY <1>3, <1>4, <3>1
  <2>2. ASSUME NEW k \in 0..m, k < m, k \in P PROVE k + 1 \in P
    <3>1. k + 1 \in 1..n /\ k + 1 \in 0..m /\ k + 1 # p /\ k + 1 \in 1..(p - 1) /\ (k + 1) - 1 = k
          /\ k \in 0..n
      BY <1>3, <2>2 DEF n
    <3>2. f[k] \in Seq(S) /\ a[k + 1] \in Seq(S) /\ b[k + 1] = a[k + 1]
      BY <1>1, <1>3, <3>1 DEF n
    <3>3. f[k + 1] = f[k] \o a[k + 1] /\ g[k + 1] = g[k] \o b[k + 1]
      BY <1>4, <3>1
    <3>4. Clear(f[k]) /\ g[k] = f[k]
      BY <2>2
    <3>5. Clear(a[k + 1])
      <4>1. \A j \in 1..Len(a[k + 1]) : a[k + 1][j] \in S
        BY <3>2
      <4> QED BY <3>1, <4>1
    <3>6. Clear(f[k] \o a[k + 1])
      BY <1>c, <3>2, <3>4, <3>5
    <3> HIDE DEF Clear
    <3>7. Clear(f[k + 1]) /\ g[k + 1] = f[k + 1]
      BY <3>2, <3>3, <3>4, <3>6
    <3> QED BY <3>1, <3>7
  <2> HIDE DEF P
  <2> QED BY <1>3, <2>1, <2>2, StepByStep
<1>6. g[m] = f[m] /\ Clear(f[m]) /\ f[m] \in Seq(S)
  <2>1. m \in 0..m
    BY <1>3
  <2> QED BY <1>1, <1>3, <1>5, <2>1 DEF n
<1> DEFINE Met(k) == First(f[k], q, x) /\ Changed(g[k], f[k], q, y)
<1>7. Met(p)
  <2> DEFINE u == f[m]
             r == u \o <<x>>
             z == u \o <<y>>
  <2>1. p \in 1..n /\ p - 1 = m
    BY DEF n
  <2>2. f[p] = r /\ g[p] = z
    BY <1>4, <1>6, <2>1
  <2>3. <<x>> \in Seq(S) /\ Len(<<x>>) = 1 /\ <<x>>[1] = x /\ <<y>> \in Seq(S) /\ Len(<<y>>) = 1
        /\ <<y>>[1] = y
    OBVIOUS
  <2>4. /\ r \in Seq(S) /\ Len(r) = Len(u) + Len(<<x>>) /\ Len(u) \in Nat
        /\ \A j \in 1..Len(u) : r[j] = u[j]
        /\ \A j \in 1..Len(<<x>>) : r[Len(u) + j] = <<x>>[j]
    BY <1>6, <2>3, CatIs
  <2>5. /\ z \in Seq(S) /\ Len(z) = Len(u) + Len(<<y>>)
        /\ \A j \in 1..Len(u) : z[j] = u[j]
        /\ \A j \in 1..Len(<<y>>) : z[Len(u) + j] = <<y>>[j]
    BY <1>6, <2>3, CatIs
  <2> HIDE DEF r, z
  <2>6. Len(r) = q /\ Len(z) = q /\ q \in 1..q /\ q \in Nat /\ q - 1 = Len(u) /\ Len(u) \in Nat
    BY <2>3, <2>4, <2>5
  <2>7. r[q] = x /\ z[q] = y
    <3>1. 1 \in 1..Len(<<x>>) /\ 1 \in 1..Len(<<y>>)
      BY <2>3
    <3> QED BY <2>3, <2>4, <2>5, <3>1
  <2>8. \A j \in 1..Len(u) : r[j] = u[j] /\ z[j] = u[j] /\ u[j] # x
    BY <1>6, <2>4, <2>5
  <2> HIDE DEF u, q
  <2>9. First(r, q, x)
    BY <2>6, <2>7, <2>8 DEF First
  <2>10. ASSUME NEW j \in 1..Len(r) PROVE z[j] = IF j = q THEN y ELSE r[j]
    <3>0. ASSUME NEW d \in Nat, q - 1 = d PROVE \A i \in 1..q : i = q \/ i \in 1..d
      BY <2>6, <3>0
    <3>1. j = q \/ j \in 1..Len(u)
      BY <2>6, <3>0
    <3>2. q \notin 1..Len(u)
      BY <2>6
    <3> QED BY <2>7, <2>8, <3>1, <3>2
  <2>11. Changed(z, r, q, y)
    BY <2>4, <2>5, <2>6, <2>10, SplicedIs DEF Changed
  <2> QED BY <2>2, <2>9, <2>11
<1> HIDE DEF q
<1> DEFINE Q == {k \in 0..n : k < p \/ Met(k)}
<1>8. \A k \in 0..n : k \in Q
  <2>1. 0 \in Q
    BY <1>3
  <2>2. ASSUME NEW k \in 0..n, k < n, k \in Q PROVE k + 1 \in Q
    <3>0. n \in Nat /\ k \in Nat /\ k < n
      BY <1>3, <2>2
    <3>1. k + 1 \in 0..n /\ k + 1 \in 1..n /\ (k + 1) - 1 = k
      BY ONLY <3>0
    <3>2. CASE k + 1 < p
      BY <3>1, <3>2
    <3>3. CASE k + 1 = p
      BY <1>7, <3>1, <3>3
    <3>4. CASE k + 1 > p
      <4>1. ~ (k < p) /\ k + 1 # p
        BY <3>4
      <4>2. Met(k)
        BY <2>2, <4>1
      <4>3. f[k] \in Seq(S) /\ a[k + 1] \in Seq(S)
        BY <1>1, <1>3, <3>1 DEF n
      <4>4. f[k + 1] = f[k] \o a[k + 1] /\ g[k + 1] = g[k] \o a[k + 1]
        BY <1>4, <3>1, <4>1 DEF n
      <4>5. First(f[k] \o a[k + 1], q, x)
            /\ Changed(g[k] \o a[k + 1], f[k] \o a[k + 1], q, y)
        <5>1. First(f[k], q, x) /\ Changed(g[k], f[k], q, y)
          BY <4>2
        <5> HIDE DEF Met
        <5> QED BY <1>0, <4>3, <5>1
      <4>6. Met(k + 1)
        BY <4>2, <4>4, <4>5
      <4> QED BY <3>1, <4>6
    <3> QED BY <1>3, <3>2, <3>3, <3>4
  <2> HIDE DEF Q
  <2> QED BY <1>3, <2>1, <2>2, StepByStep
<1>9. Met(n) /\ f[n] \in Seq(S)
  <2>1. n \in 0..n /\ ~ (n < p)
    BY <1>3 DEF n
  <2> QED BY <1>1, <1>8, <2>1 DEF n
<1>10. /\ First(f[n] \o e, q, x)
       /\ Changed(g[n] \o e, f[n] \o e, q, y)
  BY <1>0, <1>9
<1>11. Sub(f[n] \o e, x, y) = g[n] \o e
  <2>1. f[n] \o e \in Seq(S)
    BY <1>9, CatIs
  <2>2. ASSUME NEW u \in Seq(S), NEW w, First(u, q, x), Changed(w, u, q, y) PROVE Sub(u, x, y) = w
    BY <2>2, SubIs DEF First, Changed
  <2> QED BY <1>10, <2>1, <2>2
<1> QED BY <1>4, <1>9, <1>10, <1>11
-----------------------------------------------------------------------------
(* The exceptions in a text, in its order *)

\* c[i] exceptions are among the first i tokens
\* c counts the exceptions up to each place of a text
Counts(c, t) ==
  /\ c \in [0..Len(t) -> Nat]
  /\ c[0] = 0
  /\ \A i \in 1..Len(t) : c[i] = IF t[i] \in Exceptions THEN c[i - 1] + 1 ELSE c[i - 1]

LEMMA CountsGrow ==
  ASSUME NEW S, NEW t \in Seq(S), NEW c, Counts(c, t)
  PROVE  \A i, j \in 0..Len(t) : i <= j => c[i] <= c[j]
<1> DEFINE n == Len(t)
<1>1. n \in Nat
  OBVIOUS
<1>2. c \in [0..n -> Nat]
      /\ \A i \in 1..n : c[i] = IF t[i] \in Exceptions THEN c[i - 1] + 1 ELSE c[i - 1]
  BY DEF Counts
<1> HIDE DEF n
<1>3. ASSUME NEW i \in 0..n PROVE \A j \in 0..n : i <= j => c[i] <= c[j]
  <2> DEFINE P == {j \in 0..n : i <= j => c[i] <= c[j]}
  <2>1. 0 \in P
    <3>1. i <= 0 => i = 0
      BY <1>1
    <3> QED BY <1>1, <1>2, <3>1
  <2>2. ASSUME NEW j \in 0..n, j < n, j \in P PROVE j + 1 \in P
    <3>1. j + 1 \in 1..n /\ j + 1 \in 0..n /\ (j + 1) - 1 = j
      BY <1>1, <2>2
    <3>2. c[j] \in Nat /\ c[j + 1] \in Nat /\ c[i] \in Nat /\ (c[j + 1] = c[j] \/ c[j + 1] = c[j] + 1)
      BY <1>2, <3>1
    <3>3. i <= j \/ i = j + 1 \/ i > j + 1
      BY <1>1
    <3>4. i <= j => c[i] <= c[j]
      BY <2>2
    <3>5. i <= j + 1 => c[i] <= c[j + 1]
      BY <3>2, <3>3, <3>4
    <3> QED BY <3>1, <3>5
  <2>3. \A j \in 0..n : j \in P
    <3> HIDE DEF P
    <3> QED BY <1>1, <2>1, <2>2, StepByStep
  <2> QED BY <2>3
<1> QED BY <1>3 DEF n

LEMMA CountsMeet ==
  ASSUME NEW S, NEW t \in Seq(S), NEW c, Counts(c, t), NEW k \in 1..c[Len(t)]
  PROVE  \E p \in 1..Len(t) : t[p] \in Exceptions /\ c[p] = k /\ c[p - 1] = k - 1
<1> DEFINE n == Len(t)
           T == {i \in 0..n : c[i] >= k}
<1>1. n \in Nat
  OBVIOUS
<1>2. c \in [0..n -> Nat] /\ c[0] = 0
      /\ \A i \in 1..n : c[i] = IF t[i] \in Exceptions THEN c[i - 1] + 1 ELSE c[i - 1]
  BY DEF Counts
<1>3. k \in 1..c[n]
  OBVIOUS
<1> HIDE DEF n
<1>4. n \in T
  BY <1>1, <1>2, <1>3
<1>5. T \in SUBSET Nat
  BY <1>1
<1>6. PICK p \in T : \A m \in T : p <= m
  <2> HIDE DEF T
  <2> QED BY <1>4, <1>5, LeastNatural
<1>7. p \in 0..n /\ c[p] >= k /\ k \in Nat /\ k > 0
  BY <1>1, <1>2, <1>3
<1>8. p # 0
  BY <1>2, <1>7
<1>9. p \in 1..n /\ p - 1 \in 0..n /\ p - 1 < p
  BY <1>1, <1>7, <1>8
<1>10. ~ (c[p - 1] >= k)
  <2>1. p - 1 \notin T
    <3> HIDE DEF T
    <3> QED BY <1>6, <1>7, <1>9
  <2> QED BY <1>9, <2>1
<1>11. c[p] \in Nat /\ c[p - 1] \in Nat /\ c[p] = IF t[p] \in Exceptions THEN c[p - 1] + 1 ELSE c[p - 1]
  BY <1>2, <1>9
<1>12. t[p] \in Exceptions /\ c[p] = k /\ c[p - 1] = k - 1
  BY <1>7, <1>10, <1>11
<1> QED BY <1>9, <1>12 DEF n

Joins(w, u, v) == w = u \o v

\* l lists them in their order
Listed(l, c, t) ==
  /\ Len(l) = c[Len(t)]
  /\ \A i \in 1..Len(t) : t[i] \in Exceptions => c[i] \in 1..Len(l) /\ l[c[i]] = t[i]

LEMMA ScanLists ==
  ASSUME NEW S, NEW t \in Seq(S)
  PROVE  /\ Scan(t) \in Seq(S \cap Exceptions)
         /\ \E c : Counts(c, t) /\ Listed(Scan(t), c, t)
<1> DEFINE n == Len(t)
           E == S \cap Exceptions
           a == [i \in 1..n |-> IF t[i] \in Exceptions THEN <<t[i]>> ELSE <<>>]
<1>1. n \in Nat /\ DOMAIN t = 1..n /\ \A i \in 1..n : t[i] \in S
  OBVIOUS
<1>2. Scan(t) = FlattenSeq(a)
  BY <1>1 DEF Scan
<1> HIDE DEF n
<1>3. ASSUME NEW i \in 1..n PROVE a[i] \in Seq(E)
  <2>1. CASE t[i] \in Exceptions
    <3>1. t[i] \in E
      BY <1>1, <2>1
    <3>2. <<t[i]>> \in Seq(E)
      <4> HIDE DEF E
      <4> QED BY <3>1
    <3> QED BY <2>1, <3>2
  <2>2. CASE t[i] \notin Exceptions
    <3>1. <<>> \in Seq(E)
      OBVIOUS
    <3> QED BY <2>2, <3>1
  <2> QED BY <2>1, <2>2
<1>4. a \in Seq(Seq(E)) /\ Len(a) = n
  BY <1>1, <1>3
<1>5. \A i \in 1..n : /\ t[i] \in Exceptions => Len(a[i]) = 1 /\ a[i][1] = t[i]
                      /\ t[i] \notin Exceptions => a[i] = <<>>
  OBVIOUS
<1> HIDE DEF a, E
<1>6. PICK f \in [0..n -> Seq(E)] : Flats(f, a)
  <2>1. \E f \in [0..Len(a) -> Seq(E)] : Flats(f, a)
    BY <1>4, FlatsExist
  <2> QED BY <1>4, <2>1
<1>7. /\ f[0] = <<>> /\ Scan(t) = f[n]
      /\ \A k \in 1..n : f[k] = f[k - 1] \o a[k]
  BY <1>2, <1>4, <1>6 DEF Flats
<1> DEFINE c == [k \in 0..n |-> Len(f[k])]
<1>8. \A k \in 0..n : c[k] \in Nat /\ c[k] = Len(f[k])
  BY <1>6
<1>9. c \in [0..n -> Nat]
  BY <1>8
<1> HIDE DEF c
<1>10. ASSUME NEW k \in 1..n
       PROVE  /\ t[k] \in Exceptions =>
                   c[k] = c[k - 1] + 1 /\ f[k][c[k]] = t[k]
              /\ t[k] \notin Exceptions => f[k] = f[k - 1]
              /\ \A j \in 1..c[k - 1] : f[k][j] = f[k - 1][j]
              /\ c[k - 1] <= c[k]
  <2>1. k - 1 \in 0..n /\ k \in 0..n
    BY <1>1
  <2>2. f[k - 1] \in Seq(E) /\ a[k] \in Seq(E) /\ f[k] = f[k - 1] \o a[k]
    <3>1. f[k - 1] \in Seq(E)
      BY <1>6, <2>1
    <3> QED BY <1>3, <1>7, <3>1
  <2>3. /\ Len(f[k]) = Len(f[k - 1]) + Len(a[k]) /\ Len(f[k - 1]) \in Nat /\ Len(a[k]) \in Nat
        /\ \A j \in 1..Len(f[k - 1]) : f[k][j] = f[k - 1][j]
        /\ \A j \in 1..Len(a[k]) : f[k][Len(f[k - 1]) + j] = a[k][j]
    <3>1. ASSUME NEW u \in Seq(E), NEW v \in Seq(E), NEW w, Joins(w, u, v)
          PROVE  /\ Len(w) = Len(u) + Len(v) /\ Len(u) \in Nat /\ Len(v) \in Nat
                 /\ \A j \in 1..Len(u) : w[j] = u[j]
                 /\ \A j \in 1..Len(v) : w[Len(u) + j] = v[j]
      BY <3>1, CatIs DEF Joins
    <3>2. Joins(f[k], f[k - 1], a[k])
      BY <2>2 DEF Joins
    <3>3. f[k - 1] \in Seq(E) /\ a[k] \in Seq(E)
      BY <2>2
    <3>4. Len(f[k - 1]) \in Nat /\ Len(a[k]) \in Nat
      BY <3>3
    <3>7. Len(f[k]) = Len(f[k - 1]) + Len(a[k])
      <4>1. ASSUME NEW u \in Seq(E), NEW v \in Seq(E) PROVE Len(u \o v) = Len(u) + Len(v)
        OBVIOUS
      <4>2. Len(f[k - 1] \o a[k]) = Len(f[k - 1]) + Len(a[k])
        BY <3>3, <4>1
      <4>3. f[k - 1] \o a[k] = f[k]
        BY <2>2, Zenon
      <4> QED BY <4>2, <4>3, Zenon
    <3>5. \A j \in 1..Len(f[k - 1]) : f[k][j] = f[k - 1][j]
      BY <3>1, <3>2, <3>3
    <3>6. \A j \in 1..Len(a[k]) : f[k][Len(f[k - 1]) + j] = a[k][j]
      BY <3>1, <3>2, <3>3
    <3> QED BY <3>4, <3>5, <3>6, <3>7
  <2>4. c[k] = Len(f[k]) /\ c[k - 1] = Len(f[k - 1])
    BY <1>8, <2>1
  <2>5. t[k] \in Exceptions => c[k] = c[k - 1] + 1 /\ f[k][c[k]] = t[k]
    <3> SUFFICES ASSUME t[k] \in Exceptions PROVE c[k] = c[k - 1] + 1 /\ f[k][c[k]] = t[k]
      OBVIOUS
    <3>1. Len(a[k]) = 1 /\ a[k][1] = t[k] /\ 1 \in 1..1
      BY <1>5
    <3>2. f[k][Len(f[k - 1]) + 1] = a[k][1] /\ Len(f[k]) = Len(f[k - 1]) + 1
      BY <2>3, <3>1
    <3> QED BY <2>4, <3>1, <3>2
  <2>6. t[k] \notin Exceptions => f[k] = f[k - 1]
    <3>1. \A u \in Seq(E) : u \o <<>> = u
      OBVIOUS
    <3> QED BY <1>5, <2>2, <3>1
  <2>7. c[k - 1] <= c[k]
    <3>1. \A x, y \in Nat : x <= x + y
      OBVIOUS
    <3> QED BY <2>3, <2>4, <3>1
  <2> QED BY <2>3, <2>4, <2>5, <2>6, <2>7
<1>11. Counts(c, t)
  <2>1. c[0] = 0
    <3>1. c[0] = Len(<<>>)
      BY <1>1, <1>7, <1>8
    <3> QED BY <3>1
  <2>2. \A k \in 1..n : c[k] = IF t[k] \in Exceptions THEN c[k - 1] + 1 ELSE c[k - 1]
    <3> SUFFICES ASSUME NEW k \in 1..n
                 PROVE  c[k] = IF t[k] \in Exceptions THEN c[k - 1] + 1 ELSE c[k - 1]
      OBVIOUS
    <3>1. k - 1 \in 0..n /\ k \in 0..n
      BY <1>1
    <3> QED BY <1>8, <1>10, <3>1
  <2> QED BY <1>9, <2>1, <2>2 DEF Counts, n
<1> DEFINE Right(k) ==
      \A i \in 1..k : t[i] \in Exceptions => c[i] \in 1..c[k] /\ f[k][c[i]] = t[i]
<1> DEFINE P == {k \in 0..n : Right(k)}
<1>12. \A k \in 0..n : k \in P
  <2>1. 0 \in P
    BY <1>1
  <2>2. ASSUME NEW k \in 0..n, k < n, k \in P PROVE k + 1 \in P
    <3>1. k + 1 \in 1..n /\ k + 1 \in 0..n /\ (k + 1) - 1 = k
      BY <1>1, <2>2
    <3>2. c[k] \in Nat /\ c[k + 1] \in Nat /\ c[k] <= c[k + 1]
          /\ \A j \in 1..c[k] : f[k + 1][j] = f[k][j]
      BY <1>8, <1>10, <3>1
    <3>3. ASSUME NEW i \in 1..(k + 1), t[i] \in Exceptions
          PROVE  c[i] \in 1..c[k + 1] /\ f[k + 1][c[i]] = t[i]
      <4>1. CASE i = k + 1
        <5>1. c[k + 1] = c[k] + 1 /\ f[k + 1][c[k + 1]] = t[k + 1]
          BY <1>10, <3>1, <3>3, <4>1
        <5> QED BY <3>2, <4>1, <5>1
      <4>2. CASE i # k + 1
        <5>1. i \in 1..k
          BY <4>2
        <5>2. c[i] \in 1..c[k] /\ f[k][c[i]] = t[i]
          BY <2>2, <3>3, <5>1
        <5> QED BY <3>2, <5>2
      <4> QED BY <4>1, <4>2
    <3>4. Right(k + 1)
      BY <3>3
    <3> HIDE DEF Right
    <3> QED BY <3>1, <3>4
  <2> HIDE DEF P
  <2> QED BY <1>1, <2>1, <2>2, StepByStep
<1>13. Listed(Scan(t), c, t)
  <2>1. n \in 0..n
    BY <1>1
  <2>2. Right(n) /\ c[n] = Len(Scan(t))
    BY <1>7, <1>8, <1>12, <2>1
  <2> QED BY <1>7, <2>2 DEF Listed, n
<1>14. Scan(t) \in Seq(E)
  <2>1. n \in 0..n
    BY <1>1
  <2> QED BY <1>6, <1>7, <2>1
<1> QED BY <1>11, <1>13, <1>14 DEF E
-----------------------------------------------------------------------------
(* safe_hold and safe_return, term by term *)

LEMMA SubType ==
  ASSUME NEW S, NEW t \in Seq(S), NEW x, NEW y \in S
  PROVE  Sub(t, x, y) \in Seq(S)
<1>1. CASE \A j \in 1..Len(t) : t[j] # x
  BY <1>1, SubNone
<1>2. CASE \E j \in 1..Len(t) : t[j] = x
  <2> DEFINE T == {j \in 1..Len(t) : t[j] = x}
  <2>1. T \in SUBSET Nat /\ T # {}
    BY <1>2
  <2>2. PICK p \in T : \A j \in T : p <= j
    <3> HIDE DEF T
    <3> QED BY <2>1, LeastNatural
  <2>3. p \in 1..Len(t) /\ t[p] = x
    OBVIOUS
  <2>4. ASSUME NEW j \in 1..(p - 1) PROVE t[j] # x
    <3>1. j \in 1..Len(t) /\ ~ (p <= j)
      BY <2>3
    <3>2. j \notin T
      <4> HIDE DEF T
      <4> QED BY <2>2, <3>1
    <3> QED BY <3>1, <3>2
  <2> HIDE DEF T
  <2>5. Sub(t, x, y) = [t EXCEPT ![p] = y]
    BY <2>3, <2>4, SubIs
  <2> QED BY <2>3, <2>5
<1> QED BY <1>1, <1>2

LEMMA MaxIn ==
  ASSUME NEW n \in Nat, NEW s \in SUBSET (1..n), s # {}
  PROVE  Max(s) \in s
<1> DEFINE T == {n - x : x \in s}
<1>0. \A x \in s : n - x \in Nat
  OBVIOUS
<1>1. T \in SUBSET Nat /\ T # {}
  BY <1>0
<1>2. PICK d \in T : \A m \in T : d <= m
  <2> HIDE DEF T
  <2> QED BY <1>1, LeastNatural
<1>3. PICK x \in s : d = n - x
  OBVIOUS
<1>4. \A y \in s : x >= y
  <2> SUFFICES ASSUME NEW y \in s PROVE x >= y
    OBVIOUS
  <2>1. n - y \in T
    OBVIOUS
  <2>2. d <= n - y
    <3> HIDE DEF T
    <3> QED BY <1>2, <2>1
  <2>3. x \in 1..n /\ y \in 1..n
    OBVIOUS
  <2> QED BY <1>3, <2>2, <2>3
<1> QED BY <1>4 DEF Max

LEMMA UpToIs ==
  ASSUME NEW n \in Nat, NEW k \in 1..n
  PROVE  /\ 1..k \in SUBSET (1..n) /\ 1..k # {} /\ Max(1..k) = k
         /\ (1..k) \ {k} = 1..(k - 1)
         /\ k \in 0..n /\ k - 1 \in 0..n
<1>1. 1..k \in SUBSET (1..k) /\ k \in 1..k /\ k \in Nat
  OBVIOUS
<1>2. Max(1..k) = k
  BY <1>1, MaxIs
<1>3. (1..k) \ {k} = 1..(k - 1)
  OBVIOUS
<1>4. 1..k \in SUBSET (1..n)
  OBVIOUS
<1>5. k \in 0..n /\ k - 1 \in 0..n
  OBVIOUS
<1> QED BY <1>1, <1>2, <1>3, <1>4, <1>5

(* What a fold has come to after each element, if it stays in a set *)
LEMMA PrefixesStay ==
  ASSUME NEW n \in Nat, NEW A, NEW h, h[{}] \in A,
         \A k \in 1..n : h[1..(k - 1)] \in A => h[1..k] \in A
  PROVE  \E f \in [0..n -> A] : f[0] = h[{}] /\ \A k \in 0..n : f[k] = h[1..k]
<1> DEFINE P == {k \in 0..n : h[1..k] \in A}
<1>0. 1..0 = {}
  OBVIOUS
<1>1. 0 \in P
  BY <1>0
<1>2. ASSUME NEW k \in 0..n, k < n, k \in P PROVE k + 1 \in P
  <2>1. k + 1 \in 1..n /\ k + 1 \in 0..n /\ (k + 1) - 1 = k
    BY <1>2
  <2> QED BY <1>2, <2>1
<1>3. \A k \in 0..n : k \in P
  <2> HIDE DEF P
  <2> QED BY <1>1, <1>2, StepByStep
<1> DEFINE g == [k \in 0..n |-> h[1..k]]
<1>4. g \in [0..n -> A]
  BY <1>3
<1>5. g[0] = h[{}] /\ \A k \in 0..n : g[k] = h[1..k]
  BY <1>0
<1> HIDE DEF g
<1> QED BY <1>4, <1>5

HoldFold(h, t, l) ==
  h = [s \in SUBSET (DOMAIN l) |-> IF s = {} THEN t ELSE Sub(h[s \ {Max(s)}], l[Max(s)], HOLD)]

ReturnFold(h, t, l) ==
  h = [s \in SUBSET (DOMAIN l) |-> IF s = {} THEN t ELSE Sub(h[s \ {Max(s)}], HOLD, l[Max(s)])]

Holding(f, t, l) ==
  /\ f[0] = t /\ SafeHold(t, l) = f[Len(l)]
  /\ \A k \in 1..Len(l) : f[k] = Sub(f[k - 1], l[k], HOLD)

LEMMA HoldSteps ==
  ASSUME NEW S, NEW t \in Seq(S), NEW l \in Seq(S), HOLD \in S
  PROVE  \E f \in [0..Len(l) -> Seq(S)] :
           Holding(f, t, l)
<1> DEFINE n == Len(l)
           G == [q \in (1..n) \X Seq(S) |-> Sub(q[2], l[q[1]], HOLD)]
<1>1. n \in Nat /\ DOMAIN l = 1..n /\ \A i \in 1..n : l[i] \in S
  OBVIOUS
<1>2. \A i \in 1..n, u \in Seq(S) : Sub(u, l[i], HOLD) \in Seq(S)
  BY SubType
<1>3. G \in [(1..n) \X Seq(S) -> Seq(S)]
  BY <1>2
<1>4. \A i \in 1..n, u \in Seq(S) : G[<<i, u>>] = Sub(u, l[i], HOLD)
  OBVIOUS
<1> HIDE DEF n, G
<1>5. \E h : HoldFold(h, t, l)
  <2>1. PICK h \in [SUBSET (1..n) -> Seq(S)] : IsFold(h, G, t, n)
    BY <1>1, <1>3, FoldExists
  <2>2. ASSUME NEW s \in SUBSET (1..n)
        PROVE  h[s] = IF s = {} THEN t ELSE Sub(h[s \ {Max(s)}], l[Max(s)], HOLD)
    <3>1. h[s] = IF s = {} THEN t ELSE G[<<Max(s), h[s \ {Max(s)}]>>]
      BY <2>1 DEF IsFold
    <3>2. s # {} => Max(s) \in 1..n
      BY <1>1, MaxIn
    <3>3. h[s \ {Max(s)}] \in Seq(S)
      BY <2>1
    <3> QED BY <1>4, <3>1, <3>2, <3>3
  <2>3. h = [s \in SUBSET (1..n) |-> h[s]]
    BY <2>1
  <2>4. HoldFold(h, t, l)
    BY <1>1, <2>2, <2>3 DEF HoldFold
  <2> QED BY <2>4
<1> DEFINE h == CHOOSE h : HoldFold(h, t, l)
<1>6. SafeHold(t, l) = h[1..n]
  <2>1. SafeHold(t, l) = h[DOMAIN l]
    BY DEF SafeHold, FoldLeft, MapThenFoldSet, HoldFold
  <2> HIDE DEF h
  <2> QED BY <1>1, <2>1
<1>7. HoldFold(h, t, l)
  BY <1>5
<1> HIDE DEF h
<1>8. \A s \in SUBSET (1..n) : h[s] = IF s = {} THEN t ELSE Sub(h[s \ {Max(s)}], l[Max(s)], HOLD)
  BY <1>1, <1>7 DEF HoldFold
<1>9. h[{}] = t
  <2>1. {} \in SUBSET (1..n)
    OBVIOUS
  <2> QED BY <1>8, <2>1
<1>10. \A k \in 1..n : h[1..k] = Sub(h[1..(k - 1)], l[k], HOLD)
  BY <1>1, <1>8, UpToIs
<1>11. PICK f \in [0..n -> Seq(S)] : f[0] = h[{}] /\ \A k \in 0..n : f[k] = h[1..k]
  <2>1. h[{}] \in Seq(S) /\ \A k \in 1..n : h[1..(k - 1)] \in Seq(S) => h[1..k] \in Seq(S)
    BY <1>2, <1>9, <1>10
  <2>2. ASSUME NEW A, h[{}] \in A, \A k \in 1..n : h[1..(k - 1)] \in A => h[1..k] \in A
        PROVE  \E f \in [0..n -> A] : f[0] = h[{}] /\ \A k \in 0..n : f[k] = h[1..k]
    BY <1>1, <2>2, PrefixesStay
  <2> QED BY <2>1, <2>2
<1>12. \A k \in 1..n : f[k] = Sub(f[k - 1], l[k], HOLD)
  BY <1>1, <1>10, <1>11, UpToIs
<1>13. f[0] = t /\ SafeHold(t, l) = f[n]
  BY <1>1, <1>6, <1>9, <1>11
<1>14. Holding(f, t, l)
  BY <1>12, <1>13 DEF n, Holding
<1> QED BY <1>11, <1>14 DEF n

Returning(f, t, l) ==
  /\ f[0] = t /\ SafeReturn(t, l) = f[Len(l)]
  /\ \A k \in 1..Len(l) : f[k] = Sub(f[k - 1], HOLD, l[k])

LEMMA ReturnSteps ==
  ASSUME NEW S, NEW t \in Seq(S), NEW l \in Seq(S), HOLD \in S
  PROVE  \E f \in [0..Len(l) -> Seq(S)] :
           Returning(f, t, l)
<1> DEFINE n == Len(l)
           G == [q \in (1..n) \X Seq(S) |-> Sub(q[2], HOLD, l[q[1]])]
<1>1. n \in Nat /\ DOMAIN l = 1..n /\ \A i \in 1..n : l[i] \in S
  OBVIOUS
<1>2. \A i \in 1..n, u \in Seq(S) : Sub(u, HOLD, l[i]) \in Seq(S)
  BY SubType
<1>3. G \in [(1..n) \X Seq(S) -> Seq(S)]
  BY <1>2
<1>4. \A i \in 1..n, u \in Seq(S) : G[<<i, u>>] = Sub(u, HOLD, l[i])
  OBVIOUS
<1> HIDE DEF n, G
<1>5. \E h : ReturnFold(h, t, l)
  <2>1. PICK h \in [SUBSET (1..n) -> Seq(S)] : IsFold(h, G, t, n)
    BY <1>1, <1>3, FoldExists
  <2>2. ASSUME NEW s \in SUBSET (1..n)
        PROVE  h[s] = IF s = {} THEN t ELSE Sub(h[s \ {Max(s)}], HOLD, l[Max(s)])
    <3>1. h[s] = IF s = {} THEN t ELSE G[<<Max(s), h[s \ {Max(s)}]>>]
      BY <2>1 DEF IsFold
    <3>2. s # {} => Max(s) \in 1..n
      BY <1>1, MaxIn
    <3>3. h[s \ {Max(s)}] \in Seq(S)
      BY <2>1
    <3> QED BY <1>4, <3>1, <3>2, <3>3
  <2>3. h = [s \in SUBSET (1..n) |-> h[s]]
    BY <2>1
  <2>4. ReturnFold(h, t, l)
    BY <1>1, <2>2, <2>3 DEF ReturnFold
  <2> QED BY <2>4
<1> DEFINE h == CHOOSE h : ReturnFold(h, t, l)
<1>6. SafeReturn(t, l) = h[1..n]
  <2>1. SafeReturn(t, l) = h[DOMAIN l]
    BY DEF SafeReturn, FoldLeft, MapThenFoldSet, ReturnFold
  <2> HIDE DEF h
  <2> QED BY <1>1, <2>1
<1>7. ReturnFold(h, t, l)
  BY <1>5
<1> HIDE DEF h
<1>8. \A s \in SUBSET (1..n) : h[s] = IF s = {} THEN t ELSE Sub(h[s \ {Max(s)}], HOLD, l[Max(s)])
  BY <1>1, <1>7 DEF ReturnFold
<1>9. h[{}] = t
  <2>1. {} \in SUBSET (1..n)
    OBVIOUS
  <2> QED BY <1>8, <2>1
<1>10. \A k \in 1..n : h[1..k] = Sub(h[1..(k - 1)], HOLD, l[k])
  BY <1>1, <1>8, UpToIs
<1>11. PICK f \in [0..n -> Seq(S)] : f[0] = h[{}] /\ \A k \in 0..n : f[k] = h[1..k]
  <2>1. h[{}] \in Seq(S) /\ \A k \in 1..n : h[1..(k - 1)] \in Seq(S) => h[1..k] \in Seq(S)
    BY <1>2, <1>9, <1>10
  <2>2. ASSUME NEW A, h[{}] \in A, \A k \in 1..n : h[1..(k - 1)] \in A => h[1..k] \in A
        PROVE  \E f \in [0..n -> A] : f[0] = h[{}] /\ \A k \in 0..n : f[k] = h[1..k]
    BY <1>1, <2>2, PrefixesStay
  <2> QED BY <2>1, <2>2
<1>12. \A k \in 1..n : f[k] = Sub(f[k - 1], HOLD, l[k])
  BY <1>1, <1>10, <1>11, UpToIs
<1>13. f[0] = t /\ SafeReturn(t, l) = f[n]
  BY <1>1, <1>6, <1>9, <1>11
<1>14. Returning(f, t, l)
  BY <1>12, <1>13 DEF n, Returning
<1> QED BY <1>11, <1>14 DEF n
-----------------------------------------------------------------------------
(* What is held is returned *)

LEMMA TurnOf ==
  ASSUME NEW S, NEW t \in Seq(S), NEW c, Counts(c, t), NEW l, Listed(l, c, t),
         NEW k \in Nat, k < Len(l)
  PROVE  \E p \in 1..Len(t) :
           /\ t[p] \in Exceptions /\ c[p] = k + 1 /\ l[k + 1] = t[p]
           /\ \A i \in 1..Len(t) : t[i] \in Exceptions =>
                /\ c[i] \in Nat \ {0}
                /\ i < p => c[i] <= k
                /\ i > p => c[i] > k + 1
<1>1. Len(l) = c[Len(t)] /\ Len(t) \in Nat
  BY DEF Listed
<1>2. c[Len(t)] \in Nat /\ c \in [0..Len(t) -> Nat]
      /\ \A i \in 1..Len(t) : c[i] = IF t[i] \in Exceptions THEN c[i - 1] + 1 ELSE c[i - 1]
  BY <1>1 DEF Counts
<1>3. k + 1 \in 1..c[Len(t)] /\ (k + 1) - 1 = k
  BY <1>1, <1>2
<1>4. PICK p \in 1..Len(t) : t[p] \in Exceptions /\ c[p] = k + 1 /\ c[p - 1] = (k + 1) - 1
  BY <1>3, CountsMeet
<1>5. l[k + 1] = t[p]
  BY <1>4 DEF Listed
<1>6. ASSUME NEW i \in 1..Len(t), t[i] \in Exceptions
      PROVE  /\ c[i] \in Nat \ {0}
             /\ i < p => c[i] <= k
             /\ i > p => c[i] > k + 1
  <2>1. i - 1 \in 0..Len(t) /\ p - 1 \in 0..Len(t) /\ p \in 0..Len(t) /\ i \in 0..Len(t)
    BY <1>1
  <2>2. c[i] = c[i - 1] + 1 /\ c[i - 1] \in Nat
    BY <1>2, <1>6, <2>1
  <2>3. i < p => c[i] <= c[p - 1]
    <3>1. i < p => i <= p - 1
      BY <1>1
    <3> QED BY <2>1, <3>1, CountsGrow
  <2>4. i > p => c[p] <= c[i - 1]
    <3>1. i > p => p <= i - 1
      BY <1>1
    <3> QED BY <2>1, <3>1, CountsGrow
  <2> QED BY <1>3, <1>4, <2>2, <2>3, <2>4
<1> QED BY <1>4, <1>5, <1>6

\* The same as Changed, place by place
Changes(u, w, q, y) ==
  Len(w) = Len(u) /\ \A i \in 1..Len(u) : w[i] = IF i = q THEN y ELSE u[i]

LEMMA SubFirst ==
  ASSUME NEW S, NEW u \in Seq(S), NEW w \in Seq(S), NEW x, NEW y \in S, NEW q,
         First(u, q, x), Changes(u, w, q, y)
  PROVE  Sub(u, x, y) = w
<1>0. Len(w) = Len(u) /\ \A i \in 1..Len(u) : w[i] = IF i = q THEN y ELSE u[i]
  BY DEF Changes
<1>1. q \in 1..Len(u) /\ u[q] = x /\ \A j \in 1..(q - 1) : u[j] # x
  BY DEF First
<1>2. Sub(u, x, y) = [u EXCEPT ![q] = y]
  BY <1>1, SubIs
<1>3. w = [u EXCEPT ![q] = y]
  BY <1>0, <1>1, SplicedIs
<1> QED BY <1>2, <1>3

\* The text when the first k of them are held
HeldText(t, c, k) ==
  [i \in 1..Len(t) |-> IF t[i] \in Exceptions /\ c[i] <= k THEN HOLD ELSE t[i]]

LEMMA HoldAll ==
  ASSUME NEW S, NEW t \in Seq(S),
         NEW c, Counts(c, t), NEW l \in Seq(S), Listed(l, c, t), HOLD \in S, HOLD \notin Exceptions
  PROVE  SafeHold(t, l) = [i \in 1..Len(t) |-> IF t[i] \in Exceptions THEN HOLD ELSE t[i]]
<1> DEFINE n == Len(l)
<1>1. n \in Nat /\ Len(t) \in Nat /\ \A i \in 1..Len(t) : t[i] \in S
  OBVIOUS
<1>0. \E f \in [0..n -> Seq(S)] : Holding(f, t, l)
  BY HoldSteps
<1>2. PICK f \in [0..n -> Seq(S)] :
        /\ f[0] = t /\ SafeHold(t, l) = f[n]
        /\ \A k \in 1..n : f[k] = Sub(f[k - 1], l[k], HOLD)
  BY <1>0 DEF Holding
<1>3. \A i \in 1..Len(t) : t[i] \in Exceptions => c[i] \in 1..n
  BY DEF Listed
<1> HIDE DEF n
<1> DEFINE P == {k \in 0..n : f[k] = HeldText(t, c, k)}
<1>4. 0 \in P
  <2>1. \A i \in 1..Len(t) : ~ (t[i] \in Exceptions /\ c[i] <= 0)
    BY <1>1, <1>3
  <2>2. t = [i \in 1..Len(t) |-> t[i]]
    OBVIOUS
  <2>3. HeldText(t, c, 0) = t
    BY <2>1, <2>2 DEF HeldText
  <2> QED BY <1>1, <1>2, <2>3
<1>5. ASSUME NEW k \in 0..n, k < n, k \in P PROVE k + 1 \in P
  <2> DEFINE u == HeldText(t, c, k)
             v == HeldText(t, c, k + 1)
  <2>1. k + 1 \in 1..n /\ k + 1 \in 0..n /\ (k + 1) - 1 = k /\ k \in Nat
    BY <1>1, <1>5
  <2>2. f[k] = u /\ f[k + 1] = Sub(u, l[k + 1], HOLD)
    BY <1>2, <1>5, <2>1
  <2>3. PICK p \in 1..Len(t) :
          /\ t[p] \in Exceptions /\ c[p] = k + 1 /\ l[k + 1] = t[p]
          /\ \A i \in 1..Len(t) : t[i] \in Exceptions =>
               /\ c[i] \in Nat \ {0}
               /\ i < p => c[i] <= k
               /\ i > p => c[i] > k + 1
    BY <1>5, <2>1, TurnOf DEF n
  <2>4. u \in Seq(S) /\ Len(u) = Len(t)
        /\ \A i \in 1..Len(t) : u[i] = IF t[i] \in Exceptions /\ c[i] <= k THEN HOLD ELSE t[i]
    BY <1>1 DEF HeldText
  <2>5. v \in Seq(S) /\ Len(v) = Len(t)
        /\ \A i \in 1..Len(t) : v[i] = IF t[i] \in Exceptions /\ c[i] <= k + 1 THEN HOLD ELSE t[i]
    BY <1>1 DEF HeldText
  <2> HIDE DEF u, v
  <2>6. u[p] = t[p] /\ p \in 1..Len(u)
    BY <2>1, <2>3, <2>4
  <2>7. ASSUME NEW j \in 1..(p - 1) PROVE u[j] # t[p]
    <3>1. j \in 1..Len(t) /\ j < p
      BY <1>1
    <3> QED BY <2>3, <2>4, <3>1
  <2>8. First(u, p, t[p])
    BY <2>6, <2>7 DEF First
  <2>9. ASSUME NEW i \in 1..Len(u) PROVE v[i] = IF i = p THEN HOLD ELSE u[i]
    <3>1. i \in 1..Len(t) /\ (i = p \/ i < p \/ i > p)
      BY <1>1, <2>4
    <3>2. CASE i = p
      BY <2>1, <2>3, <2>5, <3>1, <3>2
    <3>3. CASE i < p
      <4>1. t[i] \in Exceptions => c[i] <= k /\ c[i] <= k + 1
        BY <2>1, <2>3, <3>1, <3>3
      <4> QED BY <2>4, <2>5, <3>1, <3>3, <4>1
    <3>4. CASE i > p
      <4>1. t[i] \in Exceptions => ~ (c[i] <= k) /\ ~ (c[i] <= k + 1)
        BY <2>1, <2>3, <3>1, <3>4
      <4> QED BY <2>4, <2>5, <3>1, <3>4, <4>1
    <3> QED BY <3>1, <3>2, <3>3, <3>4
  <2>10. Sub(u, t[p], HOLD) = v
    <3>1. u \in Seq(S) /\ v \in Seq(S) /\ Len(v) = Len(u)
      BY <2>4, <2>5
    <3>2. Changes(u, v, p, HOLD)
      BY <2>9, <3>1 DEF Changes
    <3> QED BY <2>8, <3>1, <3>2, SubFirst
  <2>11. f[k + 1] = v
    BY <2>2, <2>3, <2>10
  <2> QED BY <2>1, <2>11 DEF v
<1>6. f[n] = HeldText(t, c, n)
  <2>1. \A k \in 0..n : k \in P
    <3> HIDE DEF P
    <3> QED BY <1>1, <1>4, <1>5, StepByStep
  <2>2. n \in 0..n
    BY <1>1
  <2> QED BY <2>1, <2>2
<1>7. HeldText(t, c, n) = [i \in 1..Len(t) |-> IF t[i] \in Exceptions THEN HOLD ELSE t[i]]
  <2>1. \A i \in 1..Len(t) : t[i] \in Exceptions => c[i] <= n
    BY <1>1, <1>3
  <2> QED BY <2>1 DEF HeldText
<1> QED BY <1>2, <1>6, <1>7

\* The pieces of a text when k exceptions are back in it; r is what the rule
\* has made of the others
Pieces(t, c, r, k) ==
  [i \in 1..Len(t) |-> IF t[i] \in Exceptions THEN <<IF c[i] <= k THEN t[i] ELSE HOLD>> ELSE r[i]]

LEMMA FlatType ==
  ASSUME NEW S, NEW a \in Seq(Seq(S))
  PROVE  FlattenSeq(a) \in Seq(S)
<1>1. PICK f \in [0..Len(a) -> Seq(S)] : Flats(f, a)
  BY FlatsExist
<1>2. Len(a) \in 0..Len(a)
  OBVIOUS
<1> QED BY <1>1, <1>2 DEF Flats

\* Pieces, and what is put at the end
Ended(a, e) == FlattenSeq(a) \o e

\* b is a with a piece y for the first piece that has an x
Turned(a, b, p, x, y) ==
  /\ a[p] = <<x>> /\ \A j \in 1..(p - 1) : \A i \in 1..Len(a[j]) : a[j][i] # x
  /\ Len(b) = Len(a) /\ b[p] = <<y>> /\ \A j \in 1..Len(a) : j # p => b[j] = a[j]

LEMMA TurnedSub ==
  ASSUME NEW S, NEW a \in Seq(Seq(S)), NEW b \in Seq(Seq(S)), NEW e \in Seq(S),
         NEW p \in 1..Len(a), NEW x \in S, NEW y \in S, Turned(a, b, p, x, y)
  PROVE  Sub(Ended(a, e), x, y) = Ended(b, e)
BY FlatSub DEF Turned, Ended

\* What the rule has put in has no placeholder
NoneHeld(r, t) == \A i \in 1..Len(t) : \A j \in 1..Len(r[i]) : r[i][j] # HOLD

LEMMA ReturnAll ==
  ASSUME NEW S, NEW t \in Seq(S),
         NEW c, NEW l \in Seq(S), NEW r \in [1..Len(t) -> Seq(S)], NEW e \in Seq(S),
         Counts(c, t), Listed(l, c, t), HOLD \in S, HOLD \notin Exceptions, NoneHeld(r, t)
  PROVE  SafeReturn(Ended(Pieces(t, c, r, 0), e), l) = Ended(Pieces(t, c, r, Len(l)), e)
<1> DEFINE n == Len(l)
           A(k) == Pieces(t, c, r, k)
           F(k) == Ended(A(k), e)
<1>1. n \in Nat /\ Len(t) \in Nat /\ \A i \in 1..Len(t) : t[i] \in S
  OBVIOUS
<1>3. \A i \in 1..Len(t) : r[i] \in Seq(S)
  OBVIOUS
<1>5. ASSUME NEW k PROVE A(k) \in Seq(Seq(S)) /\ Len(A(k)) = Len(t)
  <2>1. ASSUME NEW x \in S PROVE <<x>> \in Seq(S)
    OBVIOUS
  <2>2. ASSUME NEW i \in 1..Len(t)
        PROVE  (IF t[i] \in Exceptions THEN <<IF c[i] <= k THEN t[i] ELSE HOLD>> ELSE r[i]) \in Seq(S)
    <3>1. t[i] \in S /\ HOLD \in S
      BY <1>1
    <3>2. (IF c[i] <= k THEN t[i] ELSE HOLD) \in S
      BY <3>1
    <3> QED BY <1>3, <2>1, <3>2
  <2> QED BY <1>1, <2>2 DEF Pieces
<1>6. ASSUME NEW k PROVE F(k) \in Seq(S)
  <2>1. FlattenSeq(A(k)) \in Seq(S)
    BY <1>5, FlatType
  <2> QED BY <2>1, CatIs DEF Ended
<1>7. \A k : \A i \in 1..Len(t) :
        A(k)[i] = IF t[i] \in Exceptions THEN <<IF c[i] <= k THEN t[i] ELSE HOLD>> ELSE r[i]
  BY DEF Pieces
<1>8. ASSUME NEW k \in Nat, k < n PROVE Sub(F(k), HOLD, l[k + 1]) = F(k + 1)
  <2> DEFINE a == A(k)
             b == A(k + 1)
  <2>1. PICK p \in 1..Len(t) :
          /\ t[p] \in Exceptions /\ c[p] = k + 1 /\ l[k + 1] = t[p]
          /\ \A i \in 1..Len(t) : t[i] \in Exceptions =>
               /\ c[i] \in Nat \ {0}
               /\ i < p => c[i] <= k
               /\ i > p => c[i] > k + 1
    BY <1>8, TurnOf
  <2>2. /\ a \in Seq(Seq(S)) /\ b \in Seq(Seq(S)) /\ Len(a) = Len(t) /\ Len(b) = Len(a)
        /\ \A i \in 1..Len(t) :
             /\ a[i] = IF t[i] \in Exceptions THEN <<IF c[i] <= k THEN t[i] ELSE HOLD>> ELSE r[i]
             /\ b[i] = IF t[i] \in Exceptions THEN <<IF c[i] <= k + 1 THEN t[i] ELSE HOLD>> ELSE r[i]
    BY <1>5, <1>7
  <2>3. Sub(Ended(a, e), HOLD, t[p]) = Ended(b, e)
    <3> HIDE DEF a, b
    <3>1. a[p] = <<HOLD>> /\ b[p] = <<t[p]>> /\ p \in 1..Len(a)
      <4>1. ~ (c[p] <= k) /\ c[p] <= k + 1
        BY <1>8, <2>1
      <4> QED BY <2>1, <2>2, <4>1
    <3>2. ASSUME NEW j \in 1..(p - 1) PROVE \A i \in 1..Len(a[j]) : a[j][i] # HOLD
      <4>1. j \in 1..Len(t) /\ j < p
        BY <1>1
      <4>2. CASE t[j] \in Exceptions
        <5>1. a[j] = <<t[j]>>
          BY <2>1, <2>2, <4>1, <4>2
        <5> QED BY <4>2, <5>1
      <4>3. CASE t[j] \notin Exceptions
        <5>1. a[j] = r[j]
          BY <2>2, <4>1, <4>3
        <5> QED BY <4>1, <5>1 DEF NoneHeld
      <4> QED BY <4>2, <4>3
    <3>3. ASSUME NEW j \in 1..Len(a), j # p PROVE b[j] = a[j]
      <4>1. j \in 1..Len(t) /\ (j < p \/ j > p)
        BY <1>1, <2>2, <3>3
      <4>2. t[j] \in Exceptions => (c[j] <= k <=> c[j] <= k + 1)
        BY <1>8, <2>1, <4>1
      <4> QED BY <2>2, <4>1, <4>2
    <3>4. t[p] \in S /\ HOLD \in S /\ e \in Seq(S)
      BY <1>1
    <3>5. a \in Seq(Seq(S)) /\ b \in Seq(Seq(S)) /\ Len(b) = Len(a)
      BY <2>2
    <3>6. Turned(a, b, p, HOLD, t[p])
      BY <3>1, <3>2, <3>3, <3>5 DEF Turned
    <3>7. ASSUME NEW x \in S, NEW y \in S, Turned(a, b, p, x, y)
          PROVE  Sub(Ended(a, e), x, y) = Ended(b, e)
      BY <3>1, <3>4, <3>5, <3>7, TurnedSub
    <3> QED BY <3>4, <3>6, <3>7
  <2> QED BY <2>1, <2>3
<1>9. PICK f \in [0..n -> Seq(S)] :
        /\ f[0] = F(0) /\ SafeReturn(F(0), l) = f[n]
        /\ \A k \in 1..n : f[k] = Sub(f[k - 1], HOLD, l[k])
  <2> HIDE DEF F
  <2>1. F(0) \in Seq(S) /\ HOLD \in S
    BY <1>6
  <2>2. \E f \in [0..Len(l) -> Seq(S)] : Returning(f, F(0), l)
    BY <2>1, ReturnSteps
  <2> QED BY <2>2 DEF Returning
<1> DEFINE P == {k \in 0..n : f[k] = F(k)}
<1>10. \A k \in 0..n : k \in P
  <2> HIDE DEF F, n
  <2>1. 0 \in P
    BY <1>1, <1>9
  <2>2. ASSUME NEW k \in 0..n, k < n, k \in P PROVE k + 1 \in P
    <3>1. k + 1 \in 1..n /\ k + 1 \in 0..n /\ (k + 1) - 1 = k /\ k \in Nat
      BY <1>1, <2>2
    <3>2. f[k + 1] = Sub(F(k), HOLD, l[k + 1])
      BY <1>9, <2>2, <3>1
    <3> QED BY <1>8, <2>2, <3>1, <3>2
  <2> HIDE DEF P
  <2> QED BY <1>1, <2>1, <2>2, StepByStep
<1>11. f[n] = F(n)
  <2> HIDE DEF F, n
  <2>1. n \in 0..n
    BY <1>1
  <2> QED BY <1>10, <2>1
<1>12. SafeReturn(F(0), l) = F(n)
  <2> HIDE DEF F, n
  <2> QED BY <1>9, <1>11
<1> QED BY <1>12
-----------------------------------------------------------------------------
(* One rule *)

\* What a rule makes of each token
Made(t, matches, quirk) == [i \in 1..Len(t) |-> IF t[i] \in matches THEN quirk ELSE <<t[i]>>]

EndOf(regex, quirk) == IF regex.atEnd THEN quirk ELSE <<>>

LEMMA ReplacedIs ==
  ASSUME NEW S, NEW t \in Seq(S), NEW quirk \in Seq(S), NEW regex, NEW matches
  PROVE  /\ Replaced(t, regex, quirk, matches) = Ended(Made(t, matches, quirk), EndOf(regex, quirk))
         /\ Made(t, matches, quirk) \in Seq(Seq(S)) /\ EndOf(regex, quirk) \in Seq(S)
         /\ Replaced(t, regex, quirk, matches) \in Seq(S)
<1> DEFINE a == Made(t, matches, quirk)
           e == EndOf(regex, quirk)
<1>1. Replaced(t, regex, quirk, matches) = Ended(a, e)
  <2>1. DOMAIN t = 1..Len(t)
    OBVIOUS
  <2>2. a = [i \in DOMAIN t |-> IF t[i] \in matches THEN quirk ELSE <<t[i]>>]
    BY <2>1 DEF Made
  <2> HIDE DEF a
  <2> QED BY <2>2 DEF Replaced, Ended, EndOf
<1>2. a \in Seq(Seq(S))
  <2>1. \A i \in 1..Len(t) : <<t[i]>> \in Seq(S)
    OBVIOUS
  <2> QED BY <2>1 DEF Made
<1>3. e \in Seq(S)
  BY DEF EndOf
<1> HIDE DEF a, e
<1>4. Ended(a, e) \in Seq(S)
  <2>1. FlattenSeq(a) \in Seq(S)
    BY <1>2, FlatType
  <2> QED BY <1>3, <2>1, CatIs DEF Ended
<1> QED BY <1>1, <1>2, <1>3, <1>4 DEF a, e

\* The text with all exceptions held
Gaps(t) == [i \in 1..Len(t) |-> IF t[i] \in Exceptions THEN HOLD ELSE t[i]]

\* A rule replaces what it matches but exceptions
LEMMA RuleIs ==
  ASSUME NEW S, NEW t \in Seq(S), NEW quirk \in Seq(S), NEW regex,
         HOLD \notin S, HOLD \notin Exceptions, HOLD \notin regex.matches
  PROVE  /\ Rule(t, regex, quirk) = Replaced(t, regex, quirk, regex.matches \ Exceptions)
         /\ Rule(t, regex, quirk) \in Seq(S)
<1> DEFINE T == S \cup {HOLD}
           l == Scan(t)
           n == Len(l)
           m == regex.matches
           h == Gaps(t)
           r == Made(t, m, quirk)
           e == EndOf(regex, quirk)
<1>1. Len(t) \in Nat /\ t \in Seq(T) /\ quirk \in Seq(T) /\ \A i \in 1..Len(t) : t[i] \in S
  OBVIOUS
<1>2. PICK c : Counts(c, t) /\ Listed(l, c, t)
  BY ScanLists
<1>3. l \in Seq(T)
  <2>1. l \in Seq(S \cap Exceptions)
    BY ScanLists
  <2> QED BY <2>1
<1> HIDE DEF l
<1>4. SafeHold(t, l) = h
  <2>1. HOLD \in T
    OBVIOUS
  <2> HIDE DEF T
  <2> QED BY <1>1, <1>2, <1>3, <2>1, HoldAll DEF Gaps
<1>5. h \in Seq(T) /\ Len(h) = Len(t)
      /\ \A i \in 1..Len(t) : h[i] = IF t[i] \in Exceptions THEN HOLD ELSE t[i]
  BY <1>1 DEF Gaps
<1> HIDE DEF h
<1>6. \A i \in 1..Len(t) : t[i] \in Exceptions => c[i] \in 1..n
  BY <1>2 DEF Listed
<1>7. Made(h, m, quirk) = Pieces(t, c, r, 0)
  <2>1. ASSUME NEW i \in 1..Len(t)
        PROVE  (IF h[i] \in m THEN quirk ELSE <<h[i]>>)
               = (IF t[i] \in Exceptions THEN <<IF c[i] <= 0 THEN t[i] ELSE HOLD>> ELSE r[i])
    <3>1. CASE t[i] \in Exceptions
      <4>1. h[i] = HOLD /\ ~ (c[i] <= 0)
        BY <1>5, <1>6, <3>1
      <4> QED BY <3>1, <4>1
    <3>2. CASE t[i] \notin Exceptions
      <4>1. h[i] = t[i] /\ r[i] = IF t[i] \in m THEN quirk ELSE <<t[i]>>
        BY <1>5, <3>2 DEF Made
      <4> QED BY <3>2, <4>1
    <3> QED BY <3>1, <3>2
  <2> HIDE DEF r
  <2> QED BY <1>5, <2>1 DEF Made, Pieces
<1>8. Gsub(h, regex, quirk) = Ended(Pieces(t, c, r, 0), e)
  <2>1. Replaced(h, regex, quirk, m) = Ended(Made(h, m, quirk), e)
    <3> HIDE DEF T
    <3> QED BY <1>1, <1>5, ReplacedIs
  <2> QED BY <1>7, <2>1 DEF Gsub
<1>9. SafeReturn(Ended(Pieces(t, c, r, 0), e), l) = Ended(Pieces(t, c, r, n), e)
  <2>1. HOLD \in T /\ e \in Seq(T)
    BY <1>1 DEF EndOf
  <2>2. r \in [1..Len(t) -> Seq(T)]
    <3>1. \A i \in 1..Len(t) : <<t[i]>> \in Seq(T)
      BY <1>1
    <3> HIDE DEF T
    <3> QED BY <1>1, <3>1 DEF Made
  <2>3. ASSUME NEW i \in 1..Len(t) PROVE \A j \in 1..Len(r[i]) : r[i][j] # HOLD
    <3>1. r[i] = quirk \/ r[i] = <<t[i]>>
      BY DEF Made
    <3>2. \A j \in 1..Len(quirk) : quirk[j] # HOLD
      OBVIOUS
    <3>3. \A j \in 1..Len(<<t[i]>>) : <<t[i]>>[j] # HOLD
      BY <1>1
    <3> QED BY <3>1, <3>2, <3>3
  <2>4. NoneHeld(r, t)
    <3> HIDE DEF r
    <3> QED BY <2>3 DEF NoneHeld
  <2> HIDE DEF T, r, e
  <2> QED BY <1>1, <1>2, <1>3, <2>1, <2>2, <2>4, ReturnAll
<1>10. Pieces(t, c, r, n) = Made(t, m \ Exceptions, quirk)
  <2>1. ASSUME NEW i \in 1..Len(t)
        PROVE  (IF t[i] \in Exceptions THEN <<IF c[i] <= n THEN t[i] ELSE HOLD>> ELSE r[i])
               = (IF t[i] \in m \ Exceptions THEN quirk ELSE <<t[i]>>)
    <3>1. t[i] \in Exceptions => c[i] <= n
      <4> HIDE DEF n
      <4>1. n \in Nat
        BY <1>3 DEF n
      <4> QED BY <1>6, <4>1
    <3>2. r[i] = IF t[i] \in m THEN quirk ELSE <<t[i]>>
      BY DEF Made
    <3> QED BY <3>1, <3>2
  <2> HIDE DEF r, n
  <2> QED BY <2>1 DEF Made, Pieces
<1>11. Replaced(t, regex, quirk, m \ Exceptions) = Ended(Made(t, m \ Exceptions, quirk), e)
       /\ Replaced(t, regex, quirk, m \ Exceptions) \in Seq(S)
  BY ReplacedIs
<1>12. Rule(t, regex, quirk) = SafeReturn(Gsub(SafeHold(t, l), regex, quirk), l)
  BY DEF Rule, l
<1> HIDE DEF r, e, n
<1> QED BY <1>4, <1>8, <1>9, <1>10, <1>11, <1>12
-----------------------------------------------------------------------------
(* One rule after the other *)

Turns(author) == [i \in DOMAIN author.quirks |-> i]

RuleAt(author, t, i) == Rule(t, author.regexes[i], author.quirks[i])

MeantAt(author, t, i) ==
  Replaced(t, author.regexes[i], author.quirks[i], author.regexes[i].matches \ Exceptions)

RuleFold(h, author, t) ==
  h = [s \in SUBSET (DOMAIN Turns(author)) |->
         IF s = {} THEN t ELSE RuleAt(author, h[s \ {Max(s)}], Turns(author)[Max(s)])]

RuleTurns(f, author, t) ==
  /\ f[0] = t /\ QuirkifyText(author, t) = f[Len(author.quirks)]
  /\ \A k \in 1..Len(author.quirks) : f[k] = RuleAt(author, f[k - 1], k)

\* What a text has become after each rule
LEMMA RuleSteps ==
  ASSUME NEW S, NEW t \in Seq(S), NEW author, NEW n \in Nat,
         Len(author.quirks) = n, Len(author.regexes) = n, DOMAIN author.quirks = 1..n,
         \A i \in 1..n, u \in Seq(S) : RuleAt(author, u, i) \in Seq(S)
  PROVE  \E f \in [0..n -> Seq(S)] : RuleTurns(f, author, t)
<1> DEFINE G == [q \in (1..n) \X Seq(S) |-> RuleAt(author, q[2], q[1])]
           l == Turns(author)
<1>1. DOMAIN l = 1..n /\ \A i \in 1..n : l[i] = i
  BY DEF Turns
<1>3. G \in [(1..n) \X Seq(S) -> Seq(S)]
  OBVIOUS
<1>4. \A i \in 1..n, u \in Seq(S) : G[<<i, u>>] = RuleAt(author, u, i)
  OBVIOUS
<1> HIDE DEF G, l
<1>5. \E h : RuleFold(h, author, t)
  <2>1. PICK h \in [SUBSET (1..n) -> Seq(S)] : IsFold(h, G, t, n)
    BY <1>3, FoldExists
  <2>2. ASSUME NEW s \in SUBSET (1..n)
        PROVE  h[s] = IF s = {} THEN t ELSE RuleAt(author, h[s \ {Max(s)}], l[Max(s)])
    <3>1. h[s] = IF s = {} THEN t ELSE G[<<Max(s), h[s \ {Max(s)}]>>]
      BY <2>1 DEF IsFold
    <3>2. s # {} => Max(s) \in 1..n
      BY MaxIn
    <3>3. h[s \ {Max(s)}] \in Seq(S)
      BY <2>1
    <3> QED BY <1>1, <1>4, <3>1, <3>2, <3>3
  <2>3. h = [s \in SUBSET (1..n) |-> h[s]]
    BY <2>1
  <2>4. RuleFold(h, author, t)
    BY <1>1, <2>2, <2>3 DEF RuleFold, l
  <2> QED BY <2>4
<1> DEFINE h == CHOOSE h : RuleFold(h, author, t)
<1>6. QuirkifyText(author, t) = h[1..n]
  <2>1. QuirkifyText(author, t) = h[DOMAIN l]
    BY DEF QuirkifyText, RuleAt, FoldLeftDomain, FoldLeft, MapThenFoldSet, RuleFold, Turns, l
  <2> HIDE DEF h
  <2> QED BY <1>1, <2>1
<1>7. RuleFold(h, author, t)
  BY <1>5
<1> HIDE DEF h
<1>8. \A s \in SUBSET (1..n) : h[s] = IF s = {} THEN t ELSE RuleAt(author, h[s \ {Max(s)}], l[Max(s)])
  BY <1>1, <1>7 DEF RuleFold, l
<1>9. h[{}] = t
  <2>1. {} \in SUBSET (1..n)
    OBVIOUS
  <2> QED BY <1>8, <2>1
<1>10. ASSUME NEW k \in 1..n PROVE h[1..k] = RuleAt(author, h[1..(k - 1)], k)
  <2>1. 1..k \in SUBSET (1..n) /\ 1..k # {} /\ Max(1..k) = k /\ (1..k) \ {k} = 1..(k - 1)
    BY UpToIs
  <2>2. h[1..k] = RuleAt(author, h[(1..k) \ {Max(1..k)}], l[Max(1..k)])
    BY <1>8, <2>1
  <2> QED BY <1>1, <2>1, <2>2
<1>11. PICK f \in [0..n -> Seq(S)] : f[0] = h[{}] /\ \A k \in 0..n : f[k] = h[1..k]
  <2>1. h[{}] \in Seq(S) /\ \A k \in 1..n : h[1..(k - 1)] \in Seq(S) => h[1..k] \in Seq(S)
    BY <1>9, <1>10
  <2>2. ASSUME NEW A, h[{}] \in A, \A k \in 1..n : h[1..(k - 1)] \in A => h[1..k] \in A
        PROVE  \E f \in [0..n -> A] : f[0] = h[{}] /\ \A k \in 0..n : f[k] = h[1..k]
    BY <2>2, PrefixesStay
  <2> QED BY <2>1, <2>2
<1>12. \A k \in 1..n : f[k] = RuleAt(author, f[k - 1], k)
  BY <1>10, <1>11, UpToIs
<1>13. f[0] = t /\ QuirkifyText(author, t) = f[n]
  <2>1. n \in 0..n
    OBVIOUS
  <2>2. f[n] = h[1..n]
    BY <1>11, <2>1
  <2> QED BY <1>6, <1>9, <1>11, <2>2
<1>14. RuleTurns(f, author, t)
  BY <1>12, <1>13 DEF RuleTurns
<1> QED BY <1>11, <1>14

MeantFold(h, author, t) ==
  h = [s \in SUBSET (DOMAIN Turns(author)) |->
         IF s = {} THEN t ELSE MeantAt(author, h[s \ {Max(s)}], Turns(author)[Max(s)])]

MeantTurns(f, author, t) ==
  /\ f[0] = t /\ Meant(author, t) = f[Len(author.quirks)]
  /\ \A k \in 1..Len(author.quirks) : f[k] = MeantAt(author, f[k - 1], k)

\* What it is meant to become
LEMMA MeantSteps ==
  ASSUME NEW S, NEW t \in Seq(S), NEW author, NEW n \in Nat,
         Len(author.quirks) = n, Len(author.regexes) = n, DOMAIN author.quirks = 1..n,
         \A i \in 1..n, u \in Seq(S) : MeantAt(author, u, i) \in Seq(S)
  PROVE  \E f \in [0..n -> Seq(S)] : MeantTurns(f, author, t)
<1> DEFINE G == [q \in (1..n) \X Seq(S) |-> MeantAt(author, q[2], q[1])]
           l == Turns(author)
<1>1. DOMAIN l = 1..n /\ \A i \in 1..n : l[i] = i
  BY DEF Turns
<1>3. G \in [(1..n) \X Seq(S) -> Seq(S)]
  OBVIOUS
<1>4. \A i \in 1..n, u \in Seq(S) : G[<<i, u>>] = MeantAt(author, u, i)
  OBVIOUS
<1> HIDE DEF G, l
<1>5. \E h : MeantFold(h, author, t)
  <2>1. PICK h \in [SUBSET (1..n) -> Seq(S)] : IsFold(h, G, t, n)
    BY <1>3, FoldExists
  <2>2. ASSUME NEW s \in SUBSET (1..n)
        PROVE  h[s] = IF s = {} THEN t ELSE MeantAt(author, h[s \ {Max(s)}], l[Max(s)])
    <3>1. h[s] = IF s = {} THEN t ELSE G[<<Max(s), h[s \ {Max(s)}]>>]
      BY <2>1 DEF IsFold
    <3>2. s # {} => Max(s) \in 1..n
      BY MaxIn
    <3>3. h[s \ {Max(s)}] \in Seq(S)
      BY <2>1
    <3> QED BY <1>1, <1>4, <3>1, <3>2, <3>3
  <2>3. h = [s \in SUBSET (1..n) |-> h[s]]
    BY <2>1
  <2>4. MeantFold(h, author, t)
    BY <1>1, <2>2, <2>3 DEF MeantFold, l
  <2> QED BY <2>4
<1> DEFINE h == CHOOSE h : MeantFold(h, author, t)
<1>6. Meant(author, t) = h[1..n]
  <2>1. Meant(author, t) = h[DOMAIN l]
    BY DEF Meant, MeantAt, FoldLeftDomain, FoldLeft, MapThenFoldSet, MeantFold, Turns, l
  <2> HIDE DEF h
  <2> QED BY <1>1, <2>1
<1>7. MeantFold(h, author, t)
  BY <1>5
<1> HIDE DEF h
<1>8. \A s \in SUBSET (1..n) : h[s] = IF s = {} THEN t ELSE MeantAt(author, h[s \ {Max(s)}], l[Max(s)])
  BY <1>1, <1>7 DEF MeantFold, l
<1>9. h[{}] = t
  <2>1. {} \in SUBSET (1..n)
    OBVIOUS
  <2> QED BY <1>8, <2>1
<1>10. ASSUME NEW k \in 1..n PROVE h[1..k] = MeantAt(author, h[1..(k - 1)], k)
  <2>1. 1..k \in SUBSET (1..n) /\ 1..k # {} /\ Max(1..k) = k /\ (1..k) \ {k} = 1..(k - 1)
    BY UpToIs
  <2>2. h[1..k] = MeantAt(author, h[(1..k) \ {Max(1..k)}], l[Max(1..k)])
    BY <1>8, <2>1
  <2> QED BY <1>1, <2>1, <2>2
<1>11. PICK f \in [0..n -> Seq(S)] : f[0] = h[{}] /\ \A k \in 0..n : f[k] = h[1..k]
  <2>1. h[{}] \in Seq(S) /\ \A k \in 1..n : h[1..(k - 1)] \in Seq(S) => h[1..k] \in Seq(S)
    BY <1>9, <1>10
  <2>2. ASSUME NEW A, h[{}] \in A, \A k \in 1..n : h[1..(k - 1)] \in A => h[1..k] \in A
        PROVE  \E f \in [0..n -> A] : f[0] = h[{}] /\ \A k \in 0..n : f[k] = h[1..k]
    BY <2>2, PrefixesStay
  <2> QED BY <2>1, <2>2
<1>12. \A k \in 1..n : f[k] = MeantAt(author, f[k - 1], k)
  BY <1>10, <1>11, UpToIs
<1>13. f[0] = t /\ Meant(author, t) = f[n]
  <2>1. n \in 0..n
    OBVIOUS
  <2>2. f[n] = h[1..n]
    BY <1>11, <2>1
  <2> QED BY <1>6, <1>9, <1>11, <2>2
<1>14. MeantTurns(f, author, t)
  BY <1>12, <1>13 DEF MeantTurns
<1> QED BY <1>11, <1>14

\* However many exceptions and rules there are, the text becomes what is meant
LEMMA AsMeant ==
  ASSUME NEW S, NEW R, NEW t \in Seq(S), NEW author,
         author.quirks \in Seq(Seq(S)), author.regexes \in Seq(R),
         HOLD \notin S, HOLD \notin Exceptions,
         \A i \in DOMAIN author.regexes : HOLD \notin author.regexes[i].matches
  PROVE  QuirkifyText(author, t) = Meant(author, t)
<1>1. CASE Len(author.quirks) # Len(author.regexes)
  BY <1>1 DEF QuirkifyText, Meant
<1>2. CASE Len(author.quirks) = Len(author.regexes)
  <2> DEFINE n == Len(author.quirks)
  <2>1. n \in Nat /\ DOMAIN author.quirks = 1..n /\ DOMAIN author.regexes = 1..n
        /\ Len(author.quirks) = n /\ Len(author.regexes) = n
        /\ \A i \in 1..n : author.quirks[i] \in Seq(S)
    BY <1>2
  <2> HIDE DEF n
  <2>2. ASSUME NEW i \in 1..n, NEW u \in Seq(S)
        PROVE  RuleAt(author, u, i) = MeantAt(author, u, i) /\ RuleAt(author, u, i) \in Seq(S)
    <3>1. author.quirks[i] \in Seq(S) /\ HOLD \notin author.regexes[i].matches
      BY <2>1
    <3> QED BY <3>1, RuleIs DEF RuleAt, MeantAt
  <2>3. PICK f \in [0..n -> Seq(S)] : RuleTurns(f, author, t)
    BY <2>1, <2>2, RuleSteps
  <2>4. PICK g \in [0..n -> Seq(S)] : MeantTurns(g, author, t)
    <3>1. \A i \in 1..n, u \in Seq(S) : MeantAt(author, u, i) \in Seq(S)
      BY <2>2
    <3> QED BY <2>1, <3>1, MeantSteps
  <2> DEFINE P == {k \in 0..n : f[k] = g[k]}
  <2>5. 0 \in P
    BY <2>1, <2>3, <2>4 DEF RuleTurns, MeantTurns
  <2>6. ASSUME NEW k \in 0..n, k < n, k \in P PROVE k + 1 \in P
    <3>1. k + 1 \in 1..n /\ k + 1 \in 0..n /\ (k + 1) - 1 = k
      BY <2>1, <2>6
    <3>2. f[k + 1] = RuleAt(author, f[k], k + 1)
      BY <2>1, <2>3, <3>1 DEF RuleTurns
    <3>3. g[k + 1] = MeantAt(author, g[k], k + 1)
      BY <2>1, <2>4, <3>1 DEF MeantTurns
    <3>4. f[k] \in Seq(S) /\ f[k] = g[k]
      BY <2>6
    <3>5. RuleAt(author, f[k], k + 1) = MeantAt(author, f[k], k + 1)
      BY <2>2, <3>1, <3>4
    <3> QED BY <3>1, <3>2, <3>3, <3>4, <3>5
  <2>7. f[n] = g[n]
    <3>1. \A k \in 0..n : k \in P
      <4> HIDE DEF P
      <4> QED BY <2>1, <2>5, <2>6, StepByStep
    <3>2. n \in 0..n
      BY <2>1
    <3> QED BY <3>1, <3>2
  <2> QED BY <2>1, <2>3, <2>4, <2>7 DEF RuleTurns, MeantTurns
<1> QED BY <1>1, <1>2

-----------------------------------------------------------------------------
(* The end of a text *)

Ends(t, x) == Len(t) > 0 /\ t[Len(t)] = x

\* What is put in at another place leaves the end alone
LEMMA SubEnds ==
  ASSUME NEW S, NEW t \in Seq(S), NEW x, NEW y \in S, NEW z, Ends(t, z), x # z
  PROVE  Sub(t, x, y) \in Seq(S) /\ Ends(Sub(t, x, y), z)
<1>1. CASE \A j \in 1..Len(t) : t[j] # x
  BY <1>1, SubNone
<1>2. CASE \E j \in 1..Len(t) : t[j] = x
  <2> DEFINE T == {j \in 1..Len(t) : t[j] = x}
  <2>1. T \in SUBSET Nat /\ T # {}
    BY <1>2
  <2>2. PICK p \in T : \A j \in T : p <= j
    <3> HIDE DEF T
    <3> QED BY <2>1, LeastNatural
  <2>3. p \in 1..Len(t) /\ t[p] = x
    OBVIOUS
  <2>4. ASSUME NEW j \in 1..(p - 1) PROVE t[j] # x
    <3>1. j \in 1..Len(t) /\ j < p
      OBVIOUS
    <3>2. j \notin T
      BY <2>2, <3>1
    <3> QED BY <3>1, <3>2
  <2>5. Sub(t, x, y) = [t EXCEPT ![p] = y]
    BY <2>3, <2>4, SubIs
  <2>6. p # Len(t) /\ Len(t) \in 1..Len(t)
    BY <2>3 DEF Ends
  <2>7. ASSUME NEW w, w = [t EXCEPT ![p] = y]
        PROVE  w \in Seq(S) /\ Ends(w, z)
    <3>1. w \in Seq(S) /\ Len(w) = Len(t) /\ \A j \in 1..Len(t) : w[j] = IF j = p THEN y ELSE t[j]
      BY <2>3, <2>7
    <3>2. w[Len(t)] = t[Len(t)]
      BY <2>6, <3>1
    <3> QED BY <3>1, <3>2 DEF Ends
  <2> QED BY <2>5, <2>7
<1> QED BY <1>1, <1>2

LEMMA HeldEnds ==
  ASSUME NEW S, NEW t \in Seq(S), NEW l \in Seq(S), NEW z, HOLD \in S,
         Ends(t, z), \A k \in 1..Len(l) : l[k] # z
  PROVE  SafeHold(t, l) \in Seq(S) /\ Ends(SafeHold(t, l), z)
<1> DEFINE n == Len(l)
<1>1. n \in Nat
  OBVIOUS
<1>0. \E f \in [0..n -> Seq(S)] : Holding(f, t, l)
  BY HoldSteps
<1>2. PICK f \in [0..n -> Seq(S)] :
        /\ f[0] = t /\ SafeHold(t, l) = f[n]
        /\ \A k \in 1..n : f[k] = Sub(f[k - 1], l[k], HOLD)
  BY <1>0 DEF Holding
<1> HIDE DEF n
<1> DEFINE P == {k \in 0..n : Ends(f[k], z)}
<1>3. 0 \in P
  BY <1>1, <1>2
<1>4. ASSUME NEW k \in 0..n, k < n, k \in P PROVE k + 1 \in P
  <2>1. k + 1 \in 1..n /\ k + 1 \in 0..n /\ (k + 1) - 1 = k
    BY <1>1, <1>4
  <2>2. f[k + 1] = Sub(f[k], l[k + 1], HOLD) /\ f[k] \in Seq(S) /\ Ends(f[k], z) /\ l[k + 1] # z
    BY <1>2, <1>4, <2>1 DEF n
  <2>3. Ends(Sub(f[k], l[k + 1], HOLD), z)
    BY <2>2, SubEnds
  <2> QED BY <2>1, <2>2, <2>3
<1>5. \A k \in 0..n : k \in P
  <2> HIDE DEF P
  <2> QED BY <1>1, <1>3, <1>4, StepByStep
<1>6. n \in 0..n
  BY <1>1
<1> QED BY <1>2, <1>5, <1>6

LEMMA ReturnedEnds ==
  ASSUME NEW S, NEW t \in Seq(S), NEW l \in Seq(S), NEW z, HOLD \in S, Ends(t, z), HOLD # z
  PROVE  SafeReturn(t, l) \in Seq(S) /\ Ends(SafeReturn(t, l), z)
<1> DEFINE n == Len(l)
<1>1. n \in Nat
  OBVIOUS
<1>2. PICK f \in [0..n -> Seq(S)] : Returning(f, t, l)
  BY ReturnSteps
<1>7. /\ f[0] = t /\ SafeReturn(t, l) = f[n]
      /\ \A k \in 1..n : f[k] = Sub(f[k - 1], HOLD, l[k])
  BY <1>2 DEF Returning
<1> HIDE DEF n
<1> DEFINE P == {k \in 0..n : Ends(f[k], z)}
<1>3. 0 \in P
  BY <1>1, <1>7
<1>4. ASSUME NEW k \in 0..n, k < n, k \in P PROVE k + 1 \in P
  <2>1. k + 1 \in 1..n /\ k + 1 \in 0..n /\ (k + 1) - 1 = k
    BY <1>1, <1>4
  <2>2. f[k + 1] = Sub(f[k], HOLD, l[k + 1]) /\ f[k] \in Seq(S) /\ Ends(f[k], z) /\ l[k + 1] \in S
    BY <1>4, <1>7, <2>1 DEF n
  <2>3. Ends(Sub(f[k], HOLD, l[k + 1]), z)
    BY <2>2, SubEnds
  <2> QED BY <2>1, <2>2, <2>3
<1>5. \A k \in 0..n : k \in P
  <2> HIDE DEF P
  <2> QED BY <1>1, <1>3, <1>4, StepByStep
<1>6. n \in 0..n
  BY <1>1
<1> QED BY <1>5, <1>6, <1>7

\* A rule that changes neither the end nor what is there
LEMMA ReplacedEnds ==
  ASSUME NEW S, NEW t \in Seq(S), NEW quirk \in Seq(S), NEW regex, NEW matches, NEW z,
         Ends(t, z), ~ regex.atEnd, z \notin matches
  PROVE  Ends(Replaced(t, regex, quirk, matches), z)
<1> DEFINE a == Made(t, matches, quirk)
           n == Len(t)
<1>1. n \in Nat /\ n \in 1..n /\ n - 1 \in 0..n /\ n \in 0..n /\ t[n] = z
  BY DEF Ends
<1>2. a \in Seq(Seq(S)) /\ Len(a) = n /\ a[n] = <<z>>
  <2>1. a \in Seq(Seq(S))
    BY ReplacedIs
  <2>2. Len(a) = n
    BY <1>1 DEF Made
  <2>3. a[n] = <<t[n]>>
    BY <1>1 DEF Made
  <2> QED BY <1>1, <2>1, <2>2, <2>3
<1>3. Replaced(t, regex, quirk, matches) = FlattenSeq(a) \o <<>>
  <2>1. Replaced(t, regex, quirk, matches) = Ended(a, EndOf(regex, quirk))
    BY ReplacedIs
  <2> HIDE DEF a
  <2> QED BY <2>1 DEF Ended, EndOf
<1> HIDE DEF a, n
<1>4. PICK f \in [0..Len(a) -> Seq(S)] : Flats(f, a)
  BY <1>2, FlatsExist
<1>5. FlattenSeq(a) = f[n] /\ f[n] \in Seq(S) /\ f[n - 1] \in Seq(S) /\ f[n] = f[n - 1] \o a[n]
  BY <1>1, <1>2, <1>4 DEF Flats
<1>6. z \in S
  BY <1>1 DEF n
<1>7. ASSUME NEW u \in Seq(S), NEW w, w = u \o <<z>>
      PROVE  w \in Seq(S) /\ Ends(w, z)
  BY <1>6, <1>7 DEF Ends
<1>8. Ends(f[n], z)
  BY <1>2, <1>5, <1>7
<1>9. ASSUME NEW u \in Seq(S) PROVE u \o <<>> = u
  OBVIOUS
<1> QED BY <1>3, <1>5, <1>8, <1>9

LEMMA RuleEnds ==
  ASSUME NEW S, NEW t \in Seq(S), NEW quirk \in Seq(S), NEW regex, NEW z,
         HOLD \in S, Ends(t, z), ~ regex.atEnd, z \notin regex.matches, z # HOLD, z \notin Exceptions
  PROVE  Rule(t, regex, quirk) \in Seq(S) /\ Ends(Rule(t, regex, quirk), z)
<1> DEFINE l == Scan(t)
           h == SafeHold(t, l)
           g == Gsub(h, regex, quirk)
<1>1. l \in Seq(S) /\ \A k \in 1..Len(l) : l[k] # z
  <2>1. l \in Seq(S \cap Exceptions)
    BY ScanLists
  <2> HIDE DEF l
  <2> QED BY <2>1
<1> HIDE DEF l
<1>2. h \in Seq(S) /\ Ends(h, z)
  BY <1>1, HeldEnds
<1> HIDE DEF h
<1>3. g \in Seq(S) /\ Ends(g, z)
  BY <1>2, ReplacedIs, ReplacedEnds DEF Gsub
<1> HIDE DEF g
<1>4. SafeReturn(g, l) \in Seq(S) /\ Ends(SafeReturn(g, l), z)
  BY <1>1, <1>3, ReturnedEnds
<1>5. Rule(t, regex, quirk) = SafeReturn(g, l)
  BY DEF Rule, g, h, l
<1> QED BY <1>4, <1>5

LEMMA RuleType ==
  ASSUME NEW S, NEW t \in Seq(S), NEW quirk \in Seq(S), NEW regex, HOLD \in S
  PROVE  Rule(t, regex, quirk) \in Seq(S)
<1> DEFINE l == Scan(t)
           h == SafeHold(t, l)
           g == Gsub(h, regex, quirk)
<1>1. l \in Seq(S)
  <2>1. l \in Seq(S \cap Exceptions)
    BY ScanLists
  <2> HIDE DEF l
  <2> QED BY <2>1
<1>2. Len(l) \in 0..Len(l)
  BY <1>1
<1> HIDE DEF l
<1>3. h \in Seq(S)
  <2>1. PICK f \in [0..Len(l) -> Seq(S)] : Holding(f, t, l)
    BY <1>1, HoldSteps
  <2> QED BY <1>2, <2>1 DEF Holding
<1> HIDE DEF h
<1>4. g \in Seq(S)
  BY <1>3, ReplacedIs DEF Gsub
<1> HIDE DEF g
<1>5. SafeReturn(g, l) \in Seq(S)
  <2>1. PICK f \in [0..Len(l) -> Seq(S)] : Returning(f, g, l)
    BY <1>1, <1>4, ReturnSteps
  <2> QED BY <1>2, <2>1 DEF Returning
<1> QED BY <1>5 DEF Rule, g, h, l

\* However many rules there are, none of which changes the end
LEMMA EndStays ==
  ASSUME NEW S, NEW R, NEW t \in Seq(S), NEW author, NEW z,
         author.quirks \in Seq(Seq(S)), author.regexes \in Seq(R),
         HOLD \in S, Ends(t, z), z # HOLD, z \notin Exceptions,
         \A i \in DOMAIN author.regexes :
           ~ author.regexes[i].atEnd /\ z \notin author.regexes[i].matches
  PROVE  Ends(QuirkifyText(author, t), z)
<1>1. CASE Len(author.quirks) # Len(author.regexes)
  BY <1>1 DEF QuirkifyText
<1>2. CASE Len(author.quirks) = Len(author.regexes)
  <2> DEFINE n == Len(author.quirks)
  <2>1. n \in Nat /\ DOMAIN author.quirks = 1..n /\ DOMAIN author.regexes = 1..n
        /\ Len(author.quirks) = n /\ Len(author.regexes) = n
        /\ \A i \in 1..n : author.quirks[i] \in Seq(S)
    BY <1>2
  <2> HIDE DEF n
  <2>2. \A i \in 1..n, u \in Seq(S) : RuleAt(author, u, i) \in Seq(S)
    BY <2>1, RuleType DEF RuleAt
  <2>3. PICK f \in [0..n -> Seq(S)] : RuleTurns(f, author, t)
    BY <2>1, <2>2, RuleSteps
  <2> DEFINE P == {k \in 0..n : Ends(f[k], z)}
  <2>4. 0 \in P
    BY <2>1, <2>3 DEF RuleTurns
  <2>5. ASSUME NEW k \in 0..n, k < n, k \in P PROVE k + 1 \in P
    <3>1. k + 1 \in 1..n /\ k + 1 \in 0..n /\ (k + 1) - 1 = k
      BY <2>1, <2>5
    <3>2. f[k + 1] = RuleAt(author, f[k], k + 1)
      BY <2>1, <2>3, <3>1 DEF RuleTurns
    <3>3. f[k] \in Seq(S) /\ Ends(f[k], z)
      BY <2>5
    <3>4. author.quirks[k + 1] \in Seq(S) /\ ~ author.regexes[k + 1].atEnd
          /\ z \notin author.regexes[k + 1].matches
      BY <2>1, <3>1
    <3>5. Ends(RuleAt(author, f[k], k + 1), z)
      BY <3>3, <3>4, RuleEnds DEF RuleAt
    <3> QED BY <3>1, <3>2, <3>5
  <2>6. Ends(f[n], z)
    <3>1. \A k \in 0..n : k \in P
      <4> HIDE DEF P
      <4> QED BY <2>1, <2>4, <2>5, StepByStep
    <3>2. n \in 0..n
      BY <2>1
    <3> QED BY <3>1, <3>2
  <2> QED BY <2>1, <2>3, <2>6 DEF RuleTurns
<1> QED BY <1>1, <1>2

-----------------------------------------------------------------------------
(* What a status says, and to whom *)

\* A request for this server only carries the mark
Kept == \A t \in Puma :
  Handles(t) /\ handling[t].local => handling[t].text \in {Marked(x, TRUE) : x \in Texts}

\* A status is what the rules of the author make of what was submitted
Intended == \A i \in DOMAIN statuses :
  /\ profile # Unset
  /\ statuses[i].text \in Submitted
  /\ statuses[i].content = QuirkifyText(profile, statuses[i].text)
  /\ statuses[i].local => statuses[i].text \in {Marked(x, TRUE) : x \in Texts}

\* Nobody sends away what is marked
Retained ==
  /\ \A t \in Puma : Handles(t) /\ handling[t].at = "federate" => ~ LocalOnly(statuses[handling[t].id])
  /\ \A i \in DOMAIN statuses : <<i, "elsewhere">> \in out => ~ LocalOnly(statuses[i])

Faithful == Kept /\ Intended /\ Retained

LEMMA GoKeeps ==
  ASSUME PostingTypeOK, NEW t \in Puma, Handles(t), NEW at, Go(t, at)
  PROVE  /\ handling'[t].at = at /\ handling'[t].id = handling[t].id
         /\ handling'[t].text = handling[t].text /\ handling'[t].local = handling[t].local
         /\ \A u \in Puma \ {t} : handling'[u] = handling[u]
<1> DEFINE r == [handling[t] EXCEPT !.at = at]
<1>1. handling[t] \in Requests
  BY BusyType
<1>2. r.at = at /\ r.id = handling[t].id /\ r.text = handling[t].text /\ r.local = handling[t].local
  BY <1>1 DEF Requests
<1>3. handling \in [Puma -> Requests \cup {NoRequest}] /\ handling' = [handling EXCEPT ![t] = r]
  BY DEF PostingTypeOK, Go
<1> HIDE DEF r
<1>4. handling'[t] = r /\ \A u \in Puma \ {t} : handling'[u] = handling[u]
  BY <1>3
<1> QED BY <1>2, <1>4

\* What creates nothing: a request is new or what it was, and is sent away, or
\* has been, only if it is not marked
Carried(t) ==
  Handles(t)' =>
    \/ /\ Handles(t)
       /\ handling'[t].text = handling[t].text /\ handling'[t].local = handling[t].local
       /\ handling'[t].id = handling[t].id
       /\ handling'[t].at = "federate" =>
            handling[t].at = "federate" \/ ~ LocalOnly(statuses[handling[t].id])
    \/ /\ handling'[t].at = "lookup"
       /\ handling'[t].local => handling'[t].text \in {Marked(x, TRUE) : x \in Texts}

Sent == \A i \in DOMAIN statuses :
  <<i, "elsewhere">> \in out' => <<i, "elsewhere">> \in out \/ ~ LocalOnly(statuses[i])

LEMMA CarriedOn ==
  ASSUME Faithful, profile' = profile, statuses' = statuses, Sent, \A t \in Puma : Carried(t)
  PROVE  Faithful'
<1>1. Kept'
  BY DEF Faithful, Kept, Carried
<1>2. Intended'
  BY DEF Faithful, Intended
<1>3. \A i : LocalOnly(statuses[i])' = LocalOnly(statuses[i])
  BY DEF LocalOnly
<1>4. Retained'
  BY DEF Faithful, Retained, Carried, Sent
<1> QED BY <1>1, <1>2, <1>4 DEF Faithful

LEMMA CreateFaithful ==
  ASSUME IInv, Faithful, NEW t \in Puma, Handles(t), Create(t), profile # Unset
  PROVE  Faithful'
<1> DEFINE r == handling[t]
           n == Len(statuses')
<1>1. /\ statuses' = Append(statuses, NewStatus(r)) /\ r.at = "create"
      /\ handling' = [handling EXCEPT ![t].at = "mentions", ![t].id = Len(statuses')]
      /\ UNCHANGED <<profile, out>>
  BY DEF Create
<1>2. /\ DOMAIN statuses' = DOMAIN statuses \cup {n} /\ n \notin DOMAIN statuses
      /\ \A i \in DOMAIN statuses : statuses'[i] = statuses[i]
      /\ handling'[t].at = "mentions"
      /\ \A u \in Puma \ {t} : handling'[u] = handling[u]
  BY <1>1, CreateType DEF IInv
<1>3. statuses'[n] = NewStatus(r)
  <2>1. statuses \in Seq(Stored)
    BY DEF IInv, PostingTypeOK
  <2>2. ASSUME NEW s PROVE LET u == Append(statuses, s) IN u[Len(u)] = s
    BY <2>1
  <2> QED BY <1>1, <2>2
<1>4. handling'[t].text = r.text /\ handling'[t].local = r.local
  <2>1. r \in Requests /\ handling \in [Puma -> Requests \cup {NoRequest}]
    BY BusyType DEF IInv, PostingTypeOK
  <2> DEFINE x == [handling[t] EXCEPT !.at = "mentions", !.id = n]
  <2>2. handling' = [handling EXCEPT ![t] = x]
    BY <1>1
  <2>3. x.text = r.text /\ x.local = r.local
    BY <2>1 DEF Requests
  <2> HIDE DEF x
  <2>4. handling'[t] = x
    BY <2>1, <2>2
  <2> QED BY <2>3, <2>4
<1> HIDE DEF n
<1>5. r.text \in Submitted /\ (r.local => r.text \in {Marked(x, TRUE) : x \in Texts})
  BY BusyType, RequestIsOne DEF IInv, Faithful, Kept
<1>6. Kept'
  BY <1>2, <1>4, <1>5 DEF Faithful, Kept, Handles
<1>7. Intended'
  <2>1. NewStatus(r).text = r.text /\ NewStatus(r).local = r.local
        /\ NewStatus(r).content = QuirkifyText(profile, r.text)
    BY DEF NewStatus
  <2>2. ASSUME NEW i \in DOMAIN statuses
        PROVE  /\ profile' # Unset
               /\ statuses'[i].text \in Submitted
               /\ statuses'[i].content = QuirkifyText(profile', statuses'[i].text)
               /\ statuses'[i].local => statuses'[i].text \in {Marked(x, TRUE) : x \in Texts}
    BY <1>1, <1>2 DEF Faithful, Intended
  <2>3. /\ profile' # Unset
        /\ statuses'[n].text \in Submitted
        /\ statuses'[n].content = QuirkifyText(profile', statuses'[n].text)
        /\ statuses'[n].local => statuses'[n].text \in {Marked(x, TRUE) : x \in Texts}
    BY <1>1, <1>3, <1>5, <2>1
  <2> QED BY <1>2, <2>2, <2>3 DEF Intended
<1>8. <<n, "elsewhere">> \notin out
  BY <1>2 DEF IInv, PostingTypeOK
<1>9. \A i \in DOMAIN statuses : LocalOnly(statuses[i])' = LocalOnly(statuses[i])
  BY <1>2 DEF LocalOnly
<1>10. Retained'
  <2>1. ASSUME NEW u \in Puma, Handles(u)', handling'[u].at = "federate"
        PROVE  ~ LocalOnly(statuses'[handling'[u].id])
    <3>1. u # t /\ handling'[u] = handling[u] /\ Handles(u)
      BY <1>2, <2>1 DEF Handles
    <3>2. handling[u].id \in DOMAIN statuses
      BY <2>1, <3>1 DEF IInv, Sound, Created
    <3> QED BY <1>2, <2>1, <3>1, <3>2 DEF Faithful, Retained
  <2>2. \A i \in DOMAIN statuses' : <<i, "elsewhere">> \in out' => ~ LocalOnly(statuses'[i])
    BY <1>1, <1>2, <1>8 DEF Faithful, Retained
  <2> QED BY <2>1, <2>2 DEF Retained
<1> QED BY <1>6, <1>7, <1>10 DEF Faithful

LEMMA FaithfulFirst == PostingInit => Faithful
BY DEF PostingInit, Faithful, Kept, Intended, Retained, Handles

LEMMA FreeCarries ==
  ASSUME PostingTypeOK, NEW t \in Puma, Handles(t), Free(t)
  PROVE  \A u \in Puma : Carried(u)
BY FreeType DEF Carried, Handles

LEMMA GoCarries ==
  ASSUME PostingTypeOK, NEW t \in Puma, Handles(t), NEW at, Go(t, at),
         at = "federate" => ~ LocalOnly(statuses[handling[t].id])
  PROVE  \A u \in Puma : Carried(u)
BY GoKeeps DEF Carried, Handles

LEMMA FaithfulHolds ==
  ASSUME IInv, Faithful, [PostingNext]_postingVars
  PROVE  Faithful'
<1> USE DEF IInv
<1>1. CASE Change \/ UNCHANGED postingVars
  BY <1>1, CarriedOn DEF Change, postingVars, Carried, Sent, Handles
<1>2. CASE Submit
  <2>1. composer.local \in BOOLEAN /\ composer.text \in Texts /\ handling \in [Puma -> Requests \cup {NoRequest}]
    BY DEF PostingTypeOK
  <2>2. ASSUME NEW t \in Puma PROVE Carried(t)
    <3> DEFINE r == [at |-> "lookup", key |-> composer.key, text |-> Marked(composer.text, composer.local),
                     local |-> composer.local, id |-> 0, awaited |-> TRUE]
    <3>1. handling' = handling \/ \E u \in Puma : handling' = [handling EXCEPT ![u] = r]
      BY <1>2 DEF Submit
    <3>2. r.at = "lookup" /\ (r.local => r.text \in {Marked(x, TRUE) : x \in Texts})
      BY <2>1
    <3> HIDE DEF r
    <3>3. handling'[t] = handling[t] \/ handling'[t] = r
      BY <2>1, <3>1
    <3> QED BY <3>2, <3>3 DEF Carried, Handles
  <2> QED BY <1>2, <2>2, CarriedOn DEF Submit, Sent
<1>3. CASE GiveUp
  <2>1. ASSUME NEW t \in Puma PROVE Carried(t)
    <3>1. Handles(t) => handling[t] \in Requests
      BY BusyType
    <3> QED BY <1>3, <3>1 DEF GiveUp, Carried, Handles, Requests
  <2> QED BY <1>3, <2>1, CarriedOn DEF GiveUp, Sent
<1>4. ASSUME NEW t \in Puma, Handles(t), LookUp(t) PROVE Faithful'
  <2>1. \A u \in Puma : Carried(u)
    BY <1>4, FreeCarries, GoCarries DEF LookUp, Reply, Fail
  <2> QED BY <1>4, <2>1, CarriedOn DEF LookUp, Sent
<1>5. ASSUME NEW t \in Puma, Handles(t), Create(t) PROVE Faithful'
  <2>1. CASE profile = Unset
    BY <1>5, <2>1, FreeCarries, CarriedOn DEF Create, Fail, Sent
  <2> QED BY <1>5, <2>1, CreateFaithful
<1>6. ASSUME NEW t \in Puma, Handles(t), ProcessMentions(t) \/ Save(t) PROVE Faithful'
  <2>1. \A u \in Puma : Carried(u)
    BY <1>6, GoCarries DEF ProcessMentions, Save
  <2> QED BY <1>6, <2>1, CarriedOn DEF ProcessMentions, Save, Tell, Sent
<1>7. ASSUME NEW t \in Puma, Handles(t), Distribute(t) PROVE Faithful'
  <2>1. \A u \in Puma : Carried(u)
    BY <1>7, GoCarries DEF Distribute
  <2> QED BY <1>7, <2>1, CarriedOn DEF Distribute, Tell, Sent
<1>8. ASSUME NEW t \in Puma, Handles(t), Federate(t) PROVE Faithful'
  <2>1. \A u \in Puma : Carried(u)
    BY <1>8, GoCarries DEF Federate
  <2>2. ~ LocalOnly(statuses[handling[t].id])
    BY <1>8 DEF Federate, Faithful, Retained
  <2> QED BY <1>8, <2>1, <2>2, CarriedOn DEF Federate, Tell, Sent
<1>9. ASSUME NEW t \in Puma, Handles(t), Answer(t) PROVE Faithful'
  BY <1>9, FreeCarries, CarriedOn DEF Answer, Reply, Sent
<1>10. ASSUME NEW t \in Puma, Break(t) PROVE Faithful'
  BY <1>10, FreeCarries, CarriedOn DEF Break, Fail, Sent
<1>11. ASSUME NEW k \in Drafts, Expire(k) PROVE Faithful'
  BY <1>11, CarriedOn DEF Expire, Carried, Sent, Handles
<1>12. ASSUME NEW i \in DOMAIN statuses, Destroy(i) PROVE Faithful'
  BY <1>12, CarriedOn DEF Destroy, Carried, Sent, Handles
<1> QED BY <1>1, <1>2, <1>3, <1>4, <1>5, <1>6, <1>7, <1>8, <1>9, <1>10, <1>11, <1>12
        DEF PostingNext, Serve

LEMMA FaithfulAlways == PostingSpec => [](IInv /\ Faithful /\ profile \in Profiles)
<1>1. PostingInit => Faithful
  BY FaithfulFirst
<1>2. IInv /\ Faithful /\ [PostingNext]_postingVars => Faithful'
  BY FaithfulHolds
<1>3. IInv => profile \in Profiles
  BY DEF IInv, PostingTypeOK
<1> QED BY <1>1, <1>2, <1>3, Inductive, PTL DEF PostingSpec

\* What is submitted are texts of tokens, the mark among them
LEMMA SubmittedType ==
  ASSUME NEW t \in Submitted
  PROVE  t \in Seq(Tokens \cup {EYE})
<1>1. PICK x \in Texts, l \in BOOLEAN : t = Marked(x, l)
  BY DEF Submitted
<1>2. x \in Seq(Tokens)
  BY RulesAssumption
<1>3. x \in Seq(Tokens \cup {EYE}) /\ Append(x, EYE) \in Seq(Tokens \cup {EYE})
  BY <1>2
<1> QED BY <1>1, <1>3 DEF Marked

LEMMA ProfileType ==
  ASSUME NEW p \in Profiles, p # Unset
  PROVE  p.quirks \in Seq(Seq(Tokens))
         /\ p.regexes \in Seq([matches : SUBSET Tokens, atEnd : BOOLEAN])
<1>1. p \in [regexes : Seq([matches : SUBSET Tokens, atEnd : BOOLEAN]), quirks : Seq(Seq(Tokens))]
  BY RulesAssumption
<1>2. ASSUME NEW A, NEW B, p \in [regexes : A, quirks : B] PROVE p.regexes \in A /\ p.quirks \in B
  BY <1>2
<1> QED BY <1>1, <1>2

LEMMA MeantThen == IInv /\ Faithful /\ profile \in Profiles => ExceptionsStay
<1> SUFFICES ASSUME IInv, Faithful, profile \in Profiles, NEW i \in DOMAIN statuses,
                    LeavesHold(profile), HOLD \notin ToSet(statuses[i].text)
             PROVE  statuses[i].content = Meant(profile, statuses[i].text)
  BY DEF ExceptionsStay
<1> DEFINE t == statuses[i].text
           S == (Tokens \cup {EYE}) \ {HOLD}
           R == [matches : SUBSET Tokens, atEnd : BOOLEAN]
<1>1. profile # Unset /\ t \in Submitted /\ statuses[i].content = QuirkifyText(profile, t)
  BY DEF Faithful, Intended
<1>2. t \in Seq(S)
  <2>1. t \in Seq(Tokens \cup {EYE})
    BY <1>1, SubmittedType
  <2>2. \A j \in 1..Len(t) : t[j] # HOLD
    BY <2>1 DEF ToSet
  <2> HIDE DEF t
  <2> QED BY <2>1, <2>2
<1>3. profile.regexes \in Seq(R) /\ profile.quirks \in Seq(Seq(Tokens))
  BY <1>1, ProfileType
<1>4. profile.quirks \in Seq(Seq(S))
  <2>1. ASSUME NEW k \in DOMAIN profile.quirks PROVE profile.quirks[k] \in Seq(S)
    <3>1. profile.quirks[k] \in Seq(Tokens) /\ HOLD \notin ToSet(profile.quirks[k])
      BY <1>3 DEF LeavesHold
    <3>2. ASSUME NEW u \in Seq(Tokens), HOLD \notin ToSet(u) PROVE u \in Seq(S)
      <4>1. \A j \in 1..Len(u) : u[j] # HOLD
        BY <3>2 DEF ToSet
      <4> QED BY <4>1
    <3> QED BY <3>1, <3>2
  <2> HIDE DEF S
  <2> QED BY <1>3, <2>1
<1>5. HOLD \notin S /\ HOLD \notin Exceptions
      /\ \A k \in DOMAIN profile.regexes : HOLD \notin profile.regexes[k].matches
  BY RulesAssumption DEF LeavesHold
<1> HIDE DEF t, S, R
<1>6. QuirkifyText(profile, t) = Meant(profile, t)
  BY <1>2, <1>3, <1>4, <1>5, AsMeant
<1> QED BY <1>1, <1>6 DEF t

\* What the rules spare comes out as it went in, and only that, for any texts,
\* exceptions and rules: Posting!ExceptionsStay
THEOREM SparedStay == PostingSpec => []ExceptionsStay
BY FaithfulAlways, MeantThen, PTL

LEMMA EndThen == IInv /\ Faithful /\ profile \in Profiles => StaysHereUnlessRewritten
<1> SUFFICES ASSUME IInv, Faithful, profile \in Profiles, profile # Unset, LeavesEnd,
                    NEW i \in DOMAIN statuses, statuses[i].local
             PROVE  <<i, "elsewhere">> \notin out
  BY DEF StaysHereUnlessRewritten, StaysHere
<1> DEFINE t == statuses[i].text
           S == Tokens \cup {EYE, HOLD}
           R == [matches : SUBSET Tokens, atEnd : BOOLEAN]
<1>1. t \in Submitted /\ statuses[i].content = QuirkifyText(profile, t)
      /\ t \in {Marked(x, TRUE) : x \in Texts}
  BY DEF Faithful, Intended
<1>2. Ends(t, EYE)
  <2>1. PICK x \in Texts : t = Append(x, EYE)
    BY <1>1 DEF Marked
  <2>2. x \in Seq(Tokens)
    BY RulesAssumption
  <2>3. ASSUME NEW u, u = Append(x, EYE) PROVE Ends(u, EYE)
    BY <2>2, <2>3 DEF Ends
  <2> QED BY <2>1, <2>3
<1>3. t \in Seq(S)
  <2>1. t \in Seq(Tokens \cup {EYE})
    BY <1>1, SubmittedType
  <2> HIDE DEF t
  <2> QED BY <2>1
<1>4. profile.regexes \in Seq(R) /\ profile.quirks \in Seq(Seq(S))
  <2>1. profile.regexes \in Seq(R) /\ profile.quirks \in Seq(Seq(Tokens))
    BY ProfileType
  <2>2. ASSUME NEW u \in Seq(Tokens) PROVE u \in Seq(S)
    OBVIOUS
  <2> HIDE DEF S, R
  <2> QED BY <2>1, <2>2
<1>5. HOLD \in S /\ EYE # HOLD /\ EYE \notin Exceptions
      /\ \A k \in DOMAIN profile.regexes :
           ~ profile.regexes[k].atEnd /\ EYE \notin profile.regexes[k].matches
  BY RulesAssumption DEF LeavesEnd, EYE, HOLD
<1> HIDE DEF t, S, R
<1>6. Ends(QuirkifyText(profile, t), EYE)
  BY <1>2, <1>3, <1>4, <1>5, EndStays
<1>7. LocalOnly(statuses[i])
  <2>1. statuses[i].content # <<>>
    BY <1>1, <1>6 DEF Ends
  <2> QED BY <1>1, <1>6, <2>1 DEF LocalOnly, Ends, Last
<1> QED BY <1>7 DEF Faithful, Retained

\* A draft meant for this server stays here whatever breaks off or is sent
\* again, if no rule changes the end: Posting!StaysHereUnlessRewritten
THEOREM MarkedStays == PostingSpec => []StaysHereUnlessRewritten
BY FaithfulAlways, EndThen, PTL

-----------------------------------------------------------------------------
(* The removal of a person *)

Purges == [kind : Kinds \cup {"none"}, at : Steps \cup {"idle", "lock", "unlock"},
           active : BOOLEAN, batch : SUBSET Posts, left : SUBSET Posts]

LEMMA NoPurgeType == NoPurge \in Purges
BY DEF NoPurge, Purges

\* What the steps write into the record of a thread
LEMMA PurgesMade ==
  ASSUME NEW r \in Purges
  PROVE  /\ \A a \in Steps \cup {"idle", "lock", "unlock"} : [r EXCEPT !.at = a] \in Purges
         /\ \A S \in SUBSET Posts, T \in SUBSET Posts, a \in Steps :
              [r EXCEPT !.batch = S, !.left = T, !.at = a] \in Purges
         /\ \A S \in SUBSET Posts, a \in Steps : [r EXCEPT !.left = S, !.at = a] \in Purges
         /\ \A k \in Kinds, b \in BOOLEAN, a \in Steps \cup {"lock"} :
              [r EXCEPT !.kind = k, !.active = b, !.at = a] \in Purges
         /\ r.at \in Steps \cup {"idle", "lock", "unlock"} /\ r.kind \in Kinds \cup {"none"}
         /\ r.batch \in SUBSET Posts /\ r.left \in SUBSET Posts
BY DEF Purges

\* A thread that carries out a deletion, or is about to delete its key.  As
\* long as nobody was kept out, there is one at most, and the key is its
Inside(w) == purge[w].kind = "delete" /\ purge[w].at \in Steps \cup {"unlock"}

Held == ~ refused => \A w \in Sidekiq : Inside(w) => deleting

Single == ~ refused => \A u, w \in Sidekiq : Inside(u) /\ Inside(w) => u = w

\* Only a thread that performs a job has a step to take
Busy == \A w \in Sidekiq :
  /\ purge[w].at # "idle" => purge[w].kind \in Kinds
  /\ purge[w].at \in {"lock", "unlock", "raze"} => purge[w].kind = "delete"

\* A thread goes on with its purge
Becomes(w, r) ==
  /\ purge' = [purge EXCEPT ![w] = r]
  /\ r.kind = purge[w].kind /\ r.at \in Steps \cup {"unlock"}
  /\ r.at \in {"unlock", "raze"} => purge[w].kind = "delete"

RemovalInv == SuspensionTypeOK /\ Busy /\ Held /\ Single

-----------------------------------------------------------------------------
LEMMA RemovalInit == SuspensionInit => RemovalInv
<1> SUFFICES ASSUME SuspensionInit PROVE RemovalInv
  OBVIOUS
<1>1. purge \in [Sidekiq -> Purges] /\ \A w \in Sidekiq : purge[w] = NoPurge
  BY NoPurgeType DEF SuspensionInit
<1>2. SuspensionTypeOK
  <2>1. orders \in 0..MaxOrders /\ cuts \in 0..MaxCuts
    BY SuspensionAssumption DEF SuspensionInit
  <2>2. way \in [Posts -> Ways] /\ jobs \in [Kinds -> Nat]
    BY DEF SuspensionInit, Ways
  <2> QED BY <1>1, <2>1, <2>2 DEF SuspensionInit, SuspensionTypeOK, Purges
<1>3. \A w \in Sidekiq : purge[w].kind = "none" /\ purge[w].at = "idle"
  BY <1>1 DEF NoPurge
<1>4. Busy /\ Held /\ Single
  BY <1>3 DEF Busy, Held, Single, Inside, Steps
<1> QED BY <1>2, <1>4 DEF RemovalInv

\* Steps that leave the threads and the key alone
LEMMA ApartHolds ==
  ASSUME RemovalInv, SuspensionTypeOK', UNCHANGED <<purge, deleting, refused>>
  PROVE  RemovalInv'
BY DEF RemovalInv, Busy, Held, Single, Inside

\* Steps of one thread that ends no deletion and begins none
LEMMA WithinHolds ==
  ASSUME RemovalInv, SuspensionTypeOK', NEW w \in Sidekiq, NEW r \in Purges,
         purge' = [purge EXCEPT ![w] = r],
         r.at # "idle" => r.kind \in Kinds,
         r.at \in {"lock", "unlock", "raze"} => r.kind = "delete",
         r.kind = "delete" /\ r.at \in Steps \cup {"unlock"} => Inside(w),
         UNCHANGED <<deleting, refused>>
  PROVE  RemovalInv'
<1>1. purge \in [Sidekiq -> Purges]
  BY DEF RemovalInv, SuspensionTypeOK, Purges
<1>2. \A u \in Sidekiq : purge'[u] = IF u = w THEN r ELSE purge[u]
  BY <1>1
<1>3. Busy'
  BY <1>2 DEF RemovalInv, Busy
<1>4. \A u \in Sidekiq : Inside(u)' => Inside(u)
  BY <1>2 DEF Inside
<1>5. Held' /\ Single'
  BY <1>4 DEF RemovalInv, Held, Single
<1> QED BY <1>3, <1>5 DEF RemovalInv

\* Steps with which a thread leaves the deletion, and maybe takes the key
LEMMA OutHolds ==
  ASSUME RemovalInv, SuspensionTypeOK', NEW w \in Sidekiq,
         purge' = [purge EXCEPT ![w] = NoPurge],
         Inside(w) \/ UNCHANGED deleting,
         UNCHANGED refused
  PROVE  RemovalInv'
<1>1. purge \in [Sidekiq -> Purges]
  BY DEF RemovalInv, SuspensionTypeOK, Purges
<1>2. \A u \in Sidekiq : purge'[u] = IF u = w THEN NoPurge ELSE purge[u]
  BY <1>1
<1>3. Busy'
  BY <1>2 DEF RemovalInv, Busy, NoPurge
<1>4. \A u \in Sidekiq : Inside(u)' => Inside(u) /\ u # w
  BY <1>2 DEF Inside, NoPurge, Steps
<1>5. Single'
  BY <1>4 DEF RemovalInv, Single
<1>6. Held'
  BY <1>4 DEF RemovalInv, Held, Single
<1> QED BY <1>3, <1>5, <1>6 DEF RemovalInv

-----------------------------------------------------------------------------
LEMMA OrderHolds ==
  ASSUME RemovalInv, SuspendPerson \/ UnsuspendPerson \/ \E k \in Kinds : Ask(k)
  PROVE  RemovalInv'
<1>1. orders' \in 0..MaxOrders
  BY SuspensionAssumption DEF RemovalInv, SuspensionTypeOK, SuspendPerson, UnsuspendPerson, Ask, Order
<1>2. jobs' \in [Kinds -> Nat]
  BY DEF RemovalInv, SuspensionTypeOK, SuspendPerson, UnsuspendPerson, Ask, Enqueue, Kinds
<1>3. SuspensionTypeOK'
  BY <1>1, <1>2 DEF RemovalInv, SuspensionTypeOK, SuspendPerson, UnsuspendPerson, Ask, Database, Pasts
<1>4. UNCHANGED <<purge, deleting, refused>>
  BY DEF SuspendPerson, UnsuspendPerson, Ask, Pasts
<1> QED BY <1>3, <1>4, ApartHolds

LEMMA TravelHolds ==
  ASSUME RemovalInv, NEW p \in Posts, Travel(p)
  PROVE  RemovalInv'
<1>1. way' \in [Posts -> Ways]
  BY DEF RemovalInv, SuspensionTypeOK, Travel, CheckAccount, WritePost, FanOut, FindPost, PushPost, Along, Ways
<1>2. SuspensionTypeOK'
  BY <1>1 DEF RemovalInv, SuspensionTypeOK, Travel, CheckAccount, WritePost, FanOut, FindPost, PushPost, Along, Database, Pasts
<1>3. UNCHANGED <<purge, deleting, refused>>
  BY DEF Travel, CheckAccount, WritePost, FanOut, FindPost, PushPost, Along, Pasts
<1> QED BY <1>2, <1>3, ApartHolds

-----------------------------------------------------------------------------
LEMMA TakeHolds ==
  ASSUME RemovalInv, NEW w \in Sidekiq, NEW k \in Kinds, Take(w, k)
  PROVE  RemovalInv'
<1> DEFINE r == [NoPurge EXCEPT !.kind = k, !.active = (account = "active"),
                                !.at = IF k = "delete" THEN "lock" ELSE "save"]
<1>1. jobs' \in [Kinds -> Nat]
  BY DEF RemovalInv, SuspensionTypeOK, Take
<1>2. CASE purge' = purge
  <2>1. SuspensionTypeOK'
    BY <1>1, <1>2 DEF RemovalInv, SuspensionTypeOK, Take, Database, Pasts
  <2> QED BY <1>2, <2>1, ApartHolds DEF Take, Pasts
<1>3. CASE purge' = [purge EXCEPT ![w] = r]
  <2>1. r \in Purges
    BY NoPurgeType, PurgesMade DEF Steps
  <2>2. SuspensionTypeOK'
    BY <1>1, <1>3, <2>1 DEF RemovalInv, SuspensionTypeOK, Take, Database, Pasts, Purges
  <2>3. r.kind = k /\ r.at = IF k = "delete" THEN "lock" ELSE "save"
    BY DEF NoPurge
  <2>4. ~ (r.kind = "delete" /\ r.at \in Steps \cup {"unlock"})
    BY <2>3 DEF Steps
  <2>5. r.at # "idle" /\ r.at \notin {"unlock", "raze"} /\ (r.at = "lock" => r.kind = "delete")
    BY <2>3
  <2>6. UNCHANGED <<deleting, refused>>
    BY DEF Take, Pasts
  <2> HIDE DEF r
  <2> QED BY <1>3, <2>1, <2>2, <2>3, <2>4, <2>5, <2>6, WithinHolds
<1> QED BY <1>2, <1>3 DEF Take

LEMMA LockHolds ==
  ASSUME RemovalInv, NEW w \in Sidekiq, Lock(w)
  PROVE  RemovalInv'
<1> DEFINE r == [purge[w] EXCEPT !.at = IF deleting THEN "unlock" ELSE "save"]
<1>1. purge \in [Sidekiq -> Purges] /\ purge[w] \in Purges /\ purge' = [purge EXCEPT ![w] = r]
  BY DEF RemovalInv, SuspensionTypeOK, Lock, Purges, GoOn
<1>2. r \in Purges /\ r.kind = purge[w].kind
  <2>1. r \in Purges
    BY <1>1, PurgesMade DEF Steps
  <2> QED BY <1>1, <2>1 DEF Purges
<1>3. SuspensionTypeOK'
  <2>1. purge' \in [Sidekiq -> Purges]
    BY <1>1, <1>2
  <2> QED BY <2>1 DEF RemovalInv, SuspensionTypeOK, Lock, Database, Pasts, Purges
<1>4. \A u \in Sidekiq : purge'[u] = IF u = w THEN r ELSE purge[u]
  BY <1>1
<1>5. Busy'
  BY <1>2, <1>4 DEF RemovalInv, Busy, Lock
<1>6. Held'
  BY DEF Held, Lock
<1>7. Single'
  <2> SUFFICES ASSUME ~ refused, ~ deleting PROVE Single'
    BY DEF Single, Lock
  <2>1. \A u \in Sidekiq : Inside(u)' => u = w
    BY <1>4 DEF RemovalInv, Held, Inside
  <2> QED BY <2>1 DEF Single
<1> QED BY <1>3, <1>5, <1>6, <1>7 DEF RemovalInv

LEMMA UnlockHolds ==
  ASSUME RemovalInv, NEW w \in Sidekiq, Unlock(w)
  PROVE  RemovalInv'
<1>1. SuspensionTypeOK'
  BY NoPurgeType DEF RemovalInv, SuspensionTypeOK, Unlock, Database, Pasts, Purges
<1>2. Inside(w)
  BY DEF RemovalInv, Busy, Unlock, Inside
<1> QED BY <1>1, <1>2, OutHolds DEF Unlock, Pasts

LEMMA PurgeHolds ==
  ASSUME RemovalInv, NEW w \in Sidekiq,
         \/ SaveProfile(w) \/ ReadBatch(w) \/ UnpushBatch(w) \/ DestroyAccount(w)
         \/ \E p \in Posts : DestroyPost(w, p)
  PROVE  RemovalInv'
<1>1. purge \in [Sidekiq -> Purges] /\ purge[w] \in Purges
  BY DEF RemovalInv, SuspensionTypeOK, Purges
<1>2. UNCHANGED <<deleting, refused>>
  BY DEF SaveProfile, ReadBatch, UnpushBatch, DestroyAccount, DestroyPost, Pasts
<1>3. PICK r \in Purges : Becomes(w, r)
  <2>1. CASE SaveProfile(w) \/ UnpushBatch(w) \/ DestroyAccount(w)
    <3>1. PICK a \in {"read", "unfollow", "unlock"} :
             GoOn(w, a) /\ (a = "unlock" => purge[w].at = "raze")
      BY <2>1 DEF SaveProfile, UnpushBatch, DestroyAccount
    <3>2. [purge[w] EXCEPT !.at = a] \in Purges
      BY <1>1, PurgesMade DEF Steps
    <3> QED BY <1>1, <3>1, <3>2 DEF RemovalInv, Busy, GoOn, Purges, Steps, Becomes
  <2>2. CASE ReadBatch(w)
    <3>1. PICK a \in {"unfollow", "destroy"} :
             purge' = [purge EXCEPT ![w] = [purge[w] EXCEPT !.batch = kept, !.left = kept, !.at = a]]
      BY <2>2 DEF ReadBatch
    <3>2. [purge[w] EXCEPT !.batch = kept, !.left = kept, !.at = a] \in Purges
      BY <1>1, PurgesMade DEF Steps, RemovalInv, SuspensionTypeOK
    <3> QED BY <1>1, <3>1, <3>2 DEF Purges, Steps, Becomes
  <2>3. ASSUME NEW p \in Posts, DestroyPost(w, p) PROVE \E r \in Purges : Becomes(w, r)
    <3>1. PICK a \in {"unpush", "destroy"} :
             purge' = [purge EXCEPT ![w] = [purge[w] EXCEPT !.left = purge[w].left \ {p}, !.at = a]]
      BY <2>3 DEF DestroyPost
    <3>2. [purge[w] EXCEPT !.left = purge[w].left \ {p}, !.at = a] \in Purges
      BY <1>1, PurgesMade DEF Steps
    <3> QED BY <1>1, <3>1, <3>2 DEF Purges, Steps, Becomes
  <2> QED BY <2>1, <2>2, <2>3
<1>4. SuspensionTypeOK'
  <2>1. purge' \in [Sidekiq -> Purges]
    BY <1>1, <1>3 DEF Becomes
  <2>2. CASE SaveProfile(w)
    BY <2>1, <2>2 DEF RemovalInv, SuspensionTypeOK, SaveProfile, Purges
  <2>3. CASE ReadBatch(w) \/ UnpushBatch(w) \/ DestroyAccount(w)
    BY <2>1, <2>3 DEF RemovalInv, SuspensionTypeOK, ReadBatch, UnpushBatch, DestroyAccount, Database, Pasts, Purges
  <2>4. ASSUME NEW p \in Posts, DestroyPost(w, p) PROVE SuspensionTypeOK'
    BY <2>1, <2>4 DEF RemovalInv, SuspensionTypeOK, DestroyPost, Purges
  <2> QED BY <2>2, <2>3, <2>4
<1>5. purge[w].at \in Steps
  BY DEF SaveProfile, ReadBatch, UnpushBatch, DestroyAccount, DestroyPost, Steps
<1>6. purge[w].kind \in Kinds
  BY <1>5 DEF RemovalInv, Busy, Steps
<1>7. r.kind = "delete" => Inside(w)
  BY <1>3, <1>5 DEF Inside, Becomes
<1>8. r.at # "lock"
  BY <1>3 DEF Steps, Becomes
<1> QED BY <1>2, <1>3, <1>4, <1>6, <1>7, <1>8, WithinHolds DEF Becomes

LEMMA EndHolds ==
  ASSUME RemovalInv, NEW w \in Sidekiq, DestroyFollows(w)
  PROVE  RemovalInv'
<1>1. purge \in [Sidekiq -> Purges] /\ purge[w] \in Purges
  BY DEF RemovalInv, SuspensionTypeOK, Purges
<1>2. CASE purge[w].kind = "delete"
  <2> DEFINE r == [purge[w] EXCEPT !.at = "raze"]
  <2>1. purge' = [purge EXCEPT ![w] = r]
    BY <1>2 DEF DestroyFollows
  <2>2. r \in Purges /\ r.kind = "delete"
    <3>1. r \in Purges
      BY <1>1, PurgesMade DEF Steps
    <3> QED BY <1>1, <1>2, <3>1 DEF Purges
  <2>3. SuspensionTypeOK'
    BY <1>1, <2>1, <2>2 DEF RemovalInv, SuspensionTypeOK, DestroyFollows, Purges
  <2>4. Inside(w)
    BY <1>2 DEF DestroyFollows, Inside, Steps
  <2> QED BY <2>1, <2>2, <2>3, <2>4, WithinHolds DEF DestroyFollows, Kinds
<1>3. CASE purge[w].kind # "delete"
  <2>1. purge' = [purge EXCEPT ![w] = NoPurge]
    BY <1>3 DEF DestroyFollows
  <2>2. SuspensionTypeOK'
    BY <1>1, <2>1, NoPurgeType DEF RemovalInv, SuspensionTypeOK, DestroyFollows, Purges
  <2> QED BY <2>1, <2>2, OutHolds DEF DestroyFollows
<1> QED BY <1>2, <1>3

LEMMA CutHolds ==
  ASSUME RemovalInv, NEW w \in Sidekiq, Stop(w) \/ Kill(w)
  PROVE  RemovalInv'
<1>1. purge[w] \in Purges /\ purge[w].kind \in Kinds
  BY DEF RemovalInv, SuspensionTypeOK, Busy, Stop, Kill, Purges
<1>2. cuts' \in 0..MaxCuts
  BY SuspensionAssumption DEF RemovalInv, SuspensionTypeOK, Stop, Kill
<1>3. jobs' \in [Kinds -> Nat]
  BY <1>1 DEF RemovalInv, SuspensionTypeOK, Stop, Kill, Enqueue
<1>4. Left(w) \subseteq Posts
  BY <1>1, PurgesMade DEF Left
<1>5. purge' \in [Sidekiq -> Purges]
  BY NoPurgeType DEF RemovalInv, SuspensionTypeOK, Stop, Kill, Purges
<1>6. dropped' \subseteq Posts /\ unfinished' \in BOOLEAN /\ deleting' \in BOOLEAN
  BY <1>4 DEF RemovalInv, SuspensionTypeOK, Stop, Kill
<1>7. SuspensionTypeOK'
  BY <1>2, <1>3, <1>5, <1>6 DEF RemovalInv, SuspensionTypeOK, Stop, Kill, Database, Purges
<1>8. Inside(w) \/ UNCHANGED deleting
  BY DEF RemovalInv, SuspensionTypeOK, Stop, Kill, Inside
<1> QED BY <1>7, <1>8, OutHolds DEF Stop, Kill

-----------------------------------------------------------------------------
LEMMA StepHolds == RemovalInv /\ [SuspensionNext]_suspensionVars => RemovalInv'
<1> SUFFICES ASSUME RemovalInv, [SuspensionNext]_suspensionVars PROVE RemovalInv'
  OBVIOUS
<1>1. CASE UNCHANGED suspensionVars
  BY <1>1 DEF suspensionVars, RemovalInv, SuspensionTypeOK, Busy, Held, Single, Inside
<1>2. ASSUME NEW w \in Sidekiq, Purge(w) PROVE RemovalInv'
  BY <1>2, TakeHolds, LockHolds, UnlockHolds, PurgeHolds, EndHolds, CutHolds DEF Purge
<1> QED BY <1>1, <1>2, OrderHolds, TravelHolds DEF SuspensionNext

LEMMA RemovalNext == SuspensionSpec => []RemovalInv
BY RemovalInit, StepHolds, PTL DEF SuspensionSpec

\* Type correctness of SuspendAccountService and of the posts that arrive
\* meanwhile.
THEOREM RemovalTypeCorrect == SuspensionSpec => []SuspensionTypeOK
<1>1. RemovalInv => SuspensionTypeOK
  BY DEF RemovalInv
<1> QED BY <1>1, RemovalNext, PTL

\* However many threads, deliveries, shutdowns and killed processes there are:
\* two deletions of the same person run at once only after lock_or_return has
\* kept out a third (Activity::Delete#delete_person).
THEOREM OneAtATime == SuspensionSpec => []OneDeletion
<1>1. RemovalInv => OneDeletion
  BY DEF RemovalInv, Single, Inside, OneDeletion
<1> QED BY <1>1, RemovalNext, PTL

-----------------------------------------------------------------------------
(* A purge leaves nothing behind *)

InPurge == Steps \ {"save"}

\* Posts of which nothing is promised
Excused == late \cup dropped

\* What a purge has behind it: it destroys what it read and what was there when
\* it began, and ends when that is gone
Ahead == \A w \in Sidekiq :
  /\ purge[w].left \subseteq purge[w].batch
  /\ purge[w].at \in InPurge => begun
  /\ purge[w].at = "destroy" => kept \subseteq late \cup purge[w].left
  /\ purge[w].at \in {"unpush", "unfollow", "raze"} => kept \subseteq late
  /\ purge[w].at = "raze" => ~ followed

Apart ==
  ~ together => \A u, w \in Sidekiq : purge[u].at \in InPurge /\ purge[w].at \in InPurge => u = w

NoneLeft ==
  /\ account = "destroyed" => kept = {}
  /\ ~ followed => begun /\ kept \subseteq late

\* What is in the feed is in the database, or in the hands of a purge that has
\* yet to take it out; and so is what is on its way into the feed
Traced ==
  ~ together => \A p \in feed \ Excused : p \in kept \/ \E w \in Sidekiq : p \in Left(w)

FoundThere == \A p \in Posts : way[p] = "found" => p \in kept \cup Excused

Unfollowed == ~ followed /\ ~ together => feed \subseteq Excused

\* A thread that is going to destroy what is left
Destroying(w) ==
  (purge[w].kind = "suspend" /\ purge[w].at # "idle") \/ purge[w].at \in {"read", "destroy"}

ToCome ==
  begun /\ ~ unfinished =>
    kept \subseteq late \/ jobs["suspend"] > 0 \/ \E w \in Sidekiq : Destroying(w)

Gone == Ahead /\ Apart /\ NoneLeft /\ Traced /\ FoundThere /\ Unfollowed /\ ToCome

\* How a step changes the record of its thread, and of no other
Others(w) == \A u \in Sidekiq \ {w} : purge'[u] = purge[u]

LEMMA StepMoves ==
  ASSUME RemovalInv, NEW w \in Sidekiq, NEW a, GoOn(w, a)
  PROVE  /\ Others(w)
         /\ purge'[w].at = a /\ purge'[w].kind = purge[w].kind
         /\ purge'[w].batch = purge[w].batch /\ purge'[w].left = purge[w].left
<1>1. purge \in [Sidekiq -> Purges]
  BY DEF RemovalInv, SuspensionTypeOK, Purges
<1>2. Others(w) /\ purge'[w] = [purge[w] EXCEPT !.at = a]
  BY <1>1 DEF GoOn, Others
<1> QED BY <1>1, <1>2 DEF Purges

LEMMA OutMoves ==
  ASSUME RemovalInv, NEW w \in Sidekiq, purge' = [purge EXCEPT ![w] = NoPurge]
  PROVE  /\ Others(w)
         /\ purge'[w].at = "idle" /\ purge'[w].kind = "none"
         /\ purge'[w].batch = {} /\ purge'[w].left = {}
<1>1. purge \in [Sidekiq -> Purges]
  BY DEF RemovalInv, SuspensionTypeOK, Purges
<1> QED BY <1>1 DEF NoPurge, Others

\* A thread that destroys nothing, before and after, says nothing of posts
LEMMA IdleGone ==
  ASSUME RemovalInv, Gone, NEW w \in Sidekiq, Others(w),
         purge[w].at \notin Steps \/ purge[w].at = "save",
         purge'[w].at \notin InPurge, purge'[w].left \subseteq purge'[w].batch,
         Destroying(w) => Destroying(w)',
         jobs'["suspend"] \in Nat, jobs'["suspend"] >= jobs["suspend"] \/ Destroying(w)' \/ kept = {},
         UNCHANGED <<account, followed, kept, way, feed, begun, together, late, dropped>>,
         unfinished' \in BOOLEAN, unfinished => unfinished'
  PROVE  Gone'
<1>1. purge[w].at \notin InPurge
  BY DEF InPurge
<1>2. Ahead'
  BY DEF Gone, Ahead, Others, InPurge, Steps
<1>3. Apart'
  BY DEF Gone, Apart, Others
<1>4. NoneLeft' /\ FoundThere' /\ Unfollowed'
  BY DEF Gone, NoneLeft, FoundThere, Unfollowed, Excused
<1>5. Traced'
  <2>1. \A u \in Sidekiq : Left(u) \subseteq Left(u)'
    BY <1>1 DEF Left, Others, InPurge, Steps
  <2> QED BY <2>1 DEF Gone, Traced, Excused
<1>6. ToCome'
  <2>1. \A u \in Sidekiq : Destroying(u) => Destroying(u)'
    BY DEF Destroying, Others
  <2>2. jobs["suspend"] \in Nat
    BY DEF RemovalInv, SuspensionTypeOK, Kinds
  <2> QED BY <2>1, <2>2 DEF Gone, ToCome
<1> QED BY <1>2, <1>3, <1>4, <1>5, <1>6 DEF Gone

-----------------------------------------------------------------------------
LEMMA OrderGone ==
  ASSUME RemovalInv, Gone, SuspendPerson \/ UnsuspendPerson \/ \E k \in Kinds : Ask(k)
  PROVE  Gone'
<1>1. UNCHANGED <<followed, kept, way, feed, purge, begun, together, late, dropped, unfinished>>
  BY DEF SuspendPerson, UnsuspendPerson, Ask, Database, Pasts
<1>2. account' = account \/ account # "destroyed"
  BY DEF SuspendPerson, UnsuspendPerson, Ask, Database
<1>3. jobs["suspend"] > 0 => jobs'["suspend"] > 0
  BY DEF RemovalInv, SuspensionTypeOK, SuspendPerson, UnsuspendPerson, Ask, Enqueue, Kinds
<1>4. NoneLeft'
  BY <1>1, <1>2 DEF Gone, NoneLeft, SuspendPerson, UnsuspendPerson, Ask, Database
<1>5. ToCome'
  BY <1>1, <1>3 DEF Gone, ToCome, Destroying
<1> QED BY <1>1, <1>4, <1>5 DEF Gone, Ahead, Apart, Traced, FoundThere, Unfollowed, Excused, Left

LEMMA TravelGone ==
  ASSUME RemovalInv, Gone, NEW p \in Posts, Travel(p)
  PROVE  Gone'
<1>1. UNCHANGED <<account, followed, jobs, purge, begun, together, dropped, unfinished>>
  BY DEF Travel, CheckAccount, WritePost, FanOut, FindPost, PushPost, Database, Pasts
<1>2. /\ kept \subseteq kept' /\ kept' \subseteq kept \cup {p}
      /\ late \subseteq late' /\ (begun => kept' \subseteq kept \cup late')
      /\ account = "destroyed" => kept' = kept
  BY DEF Travel, CheckAccount, WritePost, FanOut, FindPost, PushPost, Database, Pasts
<1>3. Ahead'
  BY <1>1, <1>2 DEF Gone, Ahead, InPurge, Steps
<1>4. NoneLeft'
  BY <1>1, <1>2 DEF Gone, NoneLeft
<1>5. ToCome'
  BY <1>1, <1>2 DEF Gone, ToCome, Destroying
<1>6. Apart'
  BY <1>1 DEF Gone, Apart
<1>7. \A u \in Sidekiq : Left(u)' = Left(u)
  BY <1>1 DEF Left
<1>8. way \in [Posts -> Ways]
  BY DEF RemovalInv, SuspensionTypeOK
<1>9. CASE PushPost(p)
  <2>1. p \in kept \cup Excused /\ feed' = feed \cup {p} /\ UNCHANGED <<kept, late>>
    BY <1>9 DEF Gone, FoundThere, PushPost, Along, Database, Pasts
  <2>2. Traced'
    BY <1>1, <1>7, <2>1 DEF Gone, Traced, Excused
  <2>3. FoundThere'
    BY <1>1, <1>8, <1>9, <2>1 DEF Gone, FoundThere, Excused, PushPost, Along
  <2>4. Unfollowed'
    BY <1>1, <2>1 DEF Gone, Unfollowed, NoneLeft, Excused
  <2> QED BY <1>3, <1>4, <1>5, <1>6, <2>2, <2>3, <2>4 DEF Gone
<1>10. CASE ~ PushPost(p)
  <2>1. UNCHANGED feed /\ (way'[p] = "found" => p \in kept)
    BY <1>8, <1>10 DEF Travel, CheckAccount, WritePost, FanOut, FindPost, Along, Database
  <2>2. Traced' /\ Unfollowed'
    BY <1>1, <1>2, <1>7, <2>1 DEF Gone, Traced, Unfollowed, Excused
  <2>3. \A q \in Posts \ {p} : way'[q] = way[q]
    BY <1>8 DEF Travel, CheckAccount, WritePost, FanOut, FindPost, PushPost, Along
  <2>4. FoundThere'
    BY <1>1, <1>2, <2>1, <2>3 DEF Gone, FoundThere, Excused
  <2> QED BY <1>3, <1>4, <1>5, <1>6, <2>2, <2>4 DEF Gone
<1> QED BY <1>9, <1>10

LEMMA TakeGone ==
  ASSUME RemovalInv, Gone, NEW w \in Sidekiq, NEW k \in Kinds, Take(w, k)
  PROVE  Gone'
<1>1. jobs \in [Kinds -> Nat] /\ purge \in [Sidekiq -> Purges]
  BY DEF RemovalInv, SuspensionTypeOK, Purges
<1>2. UNCHANGED <<account, followed, kept, way, feed, begun, together, late, dropped, unfinished>>
  BY DEF Take, Database, Pasts
<1>3. jobs'["suspend"] \in Nat /\ (k # "suspend" => jobs'["suspend"] = jobs["suspend"])
  BY <1>1 DEF Take, Kinds
<1>4. purge[w].at = "idle" /\ purge[w].at \notin Steps /\ ~ Destroying(w)
  BY DEF Take, Destroying, Steps
<1>5. unfinished' \in BOOLEAN
  BY <1>2 DEF RemovalInv, SuspensionTypeOK
<1>6. CASE Ignored(k)
  <2>1. UNCHANGED purge
    BY <1>6 DEF Take
  <2>2. k = "suspend" => kept = {}
    BY <1>6 DEF Ignored, Gone, NoneLeft
  <2>3. Others(w) /\ purge'[w].at \notin InPurge /\ purge'[w].left \subseteq purge'[w].batch
    BY <1>4, <2>1 DEF Others, InPurge, Steps, Gone, Ahead
  <2>4. jobs'["suspend"] >= jobs["suspend"] \/ kept = {}
    BY <1>1, <1>3, <2>2 DEF Kinds
  <2> QED BY <1>2, <1>3, <1>4, <1>5, <2>3, <2>4, IdleGone
<1>7. CASE ~ Ignored(k)
  <2>1. purge' = [purge EXCEPT ![w] = [NoPurge EXCEPT !.kind = k, !.active = (account = "active"),
                                                        !.at = IF k = "delete" THEN "lock" ELSE "save"]]
    BY <1>7 DEF Take
  <2>2. /\ Others(w) /\ purge'[w].kind = k /\ purge'[w].at \in {"lock", "save"}
        /\ purge'[w].left = {} /\ purge'[w].batch = {}
    BY <1>1, <2>1 DEF NoPurge, Others
  <2>3. jobs'["suspend"] >= jobs["suspend"] \/ Destroying(w)'
    BY <1>1, <1>3, <2>2 DEF Destroying, Kinds
  <2>4. purge'[w].at \notin InPurge
    BY <2>2 DEF InPurge, Steps
  <2> QED BY <1>2, <1>3, <1>4, <1>5, <2>2, <2>3, <2>4, IdleGone
<1> QED BY <1>6, <1>7

LEMMA KeyGone ==
  ASSUME RemovalInv, Gone, NEW w \in Sidekiq, Lock(w) \/ Unlock(w)
  PROVE  Gone'
<1>1. purge[w].kind = "delete" /\ purge[w].at \in {"lock", "unlock"}
  BY DEF RemovalInv, Busy, Lock, Unlock
<1>2. UNCHANGED <<account, followed, kept, way, feed, jobs, begun, together, late, dropped, unfinished>>
  BY DEF Lock, Unlock, Database, Pasts
<1>3. jobs["suspend"] \in Nat /\ unfinished \in BOOLEAN
  BY DEF RemovalInv, SuspensionTypeOK, Kinds
<1>4. jobs'["suspend"] \in Nat /\ jobs'["suspend"] >= jobs["suspend"] /\ unfinished' \in BOOLEAN
  BY <1>2, <1>3
<1>5. Others(w) /\ purge'[w].at \in {"unlock", "save", "idle"} /\ purge'[w].left \subseteq purge'[w].batch
  <2>1. CASE Lock(w)
    BY <2>1, StepMoves DEF Lock, Gone, Ahead
  <2>2. CASE Unlock(w)
    BY <2>2, OutMoves DEF Unlock
  <2> QED BY <2>1, <2>2
<1>6. ~ Destroying(w) /\ purge[w].at \notin Steps /\ purge'[w].at \notin InPurge
  BY <1>1, <1>5 DEF Destroying, Steps, InPurge
<1> QED BY <1>2, <1>4, <1>5, <1>6, IdleGone

-----------------------------------------------------------------------------
LEMMA SaveGone ==
  ASSUME RemovalInv, Gone, NEW w \in Sidekiq, SaveProfile(w)
  PROVE  Gone'
<1>1. /\ Others(w) /\ purge'[w].at = "read"
      /\ purge'[w].batch = purge[w].batch /\ purge'[w].left = purge[w].left
  BY StepMoves DEF SaveProfile
<1>2. /\ UNCHANGED <<followed, way, kept, feed, jobs, late, dropped, unfinished>>
      /\ begun' /\ (account' = "destroyed" => account = "destroyed")
      /\ purge[w].at = "save"
  BY DEF SaveProfile
<1>3. ~ together' => ~ together /\ \A u \in Sidekiq : purge[u].at \notin InPurge
  BY DEF SaveProfile, InPurge, RemovalInv, SuspensionTypeOK
<1>4. Ahead'
  BY <1>1, <1>2 DEF Gone, Ahead, Others
<1>5. Apart'
  BY <1>1, <1>3 DEF Apart, Others
<1>6. NoneLeft' /\ FoundThere'
  BY <1>2 DEF Gone, NoneLeft, FoundThere, Excused
<1>7. Unfollowed'
  BY <1>2, <1>3 DEF Gone, Unfollowed, Excused
<1>8. Traced'
  <2>1. \A u \in Sidekiq : Left(u) \subseteq Left(u)'
    BY <1>1, <1>2 DEF Left, Others
  <2> QED BY <1>2, <1>3, <2>1 DEF Gone, Traced, Excused
<1>9. ToCome'
  BY <1>1 DEF ToCome, Destroying
<1> QED BY <1>4, <1>5, <1>6, <1>7, <1>8, <1>9 DEF Gone

LEMMA ReadGone ==
  ASSUME RemovalInv, Gone, NEW w \in Sidekiq, ReadBatch(w)
  PROVE  Gone'
<1>1. purge \in [Sidekiq -> Purges] /\ purge[w] \in Purges
  BY DEF RemovalInv, SuspensionTypeOK, Purges
<1>2. /\ Others(w)
      /\ purge'[w].at = IF kept = {} THEN "unfollow" ELSE "destroy"
      /\ purge'[w].batch = kept /\ purge'[w].left = kept
  BY <1>1 DEF ReadBatch, Others, Purges
<1>3. UNCHANGED <<account, followed, way, kept, feed, jobs, begun, together, late, dropped, unfinished>>
  BY DEF ReadBatch, Database, Pasts
<1>4. purge[w].at = "read" /\ "read" \in InPurge
  BY DEF ReadBatch, InPurge, Steps
<1>5. Ahead'
  BY <1>2, <1>3, <1>4 DEF Gone, Ahead, Others
<1>6. Apart'
  BY <1>2, <1>3, <1>4 DEF Gone, Apart, Others
<1>7. NoneLeft' /\ FoundThere' /\ Unfollowed'
  BY <1>3 DEF Gone, NoneLeft, FoundThere, Unfollowed, Excused
<1>8. Traced'
  <2>1. \A u \in Sidekiq : Left(u) \subseteq Left(u)'
    BY <1>2, <1>4 DEF Left, Others
  <2> QED BY <1>3, <2>1 DEF Gone, Traced, Excused
<1>9. ToCome'
  <2>1. kept # {} => Destroying(w)'
    BY <1>2 DEF Destroying
  <2> QED BY <1>3, <2>1 DEF ToCome
<1> QED BY <1>5, <1>6, <1>7, <1>8, <1>9 DEF Gone

LEMMA DestroyGone ==
  ASSUME RemovalInv, Gone, NEW w \in Sidekiq, NEW p \in Posts, DestroyPost(w, p)
  PROVE  Gone'
<1>1. purge \in [Sidekiq -> Purges] /\ purge[w] \in Purges
  BY DEF RemovalInv, SuspensionTypeOK, Purges
<1>2. /\ Others(w)
      /\ purge'[w].at = IF purge[w].left = {p} THEN "unpush" ELSE "destroy"
      /\ purge'[w].batch = purge[w].batch /\ purge'[w].left = purge[w].left \ {p}
  BY <1>1 DEF DestroyPost, Others, Purges
<1>3. /\ UNCHANGED <<account, followed, way, feed, jobs, begun, together, late, unfinished>>
      /\ kept' = kept \ {p} /\ dropped \subseteq dropped'
      /\ way[p] = "found" => p \in dropped'
  BY DEF DestroyPost
<1>4. purge[w].at = "destroy" /\ "destroy" \in InPurge /\ p \in purge[w].left
  BY DEF DestroyPost, InPurge, Steps
<1>5. kept \subseteq late \cup purge[w].left /\ purge[w].left \subseteq purge[w].batch
  BY <1>4 DEF Gone, Ahead
<1>6. Ahead'
  BY <1>2, <1>3, <1>4, <1>5 DEF Gone, Ahead, Others
<1>7. Apart'
  BY <1>2, <1>3, <1>4 DEF Gone, Apart, Others
<1>8. NoneLeft' /\ FoundThere' /\ Unfollowed'
  BY <1>3 DEF Gone, NoneLeft, FoundThere, Unfollowed, Excused
<1>9. Traced'
  <2>1. \A u \in Sidekiq : Left(u) \subseteq Left(u)'
    BY <1>2, <1>4 DEF Left, Others
  <2>2. p \in Left(w)'
    BY <1>2, <1>4, <1>5 DEF Left
  <2> QED BY <1>3, <2>1, <2>2 DEF Gone, Traced, Excused
<1>10. ToCome'
  <2>1. kept' \subseteq late' \/ Destroying(w)'
    BY <1>2, <1>3, <1>5 DEF Destroying
  <2> QED BY <2>1 DEF ToCome
<1> QED BY <1>6, <1>7, <1>8, <1>9, <1>10 DEF Gone

LEMMA UnpushGone ==
  ASSUME RemovalInv, Gone, NEW w \in Sidekiq, UnpushBatch(w)
  PROVE  Gone'
<1>1. /\ Others(w) /\ purge'[w].at = "unfollow"
      /\ purge'[w].batch = purge[w].batch /\ purge'[w].left = purge[w].left
  BY StepMoves DEF UnpushBatch
<1>2. /\ UNCHANGED <<account, followed, way, kept, jobs, begun, together, late, dropped, unfinished>>
      /\ feed' = IF followed THEN feed \ purge[w].batch ELSE feed
      /\ purge[w].at = "unpush" /\ "unpush" \in InPurge
  BY DEF UnpushBatch, Database, Pasts, InPurge, Steps
<1>3. kept \subseteq late
  BY <1>2 DEF Gone, Ahead
<1>4. Ahead'
  BY <1>1, <1>2, <1>3 DEF Gone, Ahead, Others
<1>5. Apart'
  BY <1>1, <1>2 DEF Gone, Apart, Others
<1>6. NoneLeft' /\ FoundThere' /\ Unfollowed' /\ ToCome'
  BY <1>2, <1>3 DEF Gone, NoneLeft, FoundThere, Unfollowed, ToCome, Excused
<1>7. Traced'
  <2>1. \A u \in Sidekiq : Left(u) \subseteq Left(u)' \cup purge[w].batch
    BY <1>1 DEF Left, Others
  <2>2. CASE followed
    BY <1>2, <2>1, <2>2 DEF Gone, Traced, Excused
  <2>3. CASE ~ followed
    BY <1>2, <2>3 DEF Gone, Unfollowed, Traced, Excused
  <2> QED BY <2>2, <2>3
<1> QED BY <1>4, <1>5, <1>6, <1>7 DEF Gone

LEMMA EndGone ==
  ASSUME RemovalInv, Gone, NEW w \in Sidekiq, DestroyFollows(w)
  PROVE  Gone'
<1>1. purge \in [Sidekiq -> Purges] /\ purge[w] \in Purges
  BY DEF RemovalInv, SuspensionTypeOK, Purges
<1>2. /\ Others(w) /\ purge'[w].at \in {"raze", "idle"}
      /\ purge'[w].left \subseteq purge'[w].batch
  <2>1. CASE purge[w].kind = "delete"
    BY <1>1, <2>1 DEF DestroyFollows, Others, Purges, Gone, Ahead
  <2>2. CASE purge[w].kind # "delete"
    BY <2>2, OutMoves DEF DestroyFollows
  <2> QED BY <2>1, <2>2
<1>3. /\ UNCHANGED <<account, way, kept, feed, jobs, begun, together, late, dropped>>
      /\ ~ followed' /\ ~ unfinished'
      /\ purge[w].at = "unfollow" /\ "unfollow" \in InPurge
  BY DEF DestroyFollows, InPurge, Steps
<1>4. kept \subseteq late /\ begun
  BY <1>3 DEF Gone, Ahead
<1>5. Ahead'
  BY <1>2, <1>3, <1>4 DEF Gone, Ahead, Others
<1>6. Apart'
  BY <1>2, <1>3 DEF Gone, Apart, Others, InPurge
<1>7. NoneLeft' /\ FoundThere' /\ ToCome'
  BY <1>3, <1>4 DEF Gone, NoneLeft, FoundThere, ToCome, Excused
<1>8. ~ together => \A u \in Sidekiq : Left(u) = {}
  BY <1>3 DEF Gone, Apart, Left, InPurge, Steps
<1>9. Traced' /\ Unfollowed'
  BY <1>3, <1>4, <1>8 DEF Gone, Traced, Unfollowed, Excused
<1> QED BY <1>5, <1>6, <1>7, <1>9 DEF Gone

LEMMA RazeGone ==
  ASSUME RemovalInv, Gone, NEW w \in Sidekiq, DestroyAccount(w)
  PROVE  Gone'
<1>1. /\ Others(w) /\ purge'[w].at = "unlock"
      /\ purge'[w].batch = purge[w].batch /\ purge'[w].left = purge[w].left
  BY StepMoves DEF DestroyAccount
<1>2. /\ UNCHANGED <<way, feed, jobs, begun, together, late, dropped, unfinished>>
      /\ kept' = {} /\ ~ followed' /\ purge[w].at = "raze" /\ "raze" \in InPurge
  BY DEF DestroyAccount, Pasts, InPurge, Steps
<1>3. ~ followed /\ begun /\ kept \subseteq late
  BY <1>2 DEF Gone, Ahead
<1>4. Ahead'
  BY <1>1, <1>2 DEF Gone, Ahead, Others, InPurge
<1>5. Apart'
  BY <1>1, <1>2 DEF Gone, Apart, Others, InPurge
<1>6. NoneLeft' /\ FoundThere' /\ ToCome' /\ Unfollowed' /\ Traced'
  BY <1>2, <1>3 DEF Gone, NoneLeft, FoundThere, ToCome, Unfollowed, Traced, Excused
<1> QED BY <1>4, <1>5, <1>6 DEF Gone

LEMMA CutGone ==
  ASSUME RemovalInv, Gone, NEW w \in Sidekiq, Stop(w) \/ Kill(w)
  PROVE  Gone'
<1>1. purge' = [purge EXCEPT ![w] = NoPurge]
  BY DEF Stop, Kill
<1>2. /\ Others(w) /\ purge'[w].at = "idle"
      /\ purge'[w].batch = {} /\ purge'[w].left = {}
  BY <1>1, OutMoves
<1>3. /\ UNCHANGED <<account, followed, way, kept, feed, begun, together, late>>
      /\ dropped' = dropped \cup Left(w)
      /\ unfinished => unfinished'
  BY DEF Stop, Kill, Database
<1>4. Ahead'
  BY <1>2, <1>3 DEF Gone, Ahead, Others, InPurge, Steps
<1>5. Apart'
  BY <1>2, <1>3 DEF Gone, Apart, Others, InPurge, Steps
<1>6. NoneLeft' /\ FoundThere' /\ Unfollowed'
  BY <1>3 DEF Gone, NoneLeft, FoundThere, Unfollowed, Excused
<1>7. Traced'
  <2>1. \A u \in Sidekiq \ {w} : Left(u)' = Left(u)
    BY <1>2 DEF Left, Others
  <2> QED BY <1>3, <2>1 DEF Gone, Traced, Excused
<1>8. ToCome'
  <2>1. CASE Kill(w)
    BY <2>1 DEF Kill, ToCome
  <2>2. CASE Stop(w)
    <3>1. jobs \in [Kinds -> Nat] /\ purge[w].kind \in Kinds
      BY <2>2 DEF RemovalInv, SuspensionTypeOK, Busy, Stop
    <3>2. /\ jobs'["suspend"] = IF purge[w].kind = "suspend" THEN jobs["suspend"] + 1 ELSE jobs["suspend"]
          /\ jobs["suspend"] \in Nat
      BY <2>2, <3>1 DEF Stop, Enqueue, Kinds
    <3>3. Destroying(w) /\ purge[w].kind # "suspend" => unfinished'
      BY <2>2 DEF Destroying, Stop, Steps
    <3>4. \A u \in Sidekiq \ {w} : Destroying(u) => Destroying(u)'
      BY <1>2 DEF Destroying, Others
    <3> QED BY <1>3, <3>2, <3>3, <3>4 DEF Gone, ToCome
  <2> QED BY <2>1, <2>2
<1> QED BY <1>4, <1>5, <1>6, <1>7, <1>8 DEF Gone

-----------------------------------------------------------------------------
LEMMA InitGone == SuspensionInit => Gone
<1> SUFFICES ASSUME SuspensionInit PROVE Gone
  OBVIOUS
<1>1. \A w \in Sidekiq : purge[w].at = "idle" /\ purge[w].left = {} /\ purge[w].batch = {}
  BY DEF SuspensionInit, NoPurge
<1>2. Ahead /\ Apart
  BY <1>1 DEF Ahead, Apart, InPurge, Steps
<1> QED BY <1>2 DEF SuspensionInit, Gone, NoneLeft, Traced, FoundThere, Unfollowed, ToCome

LEMMA GoneHolds == RemovalInv /\ Gone /\ [SuspensionNext]_suspensionVars => Gone'
<1> SUFFICES ASSUME RemovalInv, Gone, [SuspensionNext]_suspensionVars PROVE Gone'
  OBVIOUS
<1>1. CASE UNCHANGED suspensionVars
  BY <1>1 DEF suspensionVars, Gone, Ahead, Apart, NoneLeft, Traced, FoundThere, Unfollowed, ToCome,
              Excused, Left, Destroying
<1>2. ASSUME NEW w \in Sidekiq, Purge(w) PROVE Gone'
  BY <1>2, TakeGone, KeyGone, SaveGone, ReadGone, DestroyGone, UnpushGone, EndGone, RazeGone, CutGone DEF Purge
<1> QED BY <1>1, <1>2, OrderGone, TravelGone DEF SuspensionNext

\* However many threads, posts, orders, shutdowns and killed processes there
\* are: when a purge is over and nothing is under way, what the person had posted
\* is gone from the database and from the feeds, but for the posts that
\* PurgedIsGone excepts (SuspendAccountService#purge_content!).
THEOREM NothingStays == SuspensionSpec => []PurgedIsGone
<1>1. RemovalInv /\ Gone => PurgedIsGone
  <2> SUFFICES ASSUME RemovalInv, Gone, Quiet, begun, ~ unfinished
               PROVE  kept \subseteq late /\ (together \/ feed \subseteq (late \cup dropped))
    BY DEF PurgedIsGone
  <2>1. \A w \in Sidekiq : Left(w) = {} /\ ~ Destroying(w)
    BY DEF Quiet, Left, Destroying
  <2>2. kept \subseteq late
    BY <2>1 DEF Gone, ToCome, Quiet, Kinds
  <2> QED BY <2>1, <2>2 DEF Gone, Traced, Excused
<1> QED BY <1>1, RemovalNext, InitGone, GoneHolds, PTL DEF SuspensionSpec
=============================================================================
