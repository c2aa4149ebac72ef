--------------------------- MODULE FederationProofs ---------------------------
(* What holds between servers: of a follow for any number of follows,    *)
(* blocks and repeats, of a relay for any number of threads and Follows. *)
EXTENDS Follows, Relays, TLAPS

LEMMA Fields ==
  ASSUME NEW r \in Rows
  PROVE  /\ \A i \in 0..MaxFollows : [r EXCEPT !.follow = i] \in Rows /\ [r EXCEPT !.request = i] \in Rows
         /\ \A i \in 0..MaxFollows, j \in 0..MaxFollows : [r EXCEPT !.follow = i, !.request = j] \in Rows
         /\ \A i \in 0..MaxBlocks : [r EXCEPT !.block = i] \in Rows /\ [r EXCEPT !.follow = 0, !.block = i] \in Rows
         /\ \A S \in SUBSET (Attempts \cup Blocks) : [r EXCEPT !.mark = S] \in Rows
         /\ r.follow \in 0..MaxFollows /\ r.request \in 0..MaxFollows /\ r.block \in 0..MaxBlocks
         /\ r.mark \in SUBSET (Attempts \cup Blocks)
<1>1. 0 \in 0..MaxFollows
  BY FollowsAssumption
<1> QED BY <1>1 DEF Rows

LEMMA Numbers ==
  /\ 0 \in 0..MaxFollows /\ 0 \in 0..MaxBlocks
  /\ \A i \in 0..MaxFollows : i # 0 => i \in Attempts
  /\ \A i \in 0..MaxBlocks : i # 0 => i \in Blocks
  /\ Attempts \subseteq 0..MaxFollows /\ Blocks \subseteq 0..MaxBlocks
BY FollowsAssumption DEF Attempts, Blocks

LEMMA Written ==
  /\ \A i \in Attempts, t \in {"Follow", "UndoFollow", "Accept", "Reject"} : Activity(t, i) \in Activities
  /\ \A i \in Blocks, t \in {"Block", "UndoBlock"} : Activity(t, i) \in Activities
BY DEF Activity, Activities

LEMMA Read ==
  ASSUME NEW m \in Activities
  PROVE  /\ m.type \in {"Follow", "UndoFollow", "Accept", "Reject"} => m.id \in Attempts
         /\ m.type \in {"Block", "UndoBlock"} => m.id \in Blocks
BY DEF Activities

\* What unfollowing and authorizing make of the rows
LEMMA RowsMade ==
  ASSUME NEW r \in Rows
  PROVE  /\ Unfollowed(r) \in Rows /\ Undo(r) \subseteq Activities
         /\ \A i \in 0..MaxFollows : Authorized(r, i) \in Rows
<1>1. Unfollowed(r) \in Rows
  BY Fields, Numbers DEF Unfollowed
<1>2. Undo(r) \subseteq Activities
  BY Fields, Numbers, Written DEF Undo
<1>3. ASSUME NEW i \in 0..MaxFollows PROVE Authorized(r, i) \in Rows
  <2>1. r.follow \in 0..MaxFollows /\ 0 \in 0..MaxFollows
    BY Fields, Numbers
  <2>2. CASE r.follow = 0
    BY <2>1, <2>2 DEF Authorized, Rows
  <2>3. CASE r.follow # 0
    BY <2>1, <2>3 DEF Authorized, Rows
  <2> QED BY <2>2, <2>3
<1> QED BY <1>1, <1>2, <1>3

LEMMA RestType ==
  ASSUME TypeOK, NEW m \in wire, Arrive(m)
  PROVE  /\ Rest(m) \subseteq Activities /\ repeats' \in 0..MaxRepeats /\ crossed' \in BOOLEAN
         /\ attempts' \in 0..MaxFollows /\ blocks' \in 0..MaxBlocks
<1>1. repeats' \in 0..MaxRepeats
  BY FollowsAssumption DEF TypeOK, Arrive
<1> QED BY <1>1 DEF TypeOK, Arrive, Rest

-----------------------------------------------------------------------------
LEMMA InitTypes == Init => TypeOK
<1>1. NoRows \in Rows
  BY Numbers DEF NoRows, Rows
<1>2. 0 \in 0..MaxRepeats
  BY FollowsAssumption
<1> QED BY <1>1, <1>2, Numbers DEF Init, TypeOK

LEMMA FollowerTypes ==
  ASSUME TypeOK, Follow \/ Unfollow
  PROVE  TypeOK'
<1>1. CASE Follow
  <2>1. attempts' \in 0..MaxFollows /\ attempts' \in Attempts
    BY <1>1, FollowsAssumption DEF Follow, TypeOK, Attempts
  <2>2. here' \in Rows
    BY <1>1, <2>1, Fields DEF Follow, TypeOK
  <2>3. wire' \subseteq Activities
    BY <1>1, <2>1, Written DEF Follow, TypeOK
  <2>4. crossed' \in BOOLEAN
    BY <1>1 DEF Follow, TypeOK
  <2> QED BY <1>1, <2>1, <2>2, <2>3, <2>4 DEF Follow, TypeOK
<1>2. CASE Unfollow
  <2>1. here' \in Rows /\ wire' \subseteq Activities
    BY <1>2, RowsMade DEF Unfollow, TypeOK
  <2> QED BY <1>2, <2>1 DEF Unfollow, TypeOK
<1> QED BY <1>1, <1>2

LEMMA FollowedTypes ==
  ASSUME TypeOK, Authorize \/ Refuse \/ Block \/ Unblock
  PROVE  TypeOK'
<1>0. there \in Rows
  BY DEF TypeOK
<1>1. CASE Authorize
  <2>1. there.request \in Attempts /\ there.request \in 0..MaxFollows
    BY <1>0, <1>1, Fields, Numbers DEF Authorize
  <2>2. there' \in Rows
    BY <1>0, <1>1, <2>1, RowsMade DEF Authorize
  <2>3. wire' \subseteq Activities
    BY <1>1, <2>1, Written DEF Authorize, TypeOK
  <2> QED BY <1>1, <2>2, <2>3 DEF Authorize, TypeOK
<1>2. CASE Refuse
  <2>1. there.request \in Attempts
    BY <1>0, <1>2, Fields, Numbers DEF Refuse
  <2>2. there' \in Rows
    BY <1>0, <1>2, Fields, Numbers DEF Refuse
  <2>3. wire' \subseteq Activities
    BY <1>2, <2>1, Written DEF Refuse, TypeOK
  <2> QED BY <1>2, <2>2, <2>3 DEF Refuse, TypeOK
<1>3. CASE Block
  <2>1. blocks' \in 0..MaxBlocks /\ blocks' \in Blocks
    BY <1>3, FollowsAssumption DEF Block, TypeOK, Blocks
  <2>2. there' \in Rows
    BY <1>0, <1>3, <2>1, Fields DEF Block
  <2>3. wire' \subseteq Activities
    BY <1>3, <2>1, Written DEF Block, TypeOK
  <2>4. crossed' \in BOOLEAN
    BY <1>3 DEF Block, TypeOK
  <2> QED BY <1>3, <2>1, <2>2, <2>3, <2>4 DEF Block, TypeOK
<1>4. CASE Unblock
  <2>1. there.block \in Blocks
    BY <1>0, <1>4, Fields, Numbers DEF Unblock
  <2>2. there' \in Rows
    BY <1>0, <1>4, Fields, Numbers DEF Unblock
  <2>3. wire' \subseteq Activities
    BY <1>4, <2>1, Written DEF Unblock, TypeOK
  <2>4. crossed' \in BOOLEAN
    BY <1>4 DEF Unblock, TypeOK
  <2> QED BY <1>4, <2>2, <2>3, <2>4 DEF Unblock, TypeOK
<1> QED BY <1>1, <1>2, <1>3, <1>4

LEMMA HandleTypes ==
  ASSUME TypeOK, NEW m \in wire, Handle(m)
  PROVE  TypeOK'
<1>0. m \in Activities /\ here \in Rows /\ there \in Rows
  BY DEF TypeOK
<1>1. Arrive(m)
  BY DEF Handle, HandleFollow, HandleUndoFollow, HandleAccept, HandleReject, HandleBlock, HandleUndoBlock
<1>2. SUFFICES here' \in Rows /\ there' \in Rows /\ wire' \subseteq Activities
  BY <1>1, RestType DEF TypeOK
<1>3. CASE HandleFollow(m)
  <2>1. m.id \in Attempts /\ m.id \in 0..MaxFollows
    BY <1>0, <1>3, Read, Numbers DEF HandleFollow
  <2>2. there' \in Rows
    BY <1>0, <1>3, <2>1, Fields, RowsMade DEF HandleFollow
  <2>3. wire' \subseteq Activities
    BY <1>1, <1>3, <2>1, RestType, Written DEF HandleFollow
  <2> QED BY <1>0, <1>3, <2>2, <2>3 DEF HandleFollow
<1>4. CASE HandleUndoFollow(m)
  <2>1. there.mark \cup {m.id} \in SUBSET (Attempts \cup Blocks)
    BY <1>0, <1>4, Read, Fields DEF HandleUndoFollow
  <2>2. there' \in Rows
    BY <1>0, <1>4, <2>1, Fields, RowsMade DEF HandleUndoFollow
  <2> QED BY <1>0, <1>1, <1>4, <2>2, RestType DEF HandleUndoFollow
<1>5. CASE HandleAccept(m)
  <2>1. here' \in Rows
    BY <1>0, <1>5, Fields, RowsMade DEF HandleAccept
  <2> QED BY <1>0, <1>1, <1>5, <2>1, RestType DEF HandleAccept
<1>6. CASE HandleReject(m)
  <2>1. here' \in Rows
    <3>1. here' = [[here EXCEPT !.request = 0] EXCEPT !.follow = 0]
      BY <1>0, <1>6 DEF HandleReject, Rows
    <3> QED BY <1>0, <3>1, Fields, Numbers
  <2>2. wire' \subseteq Activities
    BY <1>0, <1>1, <1>6, RestType, RowsMade DEF HandleReject
  <2> QED BY <1>0, <1>6, <2>1, <2>2 DEF HandleReject
<1>7. CASE HandleBlock(m)
  <2>1. m.id \in 0..MaxBlocks
    BY <1>0, <1>7, Read, Numbers DEF HandleBlock
  <2>2. here' \in Rows
    BY <1>0, <1>7, <2>1, Fields DEF HandleBlock
  <2>3. wire' \subseteq Activities
    BY <1>0, <1>1, <1>7, RestType, RowsMade DEF HandleBlock
  <2> QED BY <1>0, <1>7, <2>2, <2>3 DEF HandleBlock
<1>8. CASE HandleUndoBlock(m)
  <2>1. here.mark \cup {m.id} \in SUBSET (Attempts \cup Blocks)
    BY <1>0, <1>8, Read, Fields DEF HandleUndoBlock
  <2>2. here' \in Rows
    BY <1>0, <1>8, <2>1, Fields, Numbers DEF HandleUndoBlock
  <2> QED BY <1>0, <1>1, <1>8, <2>2, RestType DEF HandleUndoBlock
<1> QED BY <1>3, <1>4, <1>5, <1>6, <1>7, <1>8 DEF Handle

LEMMA ForgetTypes ==
  ASSUME TypeOK, NEW i, Forget(i)
  PROVE  TypeOK'
<1>1. here' \in Rows /\ there' \in Rows
  <2>1. here.mark \ {i} \in SUBSET (Attempts \cup Blocks) /\ there.mark \ {i} \in SUBSET (Attempts \cup Blocks)
    BY Fields DEF TypeOK
  <2> QED BY <2>1, Fields DEF TypeOK, Forget
<1>2. crossed' \in BOOLEAN
  BY DEF TypeOK, Forget
<1> QED BY <1>1, <1>2 DEF TypeOK, Forget

LEMMA StepTypes == TypeOK /\ [Next]_vars => TypeOK'
<1>1. ASSUME TypeOK, UNCHANGED vars PROVE TypeOK'
  BY <1>1 DEF vars, TypeOK
<1> QED BY <1>1, FollowerTypes, FollowedTypes, HandleTypes, ForgetTypes DEF Next

\* The rows of both servers stay rows, whatever overtakes what
\* (Activity::Follow, Accept, Reject, Block and Undo).
THEOREM TypeCorrect == Spec => []TypeOK
BY InitTypes, StepTypes, PTL DEF Spec

-----------------------------------------------------------------------------
(* The two servers agree *)

BlockTypes  == {"Block", "UndoBlock"}
FollowTypes == {"Follow", "UndoFollow", "Accept", "Reject"}

\* What is under way is about the last follow and the last block
Newest(t) == IF t \in BlockTypes THEN blocks ELSE attempts

On(t) == Activity(t, Newest(t)) \in wire

OnlyNewest == \A m \in wire : m.id = Newest(m.type)

\* Just these are under way about the follow, and about the block
Talk(ts)  == \A t \in FollowTypes : On(t) <=> t \in ts
Noise(ts) == \A t \in BlockTypes : On(t) <=> t \in ts

\* No mark for what may yet be sent, or handled
Marks == here.mark = {} /\ there.mark \subseteq 1..attempts

Here(f, r)  == here.follow = f /\ here.request = r
There(f, r) == there.follow = f /\ there.request = r

\* The life of a follow, as the follower's server has it: it is asked for,
Asking ==
  /\ Here(0, attempts) /\ attempts \notin there.mark
  /\ \/ There(0, 0) /\ (Talk({"Follow"}) \/ Talk({"Reject"}))
     \/ There(0, attempts) /\ Talk({})
     \/ There(attempts, 0) /\ Talk({"Accept"})

\* it is accepted, and perhaps the follower is blocked and not told yet,
Following ==
  /\ Here(attempts, 0) /\ attempts \notin there.mark /\ Talk({})
  /\ There(attempts, 0) \/ (There(0, 0) /\ On("Block"))

\* it is undone and the other server not told yet,
Leaving ==
  /\ Here(0, 0) /\ attempts \notin there.mark
  /\ \/ There(0, 0) /\ (Talk({"UndoFollow"}) \/ Talk({"Follow", "UndoFollow"}) \/ Talk({"Reject", "UndoFollow"}))
     \/ There(0, attempts) /\ Talk({"UndoFollow"})
     \/ There(attempts, 0) /\ (Talk({"UndoFollow"}) \/ Talk({"Accept", "UndoFollow"}))

\* and over, but for an answer, or for a Follow that comes after its Undo
Over ==
  /\ Here(0, 0) /\ There(0, 0)
  /\ \/ Talk({}) \/ Talk({"Accept"}) \/ Talk({"Reject"})
     \/ Talk({"Follow"}) /\ attempts \in there.mark

FollowAgreed == (attempts # 0 /\ (Asking \/ Following \/ Leaving)) \/ Over

BlockAgreed ==
  \/ here.block = there.block /\ there.block \in {0, blocks} /\ Noise({})
  \/ blocks # 0 /\ here.block = 0 /\ there.block = blocks /\ Noise({"Block"})
  \/ blocks # 0 /\ here.block = blocks /\ there.block = 0 /\ Noise({"UndoBlock"})

Agreed == OnlyNewest /\ Marks /\ FollowAgreed /\ BlockAgreed

Uncrossed == ~ crossed => Agreed

LEMMA Apart ==
  ASSUME NEW t, NEW u, NEW i, NEW j
  PROVE  Activity(t, i) = Activity(u, j) <=> t = u /\ i = j
<1>1. Activity(t, i).type = t /\ Activity(u, j).type = u /\ Activity(t, i).id = i /\ Activity(u, j).id = j
  BY DEF Activity
<1> QED BY <1>1 DEF Activity

LEMMA OfType ==
  ASSUME NEW t, NEW i
  PROVE  Activity(t, i).type = t /\ Activity(t, i).id = i
BY DEF Activity

LEMMA Known ==
  ASSUME TypeOK, OnlyNewest, NEW m \in wire
  PROVE  m = Activity(m.type, Newest(m.type)) /\ m.type \in FollowTypes \cup BlockTypes
<1>1. m \in Activities
  BY DEF TypeOK
<1>2. m.type \in FollowTypes \cup BlockTypes /\ m = [type |-> m.type, id |-> m.id]
  BY <1>1 DEF Activities, FollowTypes, BlockTypes
<1> QED BY <1>2 DEF OnlyNewest, Activity

\* What is under way about the last follow or block, after a step that takes
\* out what is in W and adds what is in V
LEMMA Exchanged ==
  ASSUME TypeOK, OnlyNewest, NEW W, NEW V,
         wire' = (wire \ W) \cup V, attempts' = attempts, blocks' = blocks,
         \A v \in V : v.id = Newest(v.type)
  PROVE  /\ OnlyNewest'
         /\ \A t : On(t)' <=> (On(t) /\ Activity(t, Newest(t)) \notin W) \/ Activity(t, Newest(t)) \in V
<1>1. \A t : Newest(t)' = Newest(t)
  BY DEF Newest
<1>2. OnlyNewest'
  BY <1>1 DEF OnlyNewest
<1>3. ASSUME NEW t
      PROVE  On(t)' <=> (On(t) /\ Activity(t, Newest(t)) \notin W) \/ Activity(t, Newest(t)) \in V
  <2>1. On(t)' <=> Activity(t, Newest(t)) \in wire'
    BY <1>1 DEF On, Activity
  <2> QED BY <2>1 DEF On
<1> QED BY <1>2, <1>3

\* Something about the same is sent
LEMMA Sent ==
  ASSUME TypeOK, OnlyNewest, NEW u, attempts' = attempts, blocks' = blocks,
         wire' = wire \cup {Activity(u, Newest(u))}
  PROVE  OnlyNewest' /\ \A t : On(t)' <=> On(t) \/ t = u
<1>1. wire' = (wire \ {}) \cup {Activity(u, Newest(u))}
  OBVIOUS
<1>2. \A v \in {Activity(u, Newest(u))} : v.id = Newest(v.type)
  BY OfType
<1>3. \A t : Activity(t, Newest(t)) \in {Activity(u, Newest(u))} <=> t = u
  BY Apart
<1>4. /\ OnlyNewest'
      /\ \A t : On(t)' <=> (On(t) /\ Activity(t, Newest(t)) \notin {})
                           \/ Activity(t, Newest(t)) \in {Activity(u, Newest(u))}
  BY <1>1, <1>2, Exchanged
<1> QED BY <1>3, <1>4

\* An activity is handled and not answered,
LEMMA Handled ==
  ASSUME TypeOK, OnlyNewest, NEW m \in wire, Arrive(m), ~ crossed', wire' = Rest(m)
  PROVE  OnlyNewest' /\ \A t : On(t)' <=> On(t) /\ t # m.type
<1>0. wire' = wire \ {m}
  BY DEF Arrive, Rest
<1>1. PICK V : V = {} /\ wire' = (wire \ {m}) \cup V
  <2> WITNESS {}
  <2> QED BY <1>0
<1>2. \A t : Activity(t, Newest(t)) \in {m} <=> t = m.type
  BY Known, Apart
<1>3. \A v \in V : v.id = Newest(v.type)
  BY <1>1
<1>4. attempts' = attempts /\ blocks' = blocks
  BY DEF Arrive
<1>5. /\ OnlyNewest'
      /\ \A t : On(t)' <=> (On(t) /\ Activity(t, Newest(t)) \notin {m}) \/ Activity(t, Newest(t)) \in V
  BY <1>1, <1>3, <1>4, Exchanged
<1> QED BY <1>1, <1>2, <1>5

\* or handled and answered
LEMMA Answered ==
  ASSUME TypeOK, OnlyNewest, NEW m \in wire, Arrive(m), ~ crossed', NEW u,
         wire' = Rest(m) \cup {Activity(u, Newest(u))}
  PROVE  OnlyNewest' /\ \A t : On(t)' <=> (On(t) /\ t # m.type) \/ t = u
<1>1. wire' = (wire \ {m}) \cup {Activity(u, Newest(u))}
  BY DEF Arrive, Rest
<1>2. \A t : Activity(t, Newest(t)) \in {m} <=> t = m.type
  BY Known, Apart
<1>3. \A v \in {Activity(u, Newest(u))} : v.id = Newest(v.type)
  BY OfType
<1>4. \A t : Activity(t, Newest(t)) \in {Activity(u, Newest(u))} <=> t = u
  BY Apart
<1>5. /\ OnlyNewest'
      /\ \A t : On(t)' <=> (On(t) /\ Activity(t, Newest(t)) \notin {m})
                           \/ Activity(t, Newest(t)) \in {Activity(u, Newest(u))}
  BY <1>1, <1>3, Exchanged DEF Arrive
<1> QED BY <1>2, <1>4, <1>5


\* What of a row is what
LEMMA Columns ==
  ASSUME NEW r \in Rows
  PROVE  /\ \A i : LET q == [r EXCEPT !.follow = i] IN
              q.follow = i /\ q.request = r.request /\ q.block = r.block /\ q.mark = r.mark
         /\ \A i : LET q == [r EXCEPT !.request = i] IN
              q.follow = r.follow /\ q.request = i /\ q.block = r.block /\ q.mark = r.mark
         /\ \A i : LET q == [r EXCEPT !.block = i] IN
              q.follow = r.follow /\ q.request = r.request /\ q.block = i /\ q.mark = r.mark
         /\ \A i, j : LET q == [r EXCEPT !.follow = i, !.block = j] IN
              q.follow = i /\ q.request = r.request /\ q.block = j /\ q.mark = r.mark
         /\ \A i, j : LET q == [r EXCEPT !.request = i, !.follow = j] IN
              q.follow = j /\ q.request = i /\ q.block = r.block /\ q.mark = r.mark
         /\ \A S : LET q == [r EXCEPT !.mark = S] IN
              q.follow = r.follow /\ q.request = r.request /\ q.block = r.block /\ q.mark = S
BY DEF Rows

LEMMA Rewritten ==
  ASSUME NEW r \in Rows
  PROVE  /\ LET q == Unfollowed(r) IN
              /\ q.block = r.block /\ q.mark = r.mark /\ q.follow = 0
              /\ q.request = IF r.follow # 0 THEN r.request ELSE 0
         /\ \A i : LET q == Authorized(r, i) IN
              /\ q.block = r.block /\ q.mark = r.mark /\ q.request = 0
              /\ q.follow = IF r.follow = 0 THEN i ELSE r.follow
<1>1. LET q == Unfollowed(r) IN
        /\ q.block = r.block /\ q.mark = r.mark /\ q.follow = 0
        /\ q.request = IF r.follow # 0 THEN r.request ELSE 0
  <2>1. CASE r.follow # 0
    BY <2>1, Columns DEF Unfollowed
  <2>2. CASE r.follow = 0
    BY <2>2, Columns DEF Unfollowed
  <2> QED BY <2>1, <2>2
<1>2. ASSUME NEW i
      PROVE  LET q == Authorized(r, i) IN
               /\ q.block = r.block /\ q.mark = r.mark /\ q.request = 0
               /\ q.follow = IF r.follow = 0 THEN i ELSE r.follow
  BY DEF Authorized, Rows
<1> QED BY <1>1, <1>2

\* The follow is as it was
LEMMA FollowKept ==
  ASSUME FollowAgreed, attempts' = attempts,
         \A t \in FollowTypes : On(t)' <=> On(t),
         here.follow # 0 /\ On("Block") => On("Block")',
         here'.follow = here.follow, here'.request = here.request,
         there'.follow = there.follow, there'.request = there.request,
         attempts \in there'.mark <=> attempts \in there.mark
  PROVE  FollowAgreed'
<1>1. \A ts : Talk(ts)' <=> Talk(ts)
  BY DEF Talk, FollowTypes
<1>2. Asking => Asking'
  BY <1>1 DEF Asking, Here, There
<1>3. attempts # 0 /\ Following => Following'
  BY <1>1 DEF Following, Here, There
<1>4. Leaving => Leaving'
  BY <1>1 DEF Leaving, Here, There
<1>5. Over => Over'
  BY <1>1 DEF Over, Here, There
<1> QED BY <1>2, <1>3, <1>4, <1>5 DEF FollowAgreed

\* The block is as it was
LEMMA BlockKept ==
  ASSUME BlockAgreed, blocks' = blocks,
         \A t \in BlockTypes : On(t)' <=> On(t),
         here'.block = here.block, there'.block = there.block
  PROVE  BlockAgreed'
<1>1. \A ts : Noise(ts)' <=> Noise(ts)
  BY DEF Noise, BlockTypes
<1> QED BY <1>1 DEF BlockAgreed

LEMMA Types ==
  /\ \A t \in BlockTypes : t \notin FollowTypes
  /\ "Follow" \in FollowTypes /\ "UndoFollow" \in FollowTypes
  /\ "Accept" \in FollowTypes /\ "Reject" \in FollowTypes
  /\ "Block" \in BlockTypes /\ "UndoBlock" \in BlockTypes
BY DEF BlockTypes, FollowTypes

LEMMA Talks ==
  \A ts : Talk(ts) <=> /\ On("Follow") <=> "Follow" \in ts
                       /\ On("UndoFollow") <=> "UndoFollow" \in ts
                       /\ On("Accept") <=> "Accept" \in ts
                       /\ On("Reject") <=> "Reject" \in ts
BY DEF Talk, FollowTypes

LEMMA TalksThen ==
  \A ts : Talk(ts)' <=> /\ On("Follow")' <=> "Follow" \in ts
                        /\ On("UndoFollow")' <=> "UndoFollow" \in ts
                        /\ On("Accept")' <=> "Accept" \in ts
                        /\ On("Reject")' <=> "Reject" \in ts
BY DEF Talk, FollowTypes

LEMMA FollowAgrees ==
  ASSUME TypeOK, Agreed, Follow, ~ crossed'
  PROVE  Agreed'
<1>1. \A m \in wire : m.type \in BlockTypes
  BY Known DEF Follow, UnderWay, Agreed, FollowTypes
<1>2. \A t \in FollowTypes, i \in Nat : Activity(t, i) \notin wire
  BY <1>1, OfType, Types
<1>3. attempts \in Nat /\ attempts' = attempts + 1 /\ blocks' = blocks
  BY FollowsAssumption DEF TypeOK, Follow
<1>4. \A t \in BlockTypes : Newest(t)' = blocks /\ Newest(t) = blocks
  BY <1>3 DEF Newest
<1>5. \A t \in FollowTypes : Newest(t)' = attempts' /\ Newest(t) = attempts
  BY Types DEF Newest
<1>6. OnlyNewest'
  <2> SUFFICES ASSUME NEW m \in wire' PROVE m.id = Newest(m.type)'
    BY DEF OnlyNewest
  <2>1. CASE m \in wire
    BY <1>1, <1>4, <2>1 DEF Agreed, OnlyNewest
  <2>2. CASE m = Activity("Follow", attempts')
    <3>1. m.type \in FollowTypes /\ m.id = attempts'
      BY <2>2, Types, OfType
    <3> QED BY <1>5, <3>1
  <2> QED BY <2>1, <2>2 DEF Follow
<1>7. \A t \in BlockTypes : On(t)' <=> On(t)
  <2>1. \A t \in BlockTypes : Activity(t, blocks) # Activity("Follow", attempts')
    BY Apart, Types
  <2> QED BY <1>4, <2>1 DEF On, Follow
<1>8. Talk({"Follow"})'
  <2>1. \A t \in FollowTypes : Activity(t, attempts') \in wire' <=> t = "Follow"
    BY <1>2, <1>3, Apart DEF Follow
  <2> QED BY <1>5, <2>1 DEF Talk, On
<1>9. Talk({})
  BY <1>2, <1>3, <1>5 DEF Talk, On
<1>10. There(0, 0)
  BY <1>9, Talks DEF Agreed, FollowAgreed, Asking, Following, Leaving, Over, Here, Follow
<1>11. Here(0, attempts)' /\ here'.block = here.block /\ here'.mark = here.mark
  BY Columns DEF TypeOK, Follow, Here
<1>12. Marks' /\ attempts' \notin there'.mark
  BY <1>3, <1>11 DEF Agreed, Marks, Follow
<1>13. FollowAgreed'
  BY <1>3, <1>8, <1>10, <1>11, <1>12 DEF FollowAgreed, Asking, There, Follow
<1>14. BlockAgreed'
  BY <1>3, <1>7, <1>11, BlockKept DEF Agreed, Follow
<1> QED BY <1>6, <1>12, <1>13, <1>14 DEF Agreed


LEMMA UnfollowAgrees ==
  ASSUME TypeOK, Agreed, Unfollow, ~ crossed'
  PROVE  Agreed'
<1>1. attempts' = attempts /\ blocks' = blocks /\ there' = there
  BY DEF Unfollow
<1>2. here.follow # 0 \/ here.request # 0
  BY DEF Unfollow, Undo
<1>3. (Asking \/ Following) /\ attempts # 0
  BY <1>2 DEF Agreed, FollowAgreed, Leaving, Over, Here
<1>4. Undo(here) = {Activity("UndoFollow", attempts)} /\ attempts # 0
  BY <1>3 DEF Undo, Asking, Following, Here
<1>5. wire' = wire \cup {Activity("UndoFollow", Newest("UndoFollow"))}
  BY <1>4 DEF Unfollow, Newest, BlockTypes
<1>6. OnlyNewest' /\ \A t : On(t)' <=> On(t) \/ t = "UndoFollow"
  BY <1>1, <1>5, Sent DEF Agreed
<1>7. Here(0, 0)' /\ here'.block = here.block /\ here'.mark = here.mark
  BY <1>3, Rewritten DEF TypeOK, Unfollow, Here, Asking, Following
<1>8. Marks'
  BY <1>1, <1>7 DEF Agreed, Marks
<1>9. FollowAgreed'
  <2>1. CASE Asking
    BY <1>1, <1>3, <1>6, <1>7, <2>1, Talks, TalksThen DEF FollowAgreed, Leaving, Asking, There
  <2>2. CASE Following
    BY <1>1, <1>3, <1>6, <1>7, <2>2, Talks, TalksThen DEF FollowAgreed, Leaving, Following, There
  <2> QED BY <1>3, <2>1, <2>2
<1>10. BlockAgreed'
  <2>1. \A t \in BlockTypes : On(t)' <=> On(t)
    BY <1>6, Types
  <2> QED BY <1>1, <1>7, <2>1, BlockKept DEF Agreed
<1> QED BY <1>6, <1>8, <1>9, <1>10 DEF Agreed

\* A request that the one followed has is about the last follow
LEMMA Requested ==
  ASSUME Agreed, there.request # 0
  PROVE  /\ there.request = attempts /\ there.follow = 0 /\ attempts # 0 /\ attempts \notin there.mark
         /\ (Asking /\ Talk({})) \/ (Leaving /\ Talk({"UndoFollow"}))
BY DEF Agreed, FollowAgreed, Asking, Following, Leaving, Over, There

LEMMA AuthorizeAgrees ==
  ASSUME TypeOK, Agreed, Authorize, ~ crossed'
  PROVE  Agreed'
<1>1. attempts' = attempts /\ blocks' = blocks /\ here' = here
  BY DEF Authorize
<1>2. /\ there.request = attempts /\ there.follow = 0 /\ attempts # 0 /\ attempts \notin there.mark
      /\ (Asking /\ Talk({})) \/ (Leaving /\ Talk({"UndoFollow"}))
  BY Requested DEF Authorize
<1>3. wire' = wire \cup {Activity("Accept", Newest("Accept"))}
  BY <1>2 DEF Authorize, Newest, BlockTypes
<1>4. OnlyNewest' /\ \A t : On(t)' <=> On(t) \/ t = "Accept"
  BY <1>1, <1>3, Sent DEF Agreed
<1>5. There(attempts, 0)' /\ there'.block = there.block /\ there'.mark = there.mark
  BY <1>1, <1>2, Rewritten DEF TypeOK, Authorize, There
<1>6. Marks'
  BY <1>1, <1>5 DEF Agreed, Marks
<1>7. FollowAgreed'
  <2>1. CASE Asking /\ Talk({})
    BY <1>1, <1>2, <1>4, <1>5, <2>1, Talks, TalksThen DEF FollowAgreed, Asking, Here
  <2>2. CASE Leaving /\ Talk({"UndoFollow"})
    BY <1>1, <1>2, <1>4, <1>5, <2>2, Talks, TalksThen DEF FollowAgreed, Leaving, Here
  <2> QED BY <1>2, <2>1, <2>2
<1>8. BlockAgreed'
  <2>1. \A t \in BlockTypes : On(t)' <=> On(t)
    BY <1>4, Types
  <2> QED BY <1>1, <1>5, <2>1, BlockKept DEF Agreed
<1> QED BY <1>4, <1>6, <1>7, <1>8 DEF Agreed

LEMMA RefuseAgrees ==
  ASSUME TypeOK, Agreed, Refuse, ~ crossed'
  PROVE  Agreed'
<1>1. attempts' = attempts /\ blocks' = blocks /\ here' = here
  BY DEF Refuse
<1>2. /\ there.request = attempts /\ there.follow = 0 /\ attempts # 0 /\ attempts \notin there.mark
      /\ (Asking /\ Talk({})) \/ (Leaving /\ Talk({"UndoFollow"}))
  BY Requested DEF Refuse
<1>3. wire' = wire \cup {Activity("Reject", Newest("Reject"))}
  BY <1>2 DEF Refuse, Newest, BlockTypes
<1>4. OnlyNewest' /\ \A t : On(t)' <=> On(t) \/ t = "Reject"
  BY <1>1, <1>3, Sent DEF Agreed
<1>5. There(0, 0)' /\ there'.block = there.block /\ there'.mark = there.mark
  BY <1>1, <1>2, Columns DEF TypeOK, Refuse, There
<1>6. Marks'
  BY <1>1, <1>5 DEF Agreed, Marks
<1>7. FollowAgreed'
  <2>1. CASE Asking /\ Talk({})
    BY <1>1, <1>2, <1>4, <1>5, <2>1, Talks, TalksThen DEF FollowAgreed, Asking, Here
  <2>2. CASE Leaving /\ Talk({"UndoFollow"})
    BY <1>1, <1>2, <1>4, <1>5, <2>2, Talks, TalksThen DEF FollowAgreed, Leaving, Here
  <2> QED BY <1>2, <2>1, <2>2
<1>8. BlockAgreed'
  <2>1. \A t \in BlockTypes : On(t)' <=> On(t)
    BY <1>4, Types
  <2> QED BY <1>1, <1>5, <2>1, BlockKept DEF Agreed
<1> QED BY <1>4, <1>6, <1>7, <1>8 DEF Agreed


\* Nothing about the block is under way
LEMMA Quiet ==
  ASSUME TypeOK, OnlyNewest, Noise({})
  PROVE  \A m \in wire : m.type \in FollowTypes
BY Known DEF Noise, On

\* What is not under way cannot be overtaken
LEMMA Unsent ==
  ASSUME TypeOK, OnlyNewest, NEW ts, ~ UnderWay(ts)
  PROVE  \A t \in ts : ~ On(t)
BY OfType DEF UnderWay, On

LEMMA BlockAgrees ==
  ASSUME TypeOK, Agreed, Block, ~ crossed'
  PROVE  Agreed'
<1>1. attempts' = attempts /\ here' = here /\ blocks' = blocks + 1 /\ blocks \in Nat /\ blocks' # 0
  BY FollowsAssumption DEF TypeOK, Block
<1>2. ~ On("Accept") /\ ~ On("UndoBlock")
  <2>1. ~ UnderWay({"Accept", "UndoBlock"})
    BY DEF Block
  <2>2. \A t \in {"Accept", "UndoBlock"} : ~ On(t)
    BY <2>1, Unsent DEF Agreed
  <2> QED BY <2>2
<1>3. here.block = 0 /\ Noise({})
  BY <1>2 DEF Agreed, BlockAgreed, Block, Noise, BlockTypes
<1>4. \A m \in wire : m.type \in FollowTypes
  BY <1>3, Quiet DEF Agreed
<1>5. \A t \in FollowTypes : Newest(t)' = attempts /\ Newest(t) = attempts
  BY <1>1, Types DEF Newest
<1>6. \A t \in BlockTypes : Newest(t)' = blocks'
  BY DEF Newest
<1>7. OnlyNewest'
  <2> SUFFICES ASSUME NEW m \in wire' PROVE m.id = Newest(m.type)'
    BY DEF OnlyNewest
  <2>1. CASE m \in wire
    BY <1>4, <1>5, <2>1 DEF Agreed, OnlyNewest
  <2>2. CASE m = Activity("Block", blocks')
    <3>1. m.type \in BlockTypes /\ m.id = blocks'
      BY <2>2, Types, OfType
    <3> QED BY <1>6, <3>1
  <2> QED BY <2>1, <2>2 DEF Block
<1>8. \A t \in FollowTypes : On(t)' <=> On(t)
  <2>1. \A t \in FollowTypes : Activity(t, attempts) # Activity("Block", blocks')
    BY Apart, Types
  <2> QED BY <1>5, <2>1 DEF On, Block
<1>9. Noise({"Block"})'
  <2>1. \A t \in BlockTypes : Activity(t, blocks') \notin wire
    BY <1>4, OfType, Types
  <2>2. \A t \in BlockTypes : Activity(t, blocks') \in wire' <=> t = "Block"
    BY <2>1, Apart DEF Block
  <2> QED BY <1>6, <2>2 DEF Noise, On
<1>10. /\ there'.follow = 0 /\ there'.request = there.request
       /\ there'.block = blocks' /\ there'.mark = there.mark
  BY Columns DEF TypeOK, Block
<1>11. Marks'
  BY <1>1, <1>10 DEF Agreed, Marks
<1>12. FollowAgreed'
  <2>1. On("Block")'
    BY <1>9 DEF Noise, BlockTypes
  <2>2. CASE Asking /\ attempts # 0
    BY <1>1, <1>2, <1>8, <1>10, <2>2, Talks, TalksThen, Types DEF FollowAgreed, Asking, Here, There
  <2>3. CASE Following /\ attempts # 0
    BY <1>1, <1>2, <1>8, <1>10, <2>1, <2>3, Talks, TalksThen, Types DEF FollowAgreed, Following, Here, There
  <2>4. CASE Leaving /\ attempts # 0
    BY <1>1, <1>2, <1>8, <1>10, <2>4, Talks, TalksThen, Types DEF FollowAgreed, Leaving, Here, There
  <2>5. CASE Over
    BY <1>1, <1>2, <1>8, <1>10, <2>5, Talks, TalksThen, Types DEF FollowAgreed, Over, Here, There
  <2> QED BY <2>2, <2>3, <2>4, <2>5 DEF Agreed, FollowAgreed
<1>13. BlockAgreed'
  BY <1>1, <1>3, <1>9, <1>10 DEF BlockAgreed
<1> QED BY <1>7, <1>11, <1>12, <1>13 DEF Agreed

LEMMA UnblockAgrees ==
  ASSUME TypeOK, Agreed, Unblock, ~ crossed'
  PROVE  Agreed'
<1>1. attempts' = attempts /\ here' = here /\ blocks' = blocks
  BY DEF Unblock
<1>2. ~ On("Block")
  BY Unsent DEF Unblock, Agreed
<1>3. here.block = blocks /\ there.block = blocks /\ blocks # 0 /\ Noise({})
  BY <1>2 DEF Agreed, BlockAgreed, Unblock, Noise, BlockTypes
<1>4. wire' = wire \cup {Activity("UndoBlock", Newest("UndoBlock"))}
  BY <1>3 DEF Unblock, Newest, BlockTypes
<1>5. OnlyNewest' /\ \A t : On(t)' <=> On(t) \/ t = "UndoBlock"
  BY <1>1, <1>4, Sent DEF Agreed
<1>6. /\ there'.follow = there.follow /\ there'.request = there.request
      /\ there'.block = 0 /\ there'.mark = there.mark
  BY Columns DEF TypeOK, Unblock
<1>7. Marks'
  BY <1>1, <1>6 DEF Agreed, Marks
<1>8. FollowAgreed'
  <2>1. \A t \in FollowTypes : On(t)' <=> On(t)
    BY <1>5, Types
  <2> QED BY <1>1, <1>2, <1>6, <2>1, FollowKept DEF Agreed
<1>9. BlockAgreed'
  BY <1>1, <1>3, <1>5, <1>6 DEF BlockAgreed, Noise, BlockTypes
<1> QED BY <1>5, <1>7, <1>8, <1>9 DEF Agreed

LEMMA HandleFollowAgrees ==
  ASSUME TypeOK, Agreed, NEW m \in wire, HandleFollow(m), ~ crossed'
  PROVE  Agreed'
<1>1. /\ attempts' = attempts /\ blocks' = blocks /\ here' = here /\ Arrive(m)
      /\ m.type = "Follow" /\ m.id = attempts /\ On("Follow")
  <2>1. m.type = "Follow" /\ Arrive(m) /\ here' = here /\ attempts' = attempts /\ blocks' = blocks
    BY DEF HandleFollow, Arrive
  <2>2. m = Activity("Follow", Newest("Follow"))
    BY <2>1, Known DEF Agreed
  <2>3. Newest("Follow") = attempts
    BY Types DEF Newest
  <2> QED BY <2>1, <2>2, <2>3, OfType DEF On
<1>2. /\ There(0, 0)
      /\ \/ attempts # 0 /\ Asking /\ Talk({"Follow"}) /\ attempts \notin there.mark
         \/ attempts # 0 /\ Leaving /\ Talk({"Follow", "UndoFollow"}) /\ attempts \notin there.mark
         \/ Over /\ Talk({"Follow"}) /\ attempts \in there.mark
  BY <1>1, Talks DEF Agreed, FollowAgreed, Asking, Following, Leaving, Over
<1> DEFINE Untouched == there'.block = there.block /\ there'.mark = there.mark
<1>4. \/ there' = there /\ wire' = Rest(m) /\ Over /\ Talk({"Follow"})
      \/ /\ attempts \notin there.mark
         /\ \/ /\ There(0, 0)' /\ Untouched
               /\ wire' = Rest(m) \cup {Activity("Reject", Newest("Reject"))}
            \/ There(0, attempts)' /\ Untouched /\ wire' = Rest(m)
            \/ /\ There(attempts, 0)' /\ Untouched
               /\ wire' = Rest(m) \cup {Activity("Accept", Newest("Accept"))}
  <2>1. CASE m.id \in there.mark \/ there.request # 0
    BY <1>1, <1>2, <2>1 DEF HandleFollow, There
  <2>2. CASE ~ (m.id \in there.mark \/ there.request # 0)
    <3>1. Newest("Reject") = attempts /\ Newest("Accept") = attempts
      BY Types DEF Newest
    <3>2. CASE there.block # 0
      BY <1>1, <1>2, <2>2, <3>1, <3>2 DEF HandleFollow, There
    <3>3. CASE there.block = 0
      <4>1. there.follow = 0
        BY <1>2 DEF There
      <4>2. CASE there' = [there EXCEPT !.request = m.id] /\ wire' = Rest(m)
        BY <1>1, <2>2, <4>1, <4>2, Columns DEF TypeOK, There
      <4>3. CASE there' = Authorized(there, m.id) /\ wire' = Rest(m) \cup {Activity("Accept", m.id)}
        BY <1>1, <2>2, <3>1, <4>1, <4>3, Rewritten DEF TypeOK, There
      <4> QED BY <1>1, <2>2, <3>3, <4>1, <4>2, <4>3 DEF HandleFollow
    <3> QED BY <3>2, <3>3
  <2> QED BY <2>1, <2>2
<1>5. OnlyNewest' /\ BlockAgreed' /\ FollowAgreed'
  <2>1. CASE there' = there /\ wire' = Rest(m) /\ Over /\ Talk({"Follow"})
    <3>1. OnlyNewest' /\ \A t : On(t)' <=> On(t) /\ t # "Follow"
      BY <1>1, <2>1, Handled DEF Agreed
    <3>2. FollowAgreed'
      BY <1>1, <2>1, <3>1, Talks, TalksThen DEF FollowAgreed, Over, Here, There
    <3> QED BY <1>1, <2>1, <3>1, <3>2, BlockKept, Types DEF Agreed
  <2>2. CASE /\ attempts \notin there.mark
             /\ There(0, 0)' /\ Untouched
             /\ wire' = Rest(m) \cup {Activity("Reject", Newest("Reject"))}
    <3>1. OnlyNewest' /\ \A t : On(t)' <=> (On(t) /\ t # "Follow") \/ t = "Reject"
      BY <1>1, <2>2, Answered DEF Agreed
    <3>2. FollowAgreed'
      <4>1. CASE attempts # 0 /\ Asking /\ Talk({"Follow"})
        BY <1>1, <2>2, <3>1, <4>1, Talks, TalksThen DEF FollowAgreed, Asking, Here
      <4>2. CASE attempts # 0 /\ Leaving /\ Talk({"Follow", "UndoFollow"})
        BY <1>1, <2>2, <3>1, <4>2, Talks, TalksThen DEF FollowAgreed, Leaving, Here
      <4> QED BY <1>2, <2>2, <4>1, <4>2
    <3> QED BY <1>1, <2>2, <3>1, <3>2, BlockKept, Types DEF Agreed
  <2>3. CASE /\ attempts \notin there.mark
             /\ There(0, attempts)' /\ Untouched /\ wire' = Rest(m)
    <3>1. OnlyNewest' /\ \A t : On(t)' <=> On(t) /\ t # "Follow"
      BY <1>1, <2>3, Handled DEF Agreed
    <3>2. FollowAgreed'
      <4>1. CASE attempts # 0 /\ Asking /\ Talk({"Follow"})
        BY <1>1, <2>3, <3>1, <4>1, Talks, TalksThen DEF FollowAgreed, Asking, Here
      <4>2. CASE attempts # 0 /\ Leaving /\ Talk({"Follow", "UndoFollow"})
        BY <1>1, <2>3, <3>1, <4>2, Talks, TalksThen DEF FollowAgreed, Leaving, Here
      <4> QED BY <1>2, <2>3, <4>1, <4>2
    <3> QED BY <1>1, <2>3, <3>1, <3>2, BlockKept, Types DEF Agreed
  <2>4. CASE /\ attempts \notin there.mark
             /\ There(attempts, 0)' /\ Untouched
             /\ wire' = Rest(m) \cup {Activity("Accept", Newest("Accept"))}
    <3>1. OnlyNewest' /\ \A t : On(t)' <=> (On(t) /\ t # "Follow") \/ t = "Accept"
      BY <1>1, <2>4, Answered DEF Agreed
    <3>2. FollowAgreed'
      <4>1. CASE attempts # 0 /\ Asking /\ Talk({"Follow"})
        BY <1>1, <2>4, <3>1, <4>1, Talks, TalksThen DEF FollowAgreed, Asking, Here
      <4>2. CASE attempts # 0 /\ Leaving /\ Talk({"Follow", "UndoFollow"})
        BY <1>1, <2>4, <3>1, <4>2, Talks, TalksThen DEF FollowAgreed, Leaving, Here
      <4> QED BY <1>2, <2>4, <4>1, <4>2
    <3> QED BY <1>1, <2>4, <3>1, <3>2, BlockKept, Types DEF Agreed
  <2> QED BY <1>4, <2>1, <2>2, <2>3, <2>4
<1>6. Marks'
  BY <1>1, <1>4 DEF Agreed, Marks
<1> QED BY <1>5, <1>6 DEF Agreed


LEMMA HandleUndoFollowAgrees ==
  ASSUME TypeOK, Agreed, NEW m \in wire, HandleUndoFollow(m), ~ crossed'
  PROVE  Agreed'
<1>1. /\ attempts' = attempts /\ blocks' = blocks /\ here' = here /\ wire' = Rest(m)
      /\ Arrive(m) /\ m.type = "UndoFollow" /\ attempts \in Nat
  BY FollowsAssumption DEF HandleUndoFollow, Arrive, TypeOK
<1>2. m.id = attempts /\ On("UndoFollow")
  <2>1. m = Activity("UndoFollow", Newest("UndoFollow")) /\ Newest("UndoFollow") = attempts
    BY <1>1, Known, Types DEF Agreed, Newest
  <2> QED BY <2>1, OfType DEF On
<1>3. Leaving /\ attempts # 0
  BY <1>2, Talks DEF Agreed, FollowAgreed, Asking, Following, Over
<1>4. OnlyNewest' /\ \A t : On(t)' <=> On(t) /\ t # "UndoFollow"
  BY <1>1, Handled DEF Agreed
<1>5. /\ There(0, 0)' /\ there'.block = there.block
      /\ there'.mark = IF There(0, 0) THEN there.mark \cup {attempts} ELSE there.mark
  <2>1. CASE There(0, 0)
    BY <1>2, <2>1, Columns DEF There, HandleUndoFollow, TypeOK
  <2>2. CASE ~ There(0, 0)
    BY <1>3, <2>2, Rewritten DEF There, HandleUndoFollow, TypeOK, Leaving
  <2> QED BY <2>1, <2>2
<1>6. Marks'
  BY <1>1, <1>3, <1>5 DEF Agreed, Marks
<1>7. FollowAgreed'
  <2>1. CASE There(0, 0)
    <3>1. attempts \in there'.mark
      BY <1>5, <2>1
    <3>2. Talk({})' \/ Talk({"Follow"})' \/ Talk({"Reject"})'
      BY <1>3, <1>4, <2>1, Talks, TalksThen DEF Leaving, There
    <3> QED BY <1>1, <1>3, <1>5, <3>1, <3>2 DEF FollowAgreed, Over, Leaving, Here
  <2>2. CASE ~ There(0, 0)
    <3>1. Talk({})' \/ Talk({"Accept"})'
      BY <1>3, <1>4, <2>2, Talks, TalksThen DEF Leaving, There
    <3> QED BY <1>1, <1>3, <1>5, <3>1 DEF FollowAgreed, Over, Leaving, Here
  <2> QED BY <2>1, <2>2
<1>8. BlockAgreed'
  BY <1>1, <1>4, <1>5, BlockKept, Types DEF Agreed
<1> QED BY <1>4, <1>6, <1>7, <1>8 DEF Agreed

LEMMA HandleAcceptAgrees ==
  ASSUME TypeOK, Agreed, NEW m \in wire, HandleAccept(m), ~ crossed'
  PROVE  Agreed'
<1>1. /\ attempts' = attempts /\ blocks' = blocks /\ there' = there /\ wire' = Rest(m)
      /\ Arrive(m) /\ m.type = "Accept"
  BY DEF HandleAccept, Arrive
<1>2. On("Accept")
  BY <1>1, Known DEF On, Agreed
<1>3. \/ attempts # 0 /\ Asking /\ There(attempts, 0) /\ Talk({"Accept"})
      \/ attempts # 0 /\ Leaving /\ There(attempts, 0) /\ Talk({"Accept", "UndoFollow"})
      \/ Over /\ Talk({"Accept"})
  BY <1>2, Talks DEF Agreed, FollowAgreed, Asking, Following, Leaving, Over
<1>4. OnlyNewest' /\ \A t : On(t)' <=> On(t) /\ t # "Accept"
  BY <1>1, Handled DEF Agreed
<1>5. /\ here'.block = here.block /\ here'.mark = here.mark
      /\ here.request = 0 => here' = here
      /\ here.request # 0 /\ here.follow = 0 => here'.follow = here.request /\ here'.request = 0
  <2>1. CASE here.request = 0
    BY <2>1 DEF HandleAccept
  <2>2. CASE here.request # 0
    <3>1. here' = Authorized(here, here.request)
      BY <2>2 DEF HandleAccept
    <3> QED BY <2>2, <3>1, Rewritten DEF TypeOK
  <2> QED BY <2>1, <2>2
<1>6. Marks'
  BY <1>1, <1>5 DEF Agreed, Marks
<1>7. FollowAgreed'
  <2>1. CASE attempts # 0 /\ Asking /\ There(attempts, 0) /\ Talk({"Accept"})
    <3>1. Here(attempts, 0)'
      BY <1>1, <1>5, <2>1 DEF Asking, Here
    <3> QED BY <1>1, <1>4, <2>1, <3>1, Talks, TalksThen DEF FollowAgreed, Asking, Following, There
  <2>2. CASE attempts # 0 /\ Leaving /\ There(attempts, 0) /\ Talk({"Accept", "UndoFollow"})
    BY <1>1, <1>4, <1>5, <2>2, Talks, TalksThen DEF FollowAgreed, Leaving, Here, There
  <2>3. CASE Over /\ Talk({"Accept"})
    BY <1>1, <1>4, <1>5, <2>3, Talks, TalksThen DEF FollowAgreed, Over, Here, There
  <2> QED BY <1>3, <2>1, <2>2, <2>3
<1>8. BlockAgreed'
  BY <1>1, <1>4, <1>5, BlockKept, Types DEF Agreed
<1> QED BY <1>4, <1>6, <1>7, <1>8 DEF Agreed

LEMMA HandleRejectAgrees ==
  ASSUME TypeOK, Agreed, NEW m \in wire, HandleReject(m), ~ crossed'
  PROVE  Agreed'
<1>1. /\ attempts' = attempts /\ blocks' = blocks /\ there' = there
      /\ Arrive(m) /\ m.type = "Reject"
  BY DEF HandleReject, Arrive
<1>2. On("Reject")
  BY <1>1, Known DEF On, Agreed
<1>3. /\ here.follow = 0 /\ There(0, 0)
      /\ \/ attempts # 0 /\ Asking /\ Talk({"Reject"})
         \/ attempts # 0 /\ Leaving /\ Talk({"Reject", "UndoFollow"})
         \/ Over /\ Talk({"Reject"})
  BY <1>2, Talks DEF Agreed, FollowAgreed, Asking, Following, Leaving, Over, Here, There
<1>4. wire' = Rest(m)
  BY <1>3 DEF HandleReject
<1>5. OnlyNewest' /\ \A t : On(t)' <=> On(t) /\ t # "Reject"
  BY <1>1, <1>4, Handled DEF Agreed
<1>6. here'.block = here.block /\ here'.mark = here.mark /\ Here(0, 0)'
  BY Columns DEF TypeOK, HandleReject, Here
<1>7. Marks'
  BY <1>1, <1>6 DEF Agreed, Marks
<1>8. FollowAgreed'
  BY <1>1, <1>3, <1>5, <1>6, Talks, TalksThen DEF FollowAgreed, Leaving, Over, There
<1>9. BlockAgreed'
  BY <1>1, <1>5, <1>6, BlockKept, Types DEF Agreed
<1> QED BY <1>5, <1>7, <1>8, <1>9 DEF Agreed

LEMMA HandleBlockAgrees ==
  ASSUME TypeOK, Agreed, NEW m \in wire, HandleBlock(m), ~ crossed'
  PROVE  Agreed'
<1>1. /\ attempts' = attempts /\ blocks' = blocks /\ there' = there
      /\ Arrive(m) /\ m.type = "Block"
  BY DEF HandleBlock, Arrive
<1>2. m.id = blocks /\ On("Block")
  <2>1. m = Activity("Block", Newest("Block")) /\ Newest("Block") = blocks
    BY <1>1, Known DEF Agreed, Newest, BlockTypes
  <2> QED BY <2>1, OfType DEF On
<1>3. here.block = 0 /\ there.block = blocks /\ blocks # 0 /\ Noise({"Block"})
  BY <1>2 DEF Agreed, BlockAgreed, Noise, BlockTypes
<1>4. here' = [here EXCEPT !.follow = 0, !.block = blocks]
  BY <1>2, <1>3 DEF HandleBlock, Agreed, Marks
<1>5. here'.follow = 0 /\ here'.request = here.request /\ here'.block = blocks /\ here'.mark = here.mark
  BY <1>4, Columns DEF TypeOK
<1>6. Marks'
  BY <1>1, <1>5 DEF Agreed, Marks
<1>7. CASE here.follow = 0
  <2>1. wire' = Rest(m)
    BY <1>7 DEF HandleBlock
  <2>2. OnlyNewest' /\ \A t : On(t)' <=> On(t) /\ t # "Block"
    BY <1>1, <2>1, Handled DEF Agreed
  <2>3. FollowAgreed'
    BY <1>1, <1>5, <1>7, <2>2, FollowKept, Types DEF Agreed
  <2>4. BlockAgreed'
    BY <1>1, <1>3, <1>5, <2>2 DEF BlockAgreed, Noise, BlockTypes
  <2> QED BY <1>6, <2>2, <2>3, <2>4 DEF Agreed
<1>8. CASE here.follow # 0
  <2>1. Following /\ attempts # 0 /\ here.follow = attempts
    BY <1>8 DEF Agreed, FollowAgreed, Asking, Following, Leaving, Over, Here
  <2>2. Undo(here) = {Activity("UndoFollow", Newest("UndoFollow"))}
    BY <2>1, Types DEF Undo, Newest
  <2>3. wire' = Rest(m) \cup {Activity("UndoFollow", Newest("UndoFollow"))}
    BY <1>2, <1>3, <1>8, <2>2 DEF HandleBlock, Agreed, Marks
  <2>4. OnlyNewest' /\ \A t : On(t)' <=> (On(t) /\ t # "Block") \/ t = "UndoFollow"
    BY <1>1, <2>3, Answered DEF Agreed
  <2>5. FollowAgreed'
    BY <1>1, <1>5, <2>1, <2>4, Talks, TalksThen DEF FollowAgreed, Following, Leaving, Here, There
  <2>6. BlockAgreed'
    BY <1>1, <1>3, <1>5, <2>4 DEF BlockAgreed, Noise, BlockTypes
  <2> QED BY <1>6, <2>4, <2>5, <2>6 DEF Agreed
<1> QED BY <1>7, <1>8

LEMMA HandleUndoBlockAgrees ==
  ASSUME TypeOK, Agreed, NEW m \in wire, HandleUndoBlock(m), ~ crossed'
  PROVE  Agreed'
<1>1. /\ attempts' = attempts /\ blocks' = blocks /\ there' = there /\ wire' = Rest(m)
      /\ Arrive(m) /\ m.type = "UndoBlock"
  BY DEF HandleUndoBlock, Arrive
<1>2. On("UndoBlock")
  BY <1>1, Known DEF On, Agreed
<1>3. here.block = blocks /\ there.block = 0 /\ blocks # 0 /\ Noise({"UndoBlock"})
  BY <1>2 DEF Agreed, BlockAgreed, Noise, BlockTypes
<1>4. OnlyNewest' /\ \A t : On(t)' <=> On(t) /\ t # "UndoBlock"
  BY <1>1, Handled DEF Agreed
<1>5. here' = [here EXCEPT !.block = 0]
  BY <1>3 DEF HandleUndoBlock
<1>6. here'.follow = here.follow /\ here'.request = here.request /\ here'.block = 0 /\ here'.mark = here.mark
  BY <1>5, Columns DEF TypeOK
<1>7. Marks'
  BY <1>1, <1>6 DEF Agreed, Marks
<1>8. FollowAgreed'
  BY <1>1, <1>4, <1>6, FollowKept, Types DEF Agreed
<1>9. BlockAgreed'
  BY <1>1, <1>3, <1>4, <1>6 DEF BlockAgreed, Noise, BlockTypes
<1> QED BY <1>4, <1>7, <1>8, <1>9 DEF Agreed

LEMMA ForgetAgrees ==
  ASSUME TypeOK, Agreed, NEW i, Forget(i), ~ crossed'
  PROVE  Agreed'
<1>1. attempts' = attempts /\ blocks' = blocks /\ wire' = wire
  BY DEF Forget
<1>2. \A t : On(t)' <=> On(t)
  BY <1>1 DEF On, Newest, Activity
<1>3. ~ On("Follow")
  <2>1. ~ UnderWay({"Follow", "Block"})
    BY DEF Forget
  <2>2. \A t \in {"Follow", "Block"} : ~ On(t)
    BY <2>1, Unsent DEF Agreed
  <2> QED BY <2>2
<1>4. /\ here'.follow = here.follow /\ here'.request = here.request
      /\ here'.block = here.block /\ here'.mark = here.mark \ {i}
  BY Columns DEF Forget, TypeOK
<1>5. /\ there'.follow = there.follow /\ there'.request = there.request
      /\ there'.block = there.block /\ there'.mark = there.mark \ {i}
  BY Columns DEF Forget, TypeOK
<1>6. Marks'
  BY <1>1, <1>4, <1>5 DEF Agreed, Marks
<1>7. OnlyNewest'
  BY <1>1 DEF Agreed, OnlyNewest, Newest
<1>8. FollowAgreed'
  <2>1. \A ts : Talk(ts)' <=> Talk(ts)
    BY <1>2 DEF Talk
  <2>2. Asking => Asking'
    BY <1>1, <1>4, <1>5, <2>1 DEF Asking, Here, There
  <2>3. Following => Following'
    BY <1>1, <1>2, <1>4, <1>5, <2>1 DEF Following, Here, There
  <2>4. Leaving => Leaving'
    BY <1>1, <1>4, <1>5, <2>1 DEF Leaving, Here, There
  <2>5. Over => Over'
    BY <1>1, <1>3, <1>4, <1>5, <2>1, Talks DEF Over, Here, There
  <2> QED BY <1>1, <2>2, <2>3, <2>4, <2>5 DEF Agreed, FollowAgreed
<1>9. BlockAgreed'
  BY <1>1, <1>2, <1>4, <1>5, BlockKept DEF Agreed
<1> QED BY <1>6, <1>7, <1>8, <1>9 DEF Agreed

LEMMA InitAgrees == Init => Agreed
<1> SUFFICES ASSUME Init PROVE Agreed
  OBVIOUS
<1>1. \A t : ~ On(t)
  BY DEF Init, On
<1>2. Over /\ BlockAgreed
  BY <1>1 DEF Init, NoRows, Over, Here, There, Talk, BlockAgreed, Noise
<1>3. OnlyNewest /\ Marks
  BY DEF Init, NoRows, OnlyNewest, Marks
<1> QED BY <1>2, <1>3 DEF Agreed, FollowAgreed

\* Once crossed, always crossed
LEMMA StaysCrossed ==
  ASSUME [Next]_vars, ~ crossed'
  PROVE  ~ crossed
<1>1. CASE UNCHANGED vars
  BY <1>1 DEF vars
<1>2. CASE Follow \/ Unfollow \/ Authorize \/ Refuse \/ Block \/ Unblock \/ \E i \in Attempts \cup Blocks : Forget(i)
  BY <1>2 DEF Follow, Unfollow, Authorize, Refuse, Block, Unblock, Forget
<1>3. CASE \E m \in wire : Handle(m)
  BY <1>3 DEF Handle, HandleFollow, HandleUndoFollow, HandleAccept, HandleReject, HandleBlock,
              HandleUndoBlock, Arrive
<1> QED BY <1>1, <1>2, <1>3 DEF Next

LEMMA StepAgrees == TypeOK /\ Uncrossed /\ [Next]_vars => Uncrossed'
<1> SUFFICES ASSUME TypeOK, Uncrossed, [Next]_vars, ~ crossed' PROVE Agreed'
  BY DEF Uncrossed
<1>1. Agreed
  BY StaysCrossed DEF Uncrossed
<1>2. CASE UNCHANGED vars
  <2>1. \A t : On(t)' <=> On(t)
    BY <1>2 DEF vars, On, Newest, Activity
  <2>2. OnlyNewest' /\ Marks'
    BY <1>1, <1>2 DEF vars, Agreed, OnlyNewest, Newest, Marks
  <2>3. FollowAgreed' /\ BlockAgreed'
    BY <1>1, <1>2, <2>1, FollowKept, BlockKept DEF vars, Agreed
  <2> QED BY <2>2, <2>3 DEF Agreed
<1>3. CASE Follow \/ Unfollow
  BY <1>1, <1>3, FollowAgrees, UnfollowAgrees
<1>4. CASE Authorize \/ Refuse \/ Block \/ Unblock
  BY <1>1, <1>4, AuthorizeAgrees, RefuseAgrees, BlockAgrees, UnblockAgrees
<1>5. ASSUME NEW m \in wire, Handle(m) PROVE Agreed'
  BY <1>1, <1>5, HandleFollowAgrees, HandleUndoFollowAgrees, HandleAcceptAgrees, HandleRejectAgrees,
     HandleBlockAgrees, HandleUndoBlockAgrees DEF Handle
<1>6. ASSUME NEW i, Forget(i) PROVE Agreed'
  BY <1>1, <1>6, ForgetAgrees
<1> QED BY <1>2, <1>3, <1>4, <1>5, <1>6 DEF Next

\* When nothing is under way the two servers agree on the follow, the request
\* and the block, unless something was sent that older activities could
\* overtake (Activity::Follow, Accept, Reject, Block and Undo, with the services
\* that send them).
THEOREM ServersAgree == Spec => []AgreeInTheEnd
<1>1. Init => Uncrossed
  BY InitAgrees DEF Uncrossed
<1>2. Uncrossed => AgreeInTheEnd
  <2> SUFFICES ASSUME Agreed, wire = {}
               PROVE  here.follow = there.follow /\ here.request = there.request /\ here.block = there.block
    BY DEF Uncrossed, AgreeInTheEnd
  <2>1. \A t : ~ On(t)
    BY DEF On
  <2>2. here.block = there.block
    BY <2>1 DEF Agreed, BlockAgreed, Noise, BlockTypes
  <2>3. here.follow = there.follow /\ here.request = there.request
    BY <2>1, Talks DEF Agreed, FollowAgreed, Asking, Following, Leaving, Over, Here, There
  <2> QED BY <2>2, <2>3
<1> QED BY <1>1, <1>2, StepAgrees, InitTypes, StepTypes, PTL DEF Spec

-----------------------------------------------------------------------------
(* A relay *)

\* An answer that is being handled was given
Given == \A t \in Threads :
  handler[t] # NoAnswer => [id |-> handler[t].id, state |-> handler[t].state] \in answers

\* and is about the Follow of the row, unless the row was changed meanwhile
Matched == \A t \in Threads :
  handler[t] # NoAnswer /\ ~ overtaken => handler[t].id = relay.id

IInv == RelayTypeOK /\ Given /\ Matched /\ AcceptedIsCurrent

LEMMA InitHolds == RelayInit => IInv
<1> SUFFICES ASSUME RelayInit PROVE IInv
  OBVIOUS
<1>1. RelayTypeOK
  <2>1. relay \in [state : States, id : {0} \cup Ids] /\ enables \in 0..MaxEnables
    BY RelaysAssumption DEF RelayInit, States
  <2>2. handler \in [Threads -> Handlers]
    BY DEF RelayInit, Handlers
  <2> QED BY <2>1, <2>2 DEF RelayInit, RelayTypeOK
<1>2. Given /\ Matched
  BY DEF RelayInit, Given, Matched
<1>3. AcceptedIsCurrent
  BY DEF RelayInit, AcceptedIsCurrent
<1> QED BY <1>1, <1>2, <1>3 DEF IInv

LEMMA EnableStep ==
  ASSUME IInv, Enable
  PROVE  IInv'
<1>1. RelayTypeOK'
  BY RelaysAssumption DEF IInv, RelayTypeOK, Enable, States, Ids
<1>2. Given' /\ Matched'
  BY DEF IInv, Given, Matched, Enable, Handling
<1>3. AcceptedIsCurrent'
  BY DEF Enable, AcceptedIsCurrent
<1> QED BY <1>1, <1>2, <1>3 DEF IInv

LEMMA DisableStep ==
  ASSUME IInv, Disable
  PROVE  IInv'
<1>1. RelayTypeOK'
  BY DEF IInv, RelayTypeOK, Disable, States
<1>2. Given' /\ Matched'
  BY DEF IInv, Given, Matched, Disable, Handling
<1>3. AcceptedIsCurrent'
  BY DEF Disable, AcceptedIsCurrent
<1> QED BY <1>1, <1>2, <1>3 DEF IInv

LEMMA AnswerStep ==
  ASSUME IInv, NEW a \in Answers, AnswerFollow(a)
  PROVE  IInv'
BY DEF IInv, RelayTypeOK, Given, Matched, AcceptedIsCurrent, AnswerFollow

LEMMA ReadStep ==
  ASSUME IInv, NEW t \in Threads, NEW a \in answers, ReadAnswer(t, a)
  PROVE  IInv'
<1>1. a \in Answers
  BY DEF IInv, RelayTypeOK
<1>2. RelayTypeOK'
  BY <1>1 DEF IInv, RelayTypeOK, ReadAnswer, Handlers, Answers
<1>3. [id |-> a.id, state |-> a.state] = a
  BY <1>1 DEF Answers
<1>4. Given' /\ Matched'
  BY <1>3 DEF IInv, RelayTypeOK, Given, Matched, ReadAnswer
<1>5. AcceptedIsCurrent'
  BY DEF IInv, AcceptedIsCurrent, ReadAnswer
<1> QED BY <1>2, <1>4, <1>5 DEF IInv

LEMMA WriteStep ==
  ASSUME IInv, NEW t \in Threads, WriteState(t)
  PROVE  IInv'
<1> DEFINE h == handler[t]
<1>1. h \in [id : Ids, state : {"accepted", "rejected"}, read : States]
  BY DEF IInv, RelayTypeOK, WriteState, Handlers
<1>2. relay' \in [state : States, id : {0} \cup Ids] /\ relay'.id = relay.id
  BY <1>1 DEF IInv, RelayTypeOK, WriteState, States
<1>3. RelayTypeOK'
  BY <1>2 DEF IInv, RelayTypeOK, WriteState, Handlers
<1>4. Given' /\ Matched'
  BY <1>2 DEF IInv, RelayTypeOK, Given, Matched, WriteState
<1>5. AcceptedIsCurrent'
  <2> SUFFICES ASSUME relay'.state = "accepted", ~ overtaken
               PROVE  [id |-> relay'.id, state |-> "accepted"] \in answers
    BY DEF AcceptedIsCurrent, WriteState
  <2>1. CASE h.read = h.state
    BY <2>1 DEF IInv, AcceptedIsCurrent, WriteState
  <2>2. CASE h.read # h.state
    <3>1. h.state = "accepted"
      BY <2>2, <1>1 DEF IInv, RelayTypeOK, WriteState
    <3>2. h # NoAnswer
      BY DEF WriteState
    <3>3. h.id = relay'.id /\ [id |-> h.id, state |-> h.state] \in answers
      BY <1>2, <3>2 DEF IInv, Given, Matched
    <3> QED BY <3>1, <3>3
  <2> QED BY <2>1, <2>2
<1> QED BY <1>3, <1>4, <1>5 DEF IInv

LEMMA StepHolds == IInv /\ [RelayNext]_relayVars => IInv'
<1> SUFFICES ASSUME IInv, [RelayNext]_relayVars PROVE IInv'
  OBVIOUS
<1>1. CASE UNCHANGED relayVars
  BY <1>1 DEF relayVars, IInv, RelayTypeOK, Given, Matched, AcceptedIsCurrent
<1>2. CASE RelayNext
  BY <1>2, EnableStep, DisableStep, AnswerStep, ReadStep, WriteStep DEF RelayNext
<1> QED BY <1>1, <1>2

LEMMA Inductive == RelaySpec => []IInv
BY InitHolds, StepHolds, PTL DEF RelaySpec

\* The row of a relay, whatever the order of the answers, is accepted only by
\* the relay's answer to the Follow it was enabled with last (Relay#enable!,
\* Accept#accept_follow_for_relay).
THEOREM AcceptedAlways == RelaySpec => []AcceptedIsCurrent
<1>1. IInv => AcceptedIsCurrent
  BY DEF IInv
<1> QED BY <1>1, Inductive, PTL
=============================================================================
