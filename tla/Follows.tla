------------------------------- MODULE Follows -------------------------------
(***************************************************************************)
(* Somebody here follows somebody on another server that runs this code.   *)
(*                                                                         *)
(* Each server has its own rows about the two: a follow or the request of  *)
(* one, and whether the account followed blocks the follower.  They learn  *)
(* of each other's changes by deliveries, which overtake one another.      *)
(* Follow and Undo go to the server of the account followed, Accept,       *)
(* Reject, Block and the Undo of a Block to that of the follower.          *)
(*                                                                         *)
(* An action is a request of one of the two people, or the handling of one *)
(* activity, whose rows are protected by unique indexes.                   *)
(***************************************************************************)
EXTENDS Naturals

CONSTANTS
  MaxFollows,   \* bound: follows that are requested
  MaxBlocks,    \* bound: blocks
  MaxRepeats    \* bound: activities delivered once more

ASSUME FollowsAssumption == {MaxFollows, MaxBlocks, MaxRepeats} \subseteq Nat

\* URIs of follows and of blocks; 0 is none
Attempts == 1..MaxFollows
Blocks   == 1..MaxBlocks

VARIABLES
  here,      \* the follower's server: rows, by the URI they came about with
  there,     \* the other server
  attempts, blocks, repeats,
  wire,      \* activities under way
  crossed    \* history: something was sent that older activities can overtake

vars == <<here, there, attempts, blocks, repeats, wire, crossed>>
-----------------------------------------------------------------------------
Rows == [follow : 0..MaxFollows, request : 0..MaxFollows, block : 0..MaxBlocks, mark : SUBSET (Attempts \cup Blocks)]

NoRows == [follow |-> 0, request |-> 0, block |-> 0, mark |-> {}]

Activities ==
  [type : {"Follow", "UndoFollow", "Accept", "Reject"}, id : Attempts]
  \cup [type : {"Block", "UndoBlock"}, id : Blocks]

Activity(t, i) == [type |-> t, id |-> i]

UnderWay(ts) == \E m \in wire : m.type \in ts

\* UnfollowService: what a row was replaced by, and whom to tell
Unfollowed(r) == IF r.follow # 0 THEN [r EXCEPT !.follow = 0] ELSE [r EXCEPT !.request = 0]

Undo(r) ==
  IF r.follow # 0 THEN {Activity("UndoFollow", r.follow)}
  ELSE IF r.request # 0 THEN {Activity("UndoFollow", r.request)} ELSE {}

\* FollowRequest#authorize!
Authorized(r, id) ==
  [r EXCEPT !.follow = IF @ = 0 THEN id ELSE @, !.request = 0]

-----------------------------------------------------------------------------
(* The follower *)

\* FollowService
Follow ==
  /\ attempts < MaxFollows
  /\ here.follow = 0 /\ here.request = 0 /\ here.block = 0
  /\ attempts' = attempts + 1
  /\ here' = [here EXCEPT !.request = attempts']
  /\ wire' = wire \cup {Activity("Follow", attempts')}
  /\ crossed' = (crossed \/ UnderWay({"Follow", "UndoFollow", "Accept", "Reject"}))
  /\ UNCHANGED <<there, blocks, repeats>>

Unfollow ==
  /\ Undo(here) # {}
  /\ here' = Unfollowed(here)
  /\ wire' = wire \cup Undo(here)
  /\ UNCHANGED <<there, attempts, blocks, repeats, crossed>>

-----------------------------------------------------------------------------
(* The one followed *)

\* AuthorizeFollowService
Authorize ==
  /\ there.request # 0
  /\ there' = Authorized(there, there.request)
  /\ wire' = wire \cup {Activity("Accept", there.request)}
  /\ UNCHANGED <<here, attempts, blocks, repeats, crossed>>

\* RejectFollowService
Refuse ==
  /\ there.request # 0
  /\ there' = [there EXCEPT !.request = 0]
  /\ wire' = wire \cup {Activity("Reject", there.request)}
  /\ UNCHANGED <<here, attempts, blocks, repeats, crossed>>

\* BlockService; a request is left as it is
Block ==
  /\ blocks < MaxBlocks
  /\ there.block = 0
  /\ blocks' = blocks + 1
  /\ there' = [there EXCEPT !.follow = 0, !.block = blocks']
  /\ wire' = wire \cup {Activity("Block", blocks')}
  /\ crossed' = (crossed \/ UnderWay({"Accept", "UndoBlock"}))
  /\ UNCHANGED <<here, attempts, repeats>>

\* UnblockService
Unblock ==
  /\ there.block # 0
  /\ there' = [there EXCEPT !.block = 0]
  /\ wire' = wire \cup {Activity("UndoBlock", there.block)}
  /\ crossed' = (crossed \/ UnderWay({"Block"}))
  /\ UNCHANGED <<here, attempts, blocks, repeats>>

-----------------------------------------------------------------------------
(* Activities that arrive *)

\* The activity is handled, and perhaps delivered again later
Arrive(m) ==
  /\ m \in wire
  /\ \/ repeats' = repeats /\ crossed' = crossed
     \/ repeats < MaxRepeats /\ repeats' = repeats + 1 /\ crossed' = TRUE
  /\ UNCHANGED <<attempts, blocks>>

Rest(m) == IF repeats' = repeats THEN wire \ {m} ELSE wire

\* Activity::Follow; whether the account is locked changes now and then
HandleFollow(m) ==
  LET id == m.id IN
  /\ m.type = "Follow" /\ Arrive(m)
  /\ UNCHANGED here
  /\ \/ /\ id \in there.mark \/ there.request # 0
        /\ wire' = Rest(m) /\ UNCHANGED there
     \/ /\ id \notin there.mark /\ there.request = 0
        /\ \/ /\ there.block # 0
              /\ wire' = Rest(m) \cup {Activity("Reject", id)} /\ UNCHANGED there
           \/ /\ there.block = 0 /\ there.follow # 0
              /\ wire' = Rest(m) \cup {Activity("Accept", id)} /\ UNCHANGED there
           \/ /\ there.block = 0 /\ there.follow = 0
              /\ \/ there' = [there EXCEPT !.request = id] /\ wire' = Rest(m)
                 \/ there' = Authorized(there, id)
                    /\ wire' = Rest(m) \cup {Activity("Accept", id)}

\* Variant: what has not arrived yet is not remembered
HandleUndoOnly(m) ==
  /\ m.type = "UndoFollow" /\ Arrive(m)
  /\ wire' = Rest(m)
  /\ there' = Unfollowed(there)
  /\ UNCHANGED here

\* Undo of a Follow, by the accounts, not by its URI
HandleUndoFollow(m) ==
  /\ m.type = "UndoFollow" /\ Arrive(m)
  /\ wire' = Rest(m)
  /\ there' = IF there.follow # 0 \/ there.request # 0
              THEN Unfollowed(there) ELSE [there EXCEPT !.mark = @ \cup {m.id}]
  /\ UNCHANGED here

\* Activity::Accept, for whatever is requested
HandleAccept(m) ==
  /\ m.type = "Accept" /\ Arrive(m)
  /\ wire' = Rest(m)
  /\ here' = IF here.request # 0 THEN Authorized(here, here.request) ELSE here
  /\ UNCHANGED there

\* Activity::Reject; a follow that was accepted before is undone
HandleReject(m) ==
  /\ m.type = "Reject" /\ Arrive(m)
  /\ here' = [here EXCEPT !.request = 0, !.follow = 0]
  /\ wire' = Rest(m) \cup (IF here.follow # 0 THEN Undo(here) ELSE {})
  /\ UNCHANGED there

\* Activity::Block
HandleBlock(m) ==
  /\ m.type = "Block" /\ Arrive(m)
  /\ IF m.id \in here.mark \/ here.block # 0
     THEN wire' = Rest(m) /\ UNCHANGED here
     ELSE /\ here' = [here EXCEPT !.follow = 0, !.block = m.id]
          /\ wire' = Rest(m) \cup (IF here.follow # 0 THEN Undo(here) ELSE {})
  /\ UNCHANGED there

\* Variant: what is remembered is the id of the row, of which there is none
HandleUndoOfRow(m) ==
  /\ m.type = "UndoBlock" /\ Arrive(m)
  /\ wire' = Rest(m)
  /\ here' = IF here.block # 0 THEN [here EXCEPT !.block = 0]
             ELSE [here EXCEPT !.mark = @ \cup {here.block}]
  /\ UNCHANGED there

\* Undo of a Block
HandleUndoBlock(m) ==
  /\ m.type = "UndoBlock" /\ Arrive(m)
  /\ wire' = Rest(m)
  /\ here' = IF here.block # 0 THEN [here EXCEPT !.block = 0]
             ELSE [here EXCEPT !.mark = @ \cup {m.id}]
  /\ UNCHANGED there

-----------------------------------------------------------------------------
\* Six hours are over
Forget(i) ==
  /\ i \in here.mark \cup there.mark
  /\ here' = [here EXCEPT !.mark = @ \ {i}]
  /\ there' = [there EXCEPT !.mark = @ \ {i}]
  /\ crossed' = (crossed \/ UnderWay({"Follow", "Block"}))
  /\ UNCHANGED <<attempts, blocks, repeats, wire>>

-----------------------------------------------------------------------------
Init ==
  /\ here = NoRows /\ there = NoRows
  /\ attempts = 0 /\ blocks = 0 /\ repeats = 0
  /\ wire = {}
  /\ crossed = FALSE

Handle(m) ==
  \/ HandleFollow(m) \/ HandleUndoFollow(m) \/ HandleAccept(m)
  \/ HandleReject(m) \/ HandleBlock(m) \/ HandleUndoBlock(m)

Next ==
  \/ Follow \/ Unfollow
  \/ Authorize \/ Refuse \/ Block \/ Unblock
  \/ \E m \in wire : Handle(m)
  \/ \E i \in Attempts \cup Blocks : Forget(i)

Spec == Init /\ [][Next]_vars
-----------------------------------------------------------------------------
TypeOK ==
  /\ here \in Rows /\ there \in Rows
  /\ attempts \in 0..MaxFollows /\ blocks \in 0..MaxBlocks /\ repeats \in 0..MaxRepeats
  /\ wire \subseteq Activities
  /\ crossed \in BOOLEAN

\* When nothing is under way the two servers agree on who follows, asks to
\* follow and blocks, in whatever order the activities arrived.  Excepted are
\* a follow, block or unblock that was sent while an older activity about the
\* same was under way, and what was delivered twice or later than its mark
AgreeInTheEnd ==
  wire = {} /\ ~ crossed =>
    /\ here.follow = there.follow /\ here.request = there.request /\ here.block = there.block
=============================================================================
