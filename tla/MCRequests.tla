------------------------------ MODULE MCRequests ------------------------------
(* Four things that share nothing here: a status that is posted, what two   *)
(* servers tell each other about a follow, a relay, and a person that is     *)
(* removed.  Each is explored on its own, while the others are as they begin. *)
EXTENDS Follows, Relays, Posting, Suspension, FiniteSets

CONSTANTS t1, t2, p1, p2

InsideOf(ts) == [matches |-> ts, atEnd |-> FALSE]
AtTheEnd     == [matches |-> {}, atEnd |-> TRUE]

\* Two rules of which the first makes work for the second; one that has
\* nothing to put; one that signs; and whoever never saved a profile
SomeProfiles ==
  {[regexes |-> <<InsideOf({"x"}), InsideOf({"s", ":x:", "@h"})>>, quirks |-> <<<<":x:">>, <<"s", "s">>>>],
   [regexes |-> <<InsideOf({"s"})>>, quirks |-> <<>>],
   [regexes |-> <<AtTheEnd>>, quirks |-> <<<<"s">>>>],
   Unset}

SomeTexts == {<<":x:", "s", "@h", "x">>}

AllInit == Init /\ RelayInit /\ PostingInit /\ SuspensionInit

FollowsIdle == attempts = 0 /\ blocks = 0
RelayIdle   == relay = [state |-> "idle", id |-> 0] /\ enables = 0
PostingIdle ==
  /\ profile = Unset /\ sends = 0
  /\ composer = [at |-> "editing", key |-> 1, text |-> <<":x:", "s", "@h", "x">>, local |-> FALSE]

SuspensionIdle == orders = 0 /\ way = [p \in Posts |-> "unsent"]

\* As many posts and orders as they are together: two of each, or one post
\* and three orders
Room == Cardinality({p \in Posts : way'[p] # "unsent"}) + orders' <= 4

AllNext ==
  \/ /\ Next /\ RelayIdle /\ PostingIdle /\ SuspensionIdle
     /\ UNCHANGED <<relayVars, postingVars, suspensionVars>>
  \/ /\ RelayNext /\ FollowsIdle /\ PostingIdle /\ SuspensionIdle
     /\ UNCHANGED <<vars, postingVars, suspensionVars>>
  \/ /\ PostingNext /\ FollowsIdle /\ RelayIdle /\ SuspensionIdle
     /\ UNCHANGED <<vars, relayVars, suspensionVars>>
  \/ /\ SuspensionNext /\ FollowsIdle /\ RelayIdle /\ PostingIdle /\ Room
     /\ UNCHANGED <<vars, relayVars, postingVars>>

Alike == Permutations({t1, t2})

AllSpec == AllInit /\ [][AllNext]_<<vars, relayVars, postingVars, suspensionVars>>
=============================================================================
