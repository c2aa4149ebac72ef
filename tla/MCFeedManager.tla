--------------------------- MODULE MCFeedManager ---------------------------
(* Small worlds for TLC: who posted what, and the bounds. *)
EXTENDS FeedManager

CONSTANTS me, alice, bob, carol, t1, t2

NoMentions == [s \in Ids |-> {}]
AllPublic  == [s \in Ids |-> "public"]
NoReplies  == [s \in Ids |-> 0]

\* Reblogs to group: 3 (bob's), 4 (carol's) and 6 (mine) are reblogs of
\* alice's 1; 2 and 5 are other statuses of bob and alice
GroupedReblogOf == [s \in Ids |-> <<0, 0, 1, 1, 0, 1>>[s]]
GroupedAuthorOf == [s \in Ids |-> <<alice, bob, bob, carol, alice, me>>[s]]

\* A conversation: 1 is alice's, 2 bob's reply to it, 3 bob's and 4 my reblog
\* of 1, 5 a status of bob's limited to those it mentions
MixedReblogOf   == [s \in Ids |-> <<0, 0, 1, 1, 0>>[s]]
MixedAuthorOf   == [s \in Ids |-> <<alice, bob, bob, me, bob>>[s]]
MixedInReplyTo  == [s \in Ids |-> <<0, 1, 0, 0, 0>>[s]]
MixedMentions   == [s \in Ids |-> <<{}, {alice}, {}, {}, {me}>>[s]]
MixedVisibility == [s \in Ids |-> IF s = 5 THEN "limited" ELSE "public"]

\* Something to come back to: 2 (bob's) and 3 (carol's) are reblogs of
\* alice's 1; she wrote 4 and 5 since, about what I do not want to read
AbsenceReblogOf == [s \in Ids |-> <<0, 1, 1, 0, 0>>[s]]
AbsenceAuthorOf == [s \in Ids |-> <<alice, bob, carol, alice, alice>>[s]]
=============================================================================
