------------------------------- MODULE MCInbox -------------------------------
(* A note, one or two announcements of it, two threads. *)
EXTENDS Inbox

CONSTANTS note, boost, boost2, bob, carol, booster, w1, w2

OfNote == [a \in Announces |-> note]
ByOne  == [a \in Announces |-> booster]
=============================================================================
