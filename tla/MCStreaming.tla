---------------------------- MODULE MCStreaming ----------------------------
(* Clients for TLC. *)
EXTENDS Streaming

CONSTANTS c1, c2, c3

\* Two browser windows of one account, and a program that watches its
\* notifications
Windows ==
  [c \in Conns |-> IF c = c3 THEN "user:notification" ELSE "user"]

\* Visitors of the public timeline, with a token
Public == [c \in Conns |-> "public"]

PublicTraffic == {Message(e, "timeline:public", s) : e \in {"update", "delete"}, s \in Statuses}
=============================================================================
