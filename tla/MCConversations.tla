--------------------------- MODULE MCConversations ---------------------------
(* Two people who write to each other, two threads of Sidekiq. *)
EXTENDS Conversations

CONSTANTS alice, bob, w1, w2

Dialogue == [s \in Statuses |-> IF s = 2 THEN bob ELSE alice]
=============================================================================
