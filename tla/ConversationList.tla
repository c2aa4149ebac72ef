-------------------------- MODULE ConversationList --------------------------
(***************************************************************************)
(* What AccountConversation promises the owners of conversations: a list   *)
(* of statuses each, to which a status is added and from which it is       *)
(* removed as if nobody else touched the list at the time.                 *)
(***************************************************************************)
CONSTANTS
  Lists,      \* pairs of an owner and the other participants
  Statuses,
  Author      \* Statuses -> owners

VARIABLES
  list,       \* Lists -> the statuses shown
  unread      \* Lists -> whether it is marked as unread

vars == <<list, unread>>

Init ==
  /\ list = [l \in Lists |-> {}]
  /\ unread = [l \in Lists |-> FALSE]

Add(l, s) ==
  /\ s \notin list[l]
  /\ list' = [list EXCEPT ![l] = @ \cup {s}]
  /\ unread' = [unread EXCEPT ![l] = Author[s] # l[1]]

\* A status disappears from several lists at once; a list with nothing left
\* disappears with it
Remove(L, s) ==
  /\ \A l \in L : s \in list[l]
  /\ list' = [l \in Lists |-> IF l \in L THEN list[l] \ {s} ELSE list[l]]
  /\ unread' = [l \in Lists |-> unread[l] /\ ~ (l \in L /\ list[l] = {s})]

Dismiss(l) ==
  /\ list' = [list EXCEPT ![l] = {}]
  /\ unread' = [unread EXCEPT ![l] = FALSE]

Read(l) ==
  /\ unread' = [unread EXCEPT ![l] = FALSE]
  /\ UNCHANGED list

Next ==
  \/ \E l \in Lists, s \in Statuses : Add(l, s)
  \/ \E L \in SUBSET Lists, s \in Statuses : Remove(L, s)
  \/ \E l \in Lists : Dismiss(l) \/ Read(l)

Spec == Init /\ [][Next]_vars
=============================================================================
