---------------------------- MODULE MCTimelines ----------------------------
(* A window; the fourth status is a reblog of the second. *)
EXTENDS Timelines

OneReblog == [s \in Ids |-> IF s = 4 THEN 2 ELSE 0]
=============================================================================
