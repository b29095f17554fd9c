--------------------------- MODULE MCSharedQueue ----------------------------
(* SharedQueue on small instances. *)
EXTENDS SharedQueue
=============================================================================
