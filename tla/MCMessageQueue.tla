--------------------------- MODULE MCMessageQueue ---------------------------
(***************************************************************************)
(* MessageQueue on a small instance.  Two process ids in different parts:  *)
(* the queue of p1 is filled by clients that were killed, for which it     *)
(* takes more of them than of p2, whose clients fill the queue of the      *)
(* server.                                                                 *)
(***************************************************************************)
EXTENDS MessageQueue

CONSTANTS
    p1, p2,
    MaxRunsOfP2     \* bound: clients started with p2

MCNext == Next /\ run'[p2] <= MaxRunsOfP2

MCSpec == Init /\ [][MCNext]_vars /\ Fairness
=============================================================================
