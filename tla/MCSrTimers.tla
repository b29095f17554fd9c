----------------------------- MODULE MCSrTimers -----------------------------
(* SrTimers on small instances. *)
EXTENDS SrTimers
=============================================================================
