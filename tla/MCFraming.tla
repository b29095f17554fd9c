----------------------------- MODULE MCFraming -----------------------------
(* Framing on a small instance. *)
EXTENDS Framing
=============================================================================
