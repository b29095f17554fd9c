------------------------- MODULE MCSelectiveRepeat --------------------------
(* SelectiveRepeat on small instances. *)
EXTENDS SelectiveRepeat
=============================================================================
