----------------------------- MODULE MCGoBackN ------------------------------
(* GoBackN on small instances. *)
EXTENDS GoBackN
=============================================================================
