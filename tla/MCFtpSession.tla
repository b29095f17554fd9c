---------------------------- MODULE MCFtpSession ----------------------------
(* FtpSession on small instances. *)
EXTENDS FtpSession, TLC

CONSTANTS c1, c2

Symmetry == Permutations(Clients)
=============================================================================
