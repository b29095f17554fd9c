--------------------------- MODULE MCSmtpSession ---------------------------
(* SmtpSession on a small instance. *)
EXTENDS SmtpSession, TLC

CONSTANTS c1, c2, m1

Symmetry == Permutations(Clients)

MCTyped == [verb : Verbs, arg : {m1}] \cup [verb : {"rcpt"}, arg : {Unknown}]
=============================================================================
