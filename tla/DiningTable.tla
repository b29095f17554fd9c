---------------------------- MODULE DiningTable ----------------------------
(***************************************************************************)
(* What the dining philosophers program promises, with no spoons and no    *)
(* semaphores: a philosopher starts to eat only while neither neighbour at *)
(* the round table eats.                                                   *)
(***************************************************************************)
EXTENDS Integers

CONSTANT PCOUNT     \* number of philosophers round the table

VARIABLE eating     \* the philosophers that eat now

Seats == 0 .. PCOUNT - 1

\* q sits next to p: one seat further, modulo the table.
Neighbours(p, q) == p # q /\ (q = (p + 1) % PCOUNT \/ p = (q + 1) % PCOUNT)

Init == eating = {}

StartEating(p) ==
    /\ p \notin eating
    /\ \A q \in eating : ~ Neighbours(p, q)
    /\ eating' = eating \cup {p}

StopEating(p) ==
    /\ p \in eating
    /\ eating' = eating \ {p}

Next == \E p \in Seats : StartEating(p) \/ StopEating(p)

Spec == Init /\ [][Next]_eating
=============================================================================
