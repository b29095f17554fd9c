------------------------------ MODULE MCDining ------------------------------
EXTENDS DiningPhilosophers
=============================================================================
