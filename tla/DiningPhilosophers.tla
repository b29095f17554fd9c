------------------------- MODULE DiningPhilosophers -------------------------
(***************************************************************************)
(* src/2_dining_philsophers/2_dining_philisophers.c                        *)
(*                                                                         *)
(* PCOUNT threads share PCOUNT semaphores, one per spoon.  Each thread      *)
(* waits for two spoons, eats, posts them in the opposite order, sleeps    *)
(* and starts again; a philosopher with an odd id takes its spoons in the  *)
(* other order.  main initialises every semaphore to 1 and then creates    *)
(* the threads one by one, so early threads run while later ones do not    *)
(* exist yet.                                                              *)
(***************************************************************************)
EXTENDS Integers

CONSTANT PCOUNT     \* 5 in the program

ASSUME PCountAssumption == PCOUNT \in Nat /\ PCOUNT >= 2

VARIABLES
    semaphore,      \* semaphore[s]: value of the semaphore of spoon s
    created,        \* main has created threads 0 .. created-1
    pc              \* pc[p]: where thread p is in worker_thread

vars == <<semaphore, created, pc>>

Philosophers == 0 .. PCOUNT - 1
Spoons == 0 .. PCOUNT - 1

(***************************************************************************)
(* The locals leftSpoon and rightSpoon after the swap: the spoon thread p   *)
(* waits for first and the one it waits for second.                        *)
(***************************************************************************)
NeverSwapped(p) == FALSE                        \* mutant of IsOdd
IsOdd(p) == p % 2 = 1
PrevSpoon(p) == (p + PCOUNT - 1) % PCOUNT
LeftSpoon(p) == IF IsOdd(p) THEN PrevSpoon(p) ELSE p
RightSpoon(p) == IF IsOdd(p) THEN p ELSE PrevSpoon(p)

Labels == {"wait_left", "wait_right", "eating", "post_left", "sleeping"}

Init ==
    /\ semaphore = [s \in Spoons |-> 1]
    /\ created = 0
    /\ pc = [p \in Philosophers |-> "wait_left"]

\* main: the next iteration of the pthread_create loop.
CreateThread ==
    /\ created < PCOUNT
    /\ created' = created + 1
    /\ UNCHANGED <<semaphore, pc>>

SemWaitUnchecked(s) ==                          \* mutant of SemWait
    semaphore' = [semaphore EXCEPT ![s] = IF @ > 0 THEN @ - 1 ELSE 0]

\* sem_wait returns: only while the semaphore is positive.
SemWait(s) ==
    /\ semaphore[s] > 0
    /\ semaphore' = [semaphore EXCEPT ![s] = @ - 1]

SemPost(s) == semaphore' = [semaphore EXCEPT ![s] = @ + 1]

Goto(p, from, to) ==
    /\ p < created
    /\ pc[p] = from
    /\ pc' = [pc EXCEPT ![p] = to]
    /\ UNCHANGED created

WaitLeft(p)  == Goto(p, "wait_left", "wait_right") /\ SemWait(LeftSpoon(p))
WaitRightOrTimeOut(p) ==                        \* mutant of WaitRight
    \/ Goto(p, "wait_right", "eating") /\ SemWait(RightSpoon(p))
    \/ Goto(p, "wait_right", "wait_left") /\ SemPost(LeftSpoon(p))
WaitRight(p) == Goto(p, "wait_right", "eating")    /\ SemWait(RightSpoon(p))
PostRight(p) == Goto(p, "eating", "post_left")     /\ SemPost(RightSpoon(p))
PostLeft(p)  == Goto(p, "post_left", "sleeping")   /\ SemPost(LeftSpoon(p))
WakeUp(p)    == Goto(p, "sleeping", "wait_left")   /\ UNCHANGED semaphore

Worker(p) == WaitLeft(p) \/ WaitRight(p) \/ PostRight(p) \/ PostLeft(p) \/ WakeUp(p)

Next == CreateThread \/ \E p \in Philosophers : Worker(p)

Spec == Init /\ [][Next]_vars

(***************************************************************************)
(* The kernel runs every runnable thread, and a thread that keeps finding  *)
(* its semaphore posted gets it in the end: each spoon has two users, and  *)
(* the one that posts it sleeps for hundreds of milliseconds before it     *)
(* waits for it again.                                                     *)
(***************************************************************************)
FairSpec ==
    /\ Spec
    /\ WF_vars(CreateThread)
    /\ \A p \in Philosophers : /\ WF_vars(Worker(p))
                             /\ SF_vars(WaitLeft(p)) /\ SF_vars(WaitRight(p))

-----------------------------------------------------------------------------
\* Semaphores count from 0 to 1, and a thread is at one of its calls.
TypeOK ==
    /\ semaphore \in [Spoons -> {0, 1}]
    /\ created \in 0 .. PCOUNT
    /\ pc \in [Philosophers -> Labels]

HoldsLeft(p)  == pc[p] \in {"wait_right", "eating", "post_left"}
HoldsRight(p) == pc[p] = "eating"
Holds(p, s) == \/ HoldsLeft(p) /\ s = LeftSpoon(p)
               \/ HoldsRight(p) /\ s = RightSpoon(p)

\* Thread p sleeps in sem_wait on spoon s.
BlockedOn(p, s) ==
    /\ p < created
    /\ \/ pc[p] = "wait_left" /\ s = LeftSpoon(p)
       \/ pc[p] = "wait_right" /\ s = RightSpoon(p)
    /\ semaphore[s] = 0

Blocked(p) == \E s \in Spoons : BlockedOn(p, s)

(***************************************************************************)
(* No two philosophers use one spoon at a time: whoever holds spoon s is    *)
(* its only holder, and s has a holder exactly when its semaphore is 0.    *)
(* The semaphores and the program counters of all threads agree.           *)
(***************************************************************************)
SpoonsAccountedFor ==
    \A s \in Spoons :
        /\ \A p, q \in Philosophers : Holds(p, s) /\ Holds(q, s) => p = q
        /\ semaphore[s] = 0 <=> \E p \in Philosophers : Holds(p, s)

(***************************************************************************)
(* Deadlock freedom, for which the odd ids swap their spoons: a thread     *)
(* that is blocked on a spoon is blocked by a chain of holders that ends   *)
(* at one that can run (it eats, it posts, or its other spoon is free).     *)
(***************************************************************************)
BlockedBehindRunnable ==
    (\E p \in Philosophers : Blocked(p)) =>
        \E q \in Philosophers : HoldsLeft(q) /\ ~ Blocked(q)

(***************************************************************************)
(* The promise of DiningTable, with the threads at "eating" as the eaters. *)
(***************************************************************************)
Table == INSTANCE DiningTable
            WITH eating <- {p \in Philosophers : pc[p] = "eating"}

TableSpec == Table!Spec

(***************************************************************************)
(* No philosopher starves: the infinite loop of every thread reaches the   *)
(* meal again and again.                                                   *)
(***************************************************************************)
NobodyStarves == \A p \in Philosophers : []<>(pc[p] = "eating")
=============================================================================
