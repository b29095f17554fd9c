---------------------------- MODULE DiningProofs ----------------------------
(***************************************************************************)
(* Theorems about DiningPhilosophers, for any number of philosophers.      *)
(***************************************************************************)
EXTENDS DiningPhilosophers, TLAPS

(***************************************************************************)
(* The round table.                                                        *)
(***************************************************************************)

\* The modulo in worker_thread computes the previous seat.
LEMMA PrevSpoonValue ==
    ASSUME NEW p \in Philosophers
    PROVE  PrevSpoon(p) = IF p = 0 THEN PCOUNT - 1 ELSE p - 1
  BY PCountAssumption, SMT DEF Philosophers, PrevSpoon

\* The two spoons of a philosopher are two different spoons of the table.
LEMMA TwoSpoons ==
    ASSUME NEW p \in Philosophers
    PROVE  /\ LeftSpoon(p) \in Spoons
           /\ RightSpoon(p) \in Spoons
           /\ LeftSpoon(p) # RightSpoon(p)
  BY PCountAssumption, PrevSpoonValue
     DEF Philosophers, Spoons, LeftSpoon, RightSpoon

\* What the swap of the odd ids is for: a spoon is one philosopher's second
\* and another's first at one place of the table at most.
LEMMA OnlyOneMixedSpoon ==
    ASSUME NEW p \in Philosophers, NEW q \in Philosophers,
           p # q, RightSpoon(p) = LeftSpoon(q)
    PROVE  p = 0 /\ q = PCOUNT - 1
  BY PCountAssumption, PrevSpoonValue
     DEF Philosophers, LeftSpoon, RightSpoon, IsOdd

\* Neighbours share a spoon.
LEMMA NeighboursShareSpoon ==
    ASSUME NEW p \in Philosophers, NEW q \in Philosophers,
           Table!Neighbours(p, q)
    PROVE  \E s \in Spoons : /\ s \in {LeftSpoon(p), RightSpoon(p)}
                             /\ s \in {LeftSpoon(q), RightSpoon(q)}
<1>1. PICK x \in Philosophers, y \in Philosophers :
        {x, y} = {p, q} /\ y = (x + 1) % PCOUNT
  BY DEF Table!Neighbours
<1>2. PrevSpoon(y) = x
  BY <1>1, PCountAssumption, PrevSpoonValue DEF Philosophers
<1>3. x \in Spoons /\ x \in {LeftSpoon(x), RightSpoon(x)}
  BY DEF Philosophers, Spoons, LeftSpoon, RightSpoon
<1>4. x \in {LeftSpoon(y), RightSpoon(y)}
  BY <1>2 DEF LeftSpoon, RightSpoon
<1> QED
  BY <1>1, <1>3, <1>4

-----------------------------------------------------------------------------
(***************************************************************************)
(* Types.                                                                  *)
(***************************************************************************)

\* The initial state has the types.
LEMMA InitTypeOK == Init => TypeOK
  BY PCountAssumption DEF Init, TypeOK, Labels

\* Every step keeps the types; that no semaphore passes 1 needs the account.
LEMMA StepTypeOK ==
    ASSUME TypeOK, SpoonsAccountedFor, [Next]_vars
    PROVE  TypeOK'
<1> USE DEF TypeOK, Labels
<1>1. CASE CreateThread
  BY <1>1, PCountAssumption DEF CreateThread
<1>2. ASSUME NEW p \in Philosophers, WaitLeft(p) PROVE TypeOK'
  BY <1>2, TwoSpoons DEF WaitLeft, Goto, SemWait
<1>3. ASSUME NEW p \in Philosophers, WaitRight(p) PROVE TypeOK'
  BY <1>3, TwoSpoons DEF WaitRight, Goto, SemWait
<1>4. ASSUME NEW p \in Philosophers, PostRight(p) PROVE TypeOK'
  <2>1. Holds(p, RightSpoon(p)) /\ RightSpoon(p) \in Spoons
    BY <1>4, TwoSpoons DEF PostRight, Goto, Holds, HoldsRight
  <2>2. semaphore[RightSpoon(p)] = 0
    BY <2>1 DEF SpoonsAccountedFor
  <2> QED
    BY <1>4, <2>1, <2>2 DEF PostRight, Goto, SemPost
<1>5. ASSUME NEW p \in Philosophers, PostLeft(p) PROVE TypeOK'
  <2>1. Holds(p, LeftSpoon(p)) /\ LeftSpoon(p) \in Spoons
    BY <1>5, TwoSpoons DEF PostLeft, Goto, Holds, HoldsLeft
  <2>2. semaphore[LeftSpoon(p)] = 0
    BY <2>1 DEF SpoonsAccountedFor
  <2> QED
    BY <1>5, <2>1, <2>2 DEF PostLeft, Goto, SemPost
<1>6. ASSUME NEW p \in Philosophers, WakeUp(p) PROVE TypeOK'
  BY <1>6 DEF WakeUp, Goto
<1>7. CASE UNCHANGED vars
  BY <1>7 DEF vars
<1> QED
  BY <1>1, <1>2, <1>3, <1>4, <1>5, <1>6, <1>7 DEF Next, Worker

-----------------------------------------------------------------------------
(***************************************************************************)
(* Spoons and their holders.                                               *)
(***************************************************************************)

\* At first nobody holds a spoon and all are free.
LEMMA InitSpoons == Init => SpoonsAccountedFor
  BY DEF Init, SpoonsAccountedFor, Holds, HoldsLeft, HoldsRight, Spoons, Philosophers

\* Taking a free spoon keeps the account.
LEMMA TakeKeepsAccount ==
    ASSUME TypeOK, SpoonsAccountedFor,
           NEW p \in Philosophers, NEW t \in Spoons, SemWait(t),
           \A q \in Philosophers, s \in Spoons :
               Holds(q, s)' <=> Holds(q, s) \/ (q = p /\ s = t)
    PROVE  SpoonsAccountedFor'
<1>1. semaphore[t] = 1 /\ semaphore' = [semaphore EXCEPT ![t] = 0]
  <2>1. semaphore[t] \in {0, 1} /\ semaphore[t] > 0
    BY DEF SemWait, TypeOK
  <2>2. semaphore[t] = 1 /\ semaphore[t] - 1 = 0
    BY <2>1
  <2> QED
    BY <2>2 DEF SemWait
<1>2. \A q \in Philosophers : ~ Holds(q, t)
  BY <1>1 DEF SpoonsAccountedFor
<1> SUFFICES ASSUME NEW s \in Spoons
             PROVE  /\ \A q, r \in Philosophers : Holds(q, s)' /\ Holds(r, s)' => q = r
                    /\ (semaphore[s] = 0)' <=> \E q \in Philosophers : Holds(q, s)'
  BY DEF SpoonsAccountedFor
<1>3. CASE s = t
  BY <1>1, <1>2, <1>3 DEF TypeOK
<1>4. CASE s # t
  BY <1>1, <1>4 DEF TypeOK, SpoonsAccountedFor
<1> QED
  BY <1>3, <1>4

\* Posting a spoon one holds keeps the account.
LEMMA PostKeepsAccount ==
    ASSUME TypeOK, SpoonsAccountedFor,
           NEW p \in Philosophers, NEW t \in Spoons, Holds(p, t), SemPost(t),
           \A q \in Philosophers, s \in Spoons :
               Holds(q, s)' <=> Holds(q, s) /\ ~ (q = p /\ s = t)
    PROVE  SpoonsAccountedFor'
<1>1. semaphore[t] = 0 /\ semaphore' = [semaphore EXCEPT ![t] = 1]
  <2>1. semaphore[t] = 0
    BY DEF SpoonsAccountedFor
  <2>2. semaphore[t] + 1 = 1
    BY <2>1
  <2> QED
    BY <2>1, <2>2 DEF SemPost
<1>2. \A q \in Philosophers : Holds(q, t) => q = p
  BY DEF SpoonsAccountedFor
<1> SUFFICES ASSUME NEW s \in Spoons
             PROVE  /\ \A q, r \in Philosophers : Holds(q, s)' /\ Holds(r, s)' => q = r
                    /\ (semaphore[s] = 0)' <=> \E q \in Philosophers : Holds(q, s)'
  BY DEF SpoonsAccountedFor
<1>3. CASE s = t
  BY <1>1, <1>2, <1>3 DEF TypeOK
<1>4. CASE s # t
  BY <1>1, <1>4 DEF TypeOK, SpoonsAccountedFor
<1> QED
  BY <1>3, <1>4

\* Every step keeps the account.
LEMMA StepSpoons ==
    ASSUME TypeOK, SpoonsAccountedFor, [Next]_vars
    PROVE  SpoonsAccountedFor'
<1> USE DEF Holds, HoldsLeft, HoldsRight
<1>1. ASSUME NEW p \in Philosophers, WaitLeft(p) PROVE SpoonsAccountedFor'
  <2>1. \A q \in Philosophers, s \in Spoons :
            Holds(q, s)' <=> Holds(q, s) \/ (q = p /\ s = LeftSpoon(p))
    BY <1>1 DEF WaitLeft, Goto, TypeOK
  <2> QED
    BY <1>1, <2>1, TwoSpoons, TakeKeepsAccount DEF WaitLeft
<1>2. ASSUME NEW p \in Philosophers, WaitRight(p) PROVE SpoonsAccountedFor'
  <2>1. \A q \in Philosophers, s \in Spoons :
            Holds(q, s)' <=> Holds(q, s) \/ (q = p /\ s = RightSpoon(p))
    BY <1>2 DEF WaitRight, Goto, TypeOK
  <2> QED
    BY <1>2, <2>1, TwoSpoons, TakeKeepsAccount DEF WaitRight
<1>3. ASSUME NEW p \in Philosophers, PostRight(p) PROVE SpoonsAccountedFor'
  <2>1. Holds(p, RightSpoon(p))
    BY <1>3 DEF PostRight, Goto
  <2>2. \A q \in Philosophers, s \in Spoons :
            Holds(q, s)' <=> Holds(q, s) /\ ~ (q = p /\ s = RightSpoon(p))
    BY <1>3, TwoSpoons DEF PostRight, Goto, TypeOK
  <2> QED
    BY <1>3, <2>1, <2>2, TwoSpoons, PostKeepsAccount DEF PostRight
<1>4. ASSUME NEW p \in Philosophers, PostLeft(p) PROVE SpoonsAccountedFor'
  <2>1. Holds(p, LeftSpoon(p))
    BY <1>4 DEF PostLeft, Goto
  <2>2. \A q \in Philosophers, s \in Spoons :
            Holds(q, s)' <=> Holds(q, s) /\ ~ (q = p /\ s = LeftSpoon(p))
    BY <1>4 DEF PostLeft, Goto, TypeOK
  <2> QED
    BY <1>4, <2>1, <2>2, TwoSpoons, PostKeepsAccount DEF PostLeft
<1>5. ASSUME NEW p \in Philosophers, WakeUp(p) PROVE SpoonsAccountedFor'
  <2>1. \A q \in Philosophers, s \in Spoons : Holds(q, s)' <=> Holds(q, s)
    BY <1>5 DEF WakeUp, Goto, TypeOK
  <2> QED
    BY <1>5, <2>1 DEF WakeUp, SpoonsAccountedFor
<1>6. CASE CreateThread \/ UNCHANGED vars
  BY <1>6 DEF CreateThread, vars, SpoonsAccountedFor
<1> QED
  BY <1>1, <1>2, <1>3, <1>4, <1>5, <1>6 DEF Next, Worker

-----------------------------------------------------------------------------
(***************************************************************************)
(* The inductive invariant and what follows from it.                       *)
(***************************************************************************)

\* The semaphores stay binary and every spoon has at most one user, namely
\* when its semaphore is 0: sem_wait and sem_post pair up in every thread.
\* Neither half is inductive alone: that a post does not raise a semaphore
\* to 2 rests on the poster being a holder of the spoon.
THEOREM SpoonSafety == Spec => [](TypeOK /\ SpoonsAccountedFor)
<1>1. Init => TypeOK /\ SpoonsAccountedFor
  BY InitTypeOK, InitSpoons
<1>2. TypeOK /\ SpoonsAccountedFor /\ [Next]_vars => (TypeOK /\ SpoonsAccountedFor)'
  BY StepTypeOK, StepSpoons
<1> QED
  BY <1>1, <1>2, PTL DEF Spec

\* A holder that is blocked waits for its right spoon.
LEMMA BlockedHolder ==
    ASSUME TypeOK, NEW q \in Philosophers, HoldsLeft(q), Blocked(q)
    PROVE  pc[q] = "wait_right" /\ semaphore[RightSpoon(q)] = 0
  BY DEF HoldsLeft, Blocked, BlockedOn

\* Who holds the right spoon of a blocked holder, unless it can run, is the
\* last philosopher, and the blocked one is philosopher 0.
LEMMA HolderOfRightSpoon ==
    ASSUME TypeOK, SpoonsAccountedFor,
           \A q \in Philosophers : HoldsLeft(q) => Blocked(q),
           NEW p \in Philosophers, HoldsLeft(p)
    PROVE  p = 0 /\ \E q \in Philosophers : q = PCOUNT - 1 /\ HoldsLeft(q)
<1>1. pc[p] = "wait_right" /\ semaphore[RightSpoon(p)] = 0
  BY BlockedHolder
<1>2. PICK q \in Philosophers : Holds(q, RightSpoon(p))
  BY <1>1, TwoSpoons DEF SpoonsAccountedFor
<1>3. HoldsLeft(q)
  BY <1>2 DEF Holds, HoldsLeft, HoldsRight
<1>4. pc[q] = "wait_right"
  BY <1>3, BlockedHolder
<1>5. RightSpoon(p) = LeftSpoon(q)
  BY <1>2, <1>4 DEF Holds, HoldsRight
<1>6. p # q
  BY <1>5, TwoSpoons
<1> QED
  BY <1>3, <1>5, <1>6, OnlyOneMixedSpoon

\* Somebody who holds a spoon can run as soon as somebody is blocked.
LEMMA NoBlockedCycle ==
    ASSUME TypeOK, SpoonsAccountedFor
    PROVE  BlockedBehindRunnable
<1> SUFFICES ASSUME NEW p \in Philosophers, Blocked(p),
                    \A q \in Philosophers : HoldsLeft(q) => Blocked(q)
             PROVE  FALSE
  BY DEF BlockedBehindRunnable
<1>1. PICK s \in Spoons : semaphore[s] = 0
  BY DEF Blocked, BlockedOn
<1>2. PICK q \in Philosophers : Holds(q, s)
  BY <1>1 DEF SpoonsAccountedFor
<1>3. HoldsLeft(q)
  BY <1>2 DEF Holds, HoldsLeft, HoldsRight
<1>4. PICK r \in Philosophers : r = PCOUNT - 1 /\ HoldsLeft(r)
  BY <1>3, HolderOfRightSpoon
<1>5. r = 0
  BY <1>4, HolderOfRightSpoon
<1> QED
  BY <1>4, <1>5, PCountAssumption

\* Deadlock freedom for every number of philosophers, odd or even: the wait
\* chain behind a blocked thread ends at a holder that can run.
THEOREM DeadlockFreedom == Spec => []BlockedBehindRunnable
  BY SpoonSafety, NoBlockedCycle, PTL

-----------------------------------------------------------------------------
(***************************************************************************)
(* The program implements the table.                                       *)
(***************************************************************************)

Eaters == {p \in Philosophers : pc[p] = "eating"}

\* A step of the threads is a step of the table, or none.
LEMMA StepTable ==
    ASSUME TypeOK, SpoonsAccountedFor, SpoonsAccountedFor', [Next]_vars
    PROVE  [Table!Next]_Eaters
<1>1. ASSUME NEW p \in Philosophers, WaitRight(p) PROVE Table!Next
  <2>1. p \notin Eaters /\ Eaters' = Eaters \cup {p}
    BY <1>1 DEF WaitRight, Goto, TypeOK, Eaters
  <2>2. ASSUME NEW q \in Eaters PROVE ~ Table!Neighbours(p, q)
    <3> SUFFICES ASSUME Table!Neighbours(p, q) PROVE FALSE
      OBVIOUS
    <3>1. q \in Philosophers /\ q # p /\ pc'[p] = "eating" /\ pc'[q] = "eating"
      BY <1>1, <2>1 DEF WaitRight, Goto, TypeOK, Eaters
    <3>2. PICK s \in Spoons : /\ s \in {LeftSpoon(p), RightSpoon(p)}
                              /\ s \in {LeftSpoon(q), RightSpoon(q)}
      BY <3>1, NeighboursShareSpoon
    <3>3. Holds(p, s)' /\ Holds(q, s)'
      BY <3>1, <3>2 DEF Holds, HoldsLeft, HoldsRight
    <3> QED
      BY <3>1, <3>3 DEF SpoonsAccountedFor
  <2> QED
    BY <2>1, <2>2 DEF Table!Next, Table!StartEating, Table!Seats, Philosophers, Eaters
<1>2. ASSUME NEW p \in Philosophers, PostRight(p) PROVE Table!Next
  <2>1. p \in Eaters /\ Eaters' = Eaters \ {p}
    BY <1>2 DEF PostRight, Goto, TypeOK, Eaters
  <2> QED
    BY <2>1 DEF Table!Next, Table!StopEating, Table!Seats, Philosophers, Eaters
<1>3. ASSUME NEW p \in Philosophers, WaitLeft(p) \/ PostLeft(p) \/ WakeUp(p)
      PROVE  Eaters' = Eaters
  BY <1>3 DEF WaitLeft, PostLeft, WakeUp, Goto, TypeOK, Eaters
<1>4. CASE CreateThread \/ UNCHANGED vars
  BY <1>4 DEF CreateThread, vars, Eaters
<1> QED
  BY <1>1, <1>2, <1>3, <1>4 DEF Next, Worker

\* Threads at work_time never sit next to each other: the program implements
\* DiningTable, for every number of philosophers.
THEOREM ImplementsTable == Spec => TableSpec
<1>1. Init => Table!Init
  BY DEF Init, Table!Init
<1>2. TypeOK /\ SpoonsAccountedFor /\ SpoonsAccountedFor' /\ [Next]_vars
        => [Table!Next]_Eaters
  BY StepTable
<1> QED
  BY <1>1, <1>2, SpoonSafety, PTL DEF Spec, TableSpec, Table!Spec, Eaters
=============================================================================
