----------------------------- MODULE IpcProofs ------------------------------
(***************************************************************************)
(* The two queues of src/1_ipc: the message queues of server.c and         *)
(* client.c, and the shared memory queue of shm.c.                         *)
(***************************************************************************)
EXTENDS MessageQueue, SharedQueue, SequenceTheorems, FiniteSetTheorems, TLAPS

-----------------------------------------------------------------------------
(***************************************************************************)
(* SharedQueue: what holds of shm.c although its mutex excludes nobody,    *)
(* for every size of the buffer and every number of items.  Facts about %  *)
(* come first: a slot is the number of an item modulo BUFFER_SIZE.         *)
(***************************************************************************)

\* Two numbers less than m apart that agree modulo m are equal.
LEMMA ModUnique ==
    ASSUME NEW m \in Nat, m > 0, NEW a \in Nat, NEW b \in Nat,
           a % m = b % m, a - b < m, b - a < m
    PROVE  a = b
<1>1. PICK q \in Int, p \in Int, r \in 0 .. m - 1 : a = m * q + r /\ b = m * p + r
  <2>1. a = m * (a \div m) + (a % m) /\ b = m * (b \div m) + (b % m)
    OBVIOUS
  <2>2. a \div m \in Int /\ b \div m \in Int /\ a % m \in 0 .. m - 1
    OBVIOUS
  <2> QED
    BY <2>1, <2>2, Zenon
<1>2. m * q - m * p = m * (q - p)
  BY <1>1
<1>3. ~ (q - p >= 1) /\ ~ (q - p <= -1)
  <2>1. ASSUME NEW d \in Int, d >= 1 PROVE m * d >= m
    BY <2>1
  <2>2. ASSUME NEW d \in Int, d <= -1 PROVE m * d <= -m
    BY <2>2
  <2> QED
    BY <2>1, <2>2, <1>1, <1>2
<1> QED
  BY <1>1, <1>3

\* Counting on from a number reduced modulo m: what S_n = (S_n + 1) % m does.
LEMMA ModShift ==
    ASSUME NEW m \in Nat, m > 0, NEW a \in Nat, NEW k \in Nat, k <= m
    PROVE  ((a % m) + k) % m = (a + k) % m
<1>1. ASSUME NEW q \in Int, NEW r \in 0 .. m - 1 PROVE (m * q + r) % m = r
  OBVIOUS
<1>2. PICK q \in Int, r \in 0 .. m - 1 : a = m * q + r /\ a % m = r
  <2>1. a = m * (a \div m) + (a % m) /\ a \div m \in Int /\ a % m \in 0 .. m - 1
    OBVIOUS
  <2> QED
    BY <2>1, Zenon
<1>3. CASE r + k < m
  BY <1>1, <1>2, <1>3
<1>4. CASE r + k >= m
  <2> DEFINE s == r + k - m
  <2>1. s \in 0 .. m - 1 /\ a + k = m * (q + 1) + s /\ r + k = m * 1 + s
    BY <1>2, <1>4
  <2> HIDE DEF s
  <2>2. q + 1 \in Int /\ 1 \in Int
    OBVIOUS
  <2>3. (m * (q + 1) + s) % m = s /\ (m * 1 + s) % m = s
    BY <2>1, <2>2, <1>1, Zenon
  <2> QED
    BY <2>1, <2>3, <1>2
<1> QED
  BY <1>2, <1>3, <1>4

\* The size of the buffer is a positive number, the processes are two.
LEMMA BufferBasics ==
    /\ BUFFER_SIZE \in Nat /\ BUFFER_SIZE > 0 /\ MaxItems \in Nat
    /\ \A p \in Processes : p = "producer" \/ p = "consumer"
    /\ "producer" \in Processes /\ "consumer" \in Processes
    /\ \A p \in Processes : Other(p) \in Processes /\ Other(p) # p
  BY QueueAssumption DEF Processes, Other

\* The next slot is a slot.
LEMMA NextSlotInSlots ==
    ASSUME NEW s \in Slots
    PROVE  NextSlot(s) \in Slots
  BY BufferBasics DEF Slots, NextSlot

\* Slots are reached by counting: item i + 1 goes to the slot after item i's.
LEMMA NextSlotCounts ==
    ASSUME NEW i \in Nat
    PROVE  NextSlot(i % BUFFER_SIZE) = (i + 1) % BUFFER_SIZE
<1>1. BUFFER_SIZE \in Nat /\ BUFFER_SIZE > 0 /\ 1 \in Nat /\ 1 <= BUFFER_SIZE
  BY BufferBasics
<1> QED
  BY <1>1, ModShift, Zenon DEF NextSlot

-----------------------------------------------------------------------------
(***************************************************************************)
(* The types, which only the items consumed make more than a check of each *)
(* assignment: a slot may hold 0, an item nobody made.                     *)
(***************************************************************************)
LEMMA BufferTypeInit == ShmInit => ShmTypeOK
<1> SUFFICES ASSUME ShmInit PROVE ShmTypeOK
  OBVIOUS
<1>1. 0 \in Slots /\ 0 \in 0 .. MaxItems /\ 1 \in 1 .. MaxItems + 1
  BY BufferBasics DEF Slots
<1>2. <<>> \in Seq(0 .. MaxItems)
  OBVIOUS
<1>3. mutex \in [Processes -> SUBSET Processes]
  BY DEF ShmInit, MutexOf
<1> QED
  BY <1>1, <1>2, <1>3 DEF ShmInit, ShmTypeOK, Labels

\* Every step of the two processes keeps the types.
LEMMA BufferTypeStep == ShmTypeOK /\ [ShmNext]_shmVars => ShmTypeOK'
<1> SUFFICES ASSUME ShmTypeOK, [ShmNext]_shmVars PROVE ShmTypeOK'
  OBVIOUS
<1> USE DEF ShmTypeOK
<1>1. CASE UNCHANGED shmVars
  BY <1>1 DEF shmVars, segment, history
<1>2. ASSUME NEW p \in Processes, Lock(p) PROVE ShmTypeOK'
  BY <1>2 DEF Lock, Goto, Labels, MutexOf, segment, history
<1>3. ASSUME NEW p \in Processes, Unlock(p) PROVE ShmTypeOK'
  BY <1>3 DEF Unlock, Goto, Labels, MutexOf, segment, history
<1>4. ASSUME NEW p \in Processes, Test(p) PROVE ShmTypeOK'
  BY <1>4 DEF Test, Goto, Labels, segment, history
<1>5. ASSUME NEW p \in Processes, Load(p) PROVE ShmTypeOK'
  BY <1>5 DEF Load, Goto, Labels, segment
<1>6. ASSUME NEW p \in Processes, Store(p) PROVE ShmTypeOK'
  BY <1>6 DEF Store, Goto, Labels, history
<1>7. ASSUME Put PROVE ShmTypeOK'
  <2>1. nextItemId \in 0 .. MaxItems /\ nextItemId' \in 1 .. MaxItems + 1
    BY <1>7, BufferBasics DEF Put
  <2>2. next_avail' \in Slots
    BY <1>7, NextSlotInSlots DEF Put
  <2>3. data' \in [Slots -> 0 .. MaxItems]
    BY <1>7, <2>1 DEF Put
  <2> QED
    BY <1>7, <2>1, <2>2, <2>3 DEF Put, Goto, Labels, history
<1>8. ASSUME Take PROVE ShmTypeOK'
  <2>1. data[next_full] \in 0 .. MaxItems
    OBVIOUS
  <2>2. consumed' \in Seq(0 .. MaxItems)
    BY <1>8, <2>1 DEF Take
  <2>3. next_full' \in Slots
    BY <1>8, NextSlotInSlots DEF Take
  <2> QED
    BY <1>8, <2>2, <2>3 DEF Take, Goto, Labels
<1> QED
  BY <1>1, <1>2, <1>3, <1>4, <1>5, <1>6, <1>7, <1>8 DEF ShmNext, Process

\* The variables of shm.c keep to their ranges; the indices stay in the buffer.
THEOREM BufferTypes == ShmSpec => []ShmTypeOK
<1> QED
  BY BufferTypeInit, BufferTypeStep, PTL DEF ShmSpec

-----------------------------------------------------------------------------
(***************************************************************************)
(* The bounds of count.                                                    *)
(***************************************************************************)
RangeInv == CountInRange /\ TestStillHolds

\* The lemma of the two processes: neither can spoil what the other has tested.
LEMMA RangeStep == ShmTypeOK /\ RangeInv /\ [ShmNext]_shmVars => RangeInv'
<1> SUFFICES ASSUME ShmTypeOK, RangeInv, [ShmNext]_shmVars PROVE RangeInv'
  OBVIOUS
<1> USE BufferBasics
<1> USE DEF RangeInv, CountInRange, TestStillHolds, MayProceed, ShmTypeOK, Processes
<1>1. CASE UNCHANGED shmVars
  BY <1>1 DEF shmVars, segment
<1>2. ASSUME NEW p \in Processes, Lock(p) PROVE RangeInv'
  BY <1>2 DEF Lock, Goto, segment
<1>3. ASSUME NEW p \in Processes, Unlock(p) PROVE RangeInv'
  BY <1>3 DEF Unlock, Goto, segment
<1>4. ASSUME NEW p \in Processes, Test(p) PROVE RangeInv'
  BY <1>4 DEF Test, Goto, segment
<1>5. ASSUME NEW p \in Processes, Load(p) PROVE RangeInv'
  BY <1>5 DEF Load, Goto, segment
<1>6. ASSUME NEW p \in Processes, Store(p) PROVE RangeInv'
  BY <1>6 DEF Store, Goto
<1>7. ASSUME Put PROVE RangeInv'
  BY <1>7 DEF Put, Goto
<1>8. ASSUME Take PROVE RangeInv'
  BY <1>8 DEF Take, Goto
<1> QED
  BY <1>1, <1>2, <1>3, <1>4, <1>5, <1>6, <1>7, <1>8 DEF ShmNext, Process

(***************************************************************************)
(* Whatever the two processes do to each other's updates, count stays      *)
(* between 0 and BUFFER_SIZE, and so the tests of lines 66 and 82 stop     *)
(* both of them when they should by the count they see.                    *)
(***************************************************************************)
THEOREM CountSafety == ShmSpec => []CountInRange
<1>1. ShmInit => RangeInv
  BY BufferBasics DEF ShmInit, RangeInv, CountInRange, TestStillHolds, Processes
<1>2. RangeInv => CountInRange
  BY DEF RangeInv
<1> QED
  BY <1>1, <1>2, RangeStep, BufferTypes, PTL DEF ShmSpec

-----------------------------------------------------------------------------
(***************************************************************************)
(* The order of the items.                                                 *)
(***************************************************************************)
FifoInv == RangeInv /\ BufferHoldsTheRest /\ FifoUntilOverlap

\* A test, a lock and an unlock leave the buffer alone.
LEMMA FifoIdleStep ==
    ASSUME ShmTypeOK, FifoInv, UNCHANGED <<segment, nextItemId, history, reg>>,
           NEW p \in Processes, NEW to \in {"lock", "test", "access", "unlock"},
           pc[p] \in {"lock", "test", "unlock"}, pc' = [pc EXCEPT ![p] = to]
    PROVE  BufferHoldsTheRest' /\ FifoUntilOverlap'
<1>1. \A q \in Processes : Uncounted(q)' = Uncounted(q)
  BY DEF ShmTypeOK, Uncounted
<1>2. \A q \in Processes : pc'[q] = "store" <=> pc[q] = "store"
  BY DEF ShmTypeOK
<1>3. produced' = produced
  BY DEF produced
<1> QED
  BY <1>1, <1>2, <1>3, BufferBasics
  DEF FifoInv, BufferHoldsTheRest, FifoUntilOverlap, segment, history

\* The producer puts the next item behind those that wait.
LEMMA FifoPut ==
    ASSUME ShmTypeOK, FifoInv, Put
    PROVE  BufferHoldsTheRest' /\ FifoUntilOverlap'
<1> SUFFICES ASSUME ~ overlapped PROVE BufferHoldsTheRest' /\ FifoUntilOverlap'
  BY DEF Put, history, BufferHoldsTheRest, FifoUntilOverlap
<1> DEFINE P == produced
           C == Len(consumed)
<1>1. P \in Nat /\ C \in Nat /\ count \in 0 .. BUFFER_SIZE /\ P' = P + 1 /\ nextItemId = P + 1
  BY DEF ShmTypeOK, Put, produced, FifoInv, RangeInv, CountInRange
<1>2. count < BUFFER_SIZE /\ pc["producer"] = "access"
  BY BufferBasics DEF FifoInv, RangeInv, TestStillHolds, MayProceed, Put, Goto
<1>3. pc' = [pc EXCEPT !["producer"] = "load"]
  BY DEF Put, Goto
<1>4. /\ Uncounted("producer") = 0 /\ Uncounted("producer")' = 1
      /\ Uncounted("consumer")' = Uncounted("consumer") /\ Uncounted("consumer") \in {0, 1}
  BY <1>2, <1>3, BufferBasics DEF ShmTypeOK, Uncounted
<1>5. P - C < BUFFER_SIZE /\ P + Uncounted("consumer") = C + count
  BY <1>1, <1>2, <1>4, BufferBasics DEF FifoInv, BufferHoldsTheRest
<1>6. next_avail = P % BUFFER_SIZE /\ next_full = C % BUFFER_SIZE
  BY DEF FifoInv, BufferHoldsTheRest
<1>7. next_avail' = (P + 1) % BUFFER_SIZE
  BY <1>1, <1>6, NextSlotCounts DEF Put
<1>8. \A i \in C + 1 .. P + 1 : data'[(i - 1) % BUFFER_SIZE] = i
  <2> SUFFICES ASSUME NEW i \in C + 1 .. P + 1 PROVE data'[(i - 1) % BUFFER_SIZE] = i
    OBVIOUS
  <2>1. i - 1 \in Nat /\ (i - 1) % BUFFER_SIZE \in Slots
    BY <1>1, BufferBasics DEF Slots
  <2>2. data' = [data EXCEPT ![P % BUFFER_SIZE] = P + 1]
    BY <1>1, <1>6 DEF Put
  <2>3. CASE i = P + 1
    BY <2>1, <2>2, <2>3, <1>1 DEF ShmTypeOK
  <2>4. CASE i \in C + 1 .. P
    <3>1. data[(i - 1) % BUFFER_SIZE] = i
      BY <2>4 DEF FifoInv, BufferHoldsTheRest
    <3>2. i - 1 # P /\ (i - 1) - P < BUFFER_SIZE /\ P - (i - 1) < BUFFER_SIZE
      BY <2>4, <1>1, <1>5, BufferBasics
    <3>3. (i - 1) % BUFFER_SIZE # P % BUFFER_SIZE
      BY <3>2, <2>1, <1>1, BufferBasics, ModUnique
    <3> QED
      BY <3>1, <3>3, <2>1, <2>2 DEF ShmTypeOK
  <2> QED
    BY <2>3, <2>4, <1>1
<1>9. \A p \in Processes : pc'[p] = "store" <=> (p # "producer" /\ pc[p] = "store")
  BY <1>3, BufferBasics DEF ShmTypeOK
<1>10. UNCHANGED <<consumed, overlapped, count, reg, next_full>>
  BY DEF Put, history
<1>11. P' + Uncounted("consumer")' = C + count + Uncounted("producer")'
  BY <1>1, <1>4, <1>5
<1> HIDE DEF P
<1>12. BufferHoldsTheRest'
  BY <1>1, <1>6, <1>7, <1>8, <1>9, <1>10, <1>11, BufferBasics DEF FifoInv, BufferHoldsTheRest, P
<1> QED
  BY <1>10, <1>12 DEF FifoInv, FifoUntilOverlap

\* The consumer takes the oldest item that waits.
LEMMA FifoTake ==
    ASSUME ShmTypeOK, FifoInv, Take
    PROVE  BufferHoldsTheRest' /\ FifoUntilOverlap'
<1> SUFFICES ASSUME ~ overlapped PROVE BufferHoldsTheRest' /\ FifoUntilOverlap'
  BY DEF Take, BufferHoldsTheRest, FifoUntilOverlap
<1> DEFINE P == produced
           C == Len(consumed)
<1>1. P \in Nat /\ C \in Nat /\ count \in 0 .. BUFFER_SIZE /\ P' = P
  BY DEF ShmTypeOK, Take, produced, FifoInv, RangeInv, CountInRange
<1>2. count # 0 /\ pc["consumer"] = "access"
  BY BufferBasics DEF FifoInv, RangeInv, TestStillHolds, MayProceed, Take, Goto
<1>3. pc' = [pc EXCEPT !["consumer"] = "load"]
  BY DEF Take, Goto
<1>4. /\ Uncounted("consumer") = 0 /\ Uncounted("consumer")' = 1
      /\ Uncounted("producer")' = Uncounted("producer") /\ Uncounted("producer") \in {0, 1}
  BY <1>2, <1>3, BufferBasics DEF ShmTypeOK, Uncounted
<1>5. C + 1 <= P /\ P = C + count + Uncounted("producer")
  BY <1>1, <1>2, <1>4, BufferBasics DEF FifoInv, BufferHoldsTheRest
<1>6. next_avail = P % BUFFER_SIZE /\ next_full = C % BUFFER_SIZE
  BY DEF FifoInv, BufferHoldsTheRest
<1>7. data[next_full] = C + 1
  <2>1. C + 1 \in C + 1 .. P /\ (C + 1) - 1 = C
    BY <1>1, <1>5
  <2>2. data[((C + 1) - 1) % BUFFER_SIZE] = C + 1
    BY <2>1 DEF FifoInv, BufferHoldsTheRest
  <2> QED
    BY <2>1, <2>2, <1>6
<1>8. consumed \in Seq(0 .. MaxItems) /\ consumed' = Append(consumed, C + 1)
  BY <1>7 DEF ShmTypeOK, Take
<1>9. /\ Len(consumed') = C + 1 /\ consumed'[C + 1] = C + 1
      /\ \A i \in 1 .. C : consumed'[i] = consumed[i]
  BY <1>8
<1>10. next_full' = (C + 1) % BUFFER_SIZE
  BY <1>1, <1>6, NextSlotCounts DEF Take
<1>11. \A p \in Processes : pc'[p] = "store" <=> (p # "consumer" /\ pc[p] = "store")
  BY <1>3, BufferBasics DEF ShmTypeOK
<1>12. UNCHANGED <<overlapped, count, reg, data, next_avail>>
  BY DEF Take
<1>13. P' + Uncounted("consumer")' = (C + 1) + count + Uncounted("producer")'
  BY <1>1, <1>4, <1>5
<1>14. \A i \in (C + 1) + 1 .. P : data[(i - 1) % BUFFER_SIZE] = i
  BY <1>1 DEF FifoInv, BufferHoldsTheRest
<1> HIDE DEF P, C
<1>15. BufferHoldsTheRest'
  BY <1>1, <1>6, <1>9, <1>10, <1>11, <1>12, <1>13, <1>14, BufferBasics
  DEF FifoInv, BufferHoldsTheRest, P
<1>16. FifoUntilOverlap'
  <2>1. \A i \in 1 .. C : consumed[i] = i
    BY DEF FifoInv, FifoUntilOverlap, C
  <2> QED
    BY <2>1, <1>1, <1>9 DEF FifoUntilOverlap
<1> QED
  BY <1>15, <1>16

\* A load sees the count that nobody is about to overwrite, or an overlap begins.
LEMMA FifoLoad ==
    ASSUME ShmTypeOK, FifoInv, NEW p \in Processes, Load(p)
    PROVE  BufferHoldsTheRest' /\ FifoUntilOverlap'
<1> SUFFICES ASSUME ~ overlapped, pc[Other(p)] # "store"
             PROVE  BufferHoldsTheRest' /\ FifoUntilOverlap'
  BY DEF Load, BufferHoldsTheRest, FifoUntilOverlap
<1>1. pc[p] = "load" /\ pc' = [pc EXCEPT ![p] = "store"] /\ reg' = [reg EXCEPT ![p] = count]
  BY DEF Load, Goto
<1>2. UNCHANGED <<segment, nextItemId, consumed>> /\ overlapped' = FALSE
  BY DEF Load
<1>3. \A q \in Processes : q = p \/ q = Other(p)
  BY DEF Processes, Other
<1>4. \A q \in Processes : Uncounted(q)' = Uncounted(q)
  BY <1>1 DEF ShmTypeOK, Uncounted
<1>5. pc'[Other(p)] # "store" /\ reg'[p] = count
  BY <1>1, BufferBasics DEF ShmTypeOK
<1>6. produced' = produced
  BY <1>2 DEF produced
<1> QED
  BY <1>2, <1>3, <1>4, <1>5, <1>6, BufferBasics
  DEF FifoInv, BufferHoldsTheRest, FifoUntilOverlap, segment

\* A store counts the item in hand.
LEMMA FifoStore ==
    ASSUME ShmTypeOK, FifoInv, NEW p \in Processes, Store(p)
    PROVE  BufferHoldsTheRest' /\ FifoUntilOverlap'
<1> SUFFICES ASSUME ~ overlapped PROVE BufferHoldsTheRest' /\ FifoUntilOverlap'
  BY DEF Store, history, BufferHoldsTheRest, FifoUntilOverlap
<1>1. pc[p] = "store" /\ pc' = [pc EXCEPT ![p] = "unlock"] /\ reg' = reg
  BY DEF Store, Goto
<1>2. UNCHANGED <<data, next_full, next_avail, nextItemId, consumed, overlapped>>
  BY DEF Store, history
<1>3. reg[p] = count /\ count \in Int
  BY <1>1 DEF FifoInv, BufferHoldsTheRest, ShmTypeOK
<1>4. \A q \in Processes : q = p \/ q = Other(p)
  BY DEF Processes, Other
<1>5. pc[Other(p)] # "store" /\ pc'[Other(p)] = pc[Other(p)] /\ pc'[p] = "unlock"
  BY <1>1, <1>4, BufferBasics DEF FifoInv, BufferHoldsTheRest, ShmTypeOK
<1>6. /\ Uncounted(p) = 1 /\ Uncounted(p)' = 0
      /\ Uncounted(Other(p))' = Uncounted(Other(p)) /\ Uncounted(Other(p)) \in {0, 1}
  BY <1>1, <1>5 DEF Uncounted
<1>7. produced' = produced /\ produced \in Nat /\ Len(consumed) \in Nat
  BY <1>2 DEF produced, ShmTypeOK
<1>8. produced + Uncounted("consumer") = Len(consumed) + count + Uncounted("producer")
  BY DEF FifoInv, BufferHoldsTheRest
<1>9. produced + Uncounted("consumer")' = Len(consumed) + count' + Uncounted("producer")'
  <2>1. CASE p = "producer"
    BY <2>1, <1>3, <1>6, <1>7, <1>8 DEF Store, Other
  <2>2. CASE p = "consumer"
    BY <2>2, <1>3, <1>6, <1>7, <1>8 DEF Store, Other
  <2> QED
    BY <2>1, <2>2 DEF Processes
<1>10. \A q \in Processes : pc'[q] # "store"
  BY <1>4, <1>5
<1> QED
  BY <1>2, <1>7, <1>9, <1>10, BufferBasics DEF FifoInv, BufferHoldsTheRest, FifoUntilOverlap

\* Every step keeps the order.
LEMMA FifoStep == ShmTypeOK /\ FifoInv /\ [ShmNext]_shmVars => FifoInv'
<1> SUFFICES ASSUME ShmTypeOK, FifoInv, [ShmNext]_shmVars PROVE FifoInv'
  OBVIOUS
<1>1. RangeInv'
  BY RangeStep DEF FifoInv
<1>2. CASE UNCHANGED shmVars
  BY <1>2 DEF shmVars, segment, history, FifoInv, RangeInv, CountInRange, TestStillHolds,
              MayProceed, BufferHoldsTheRest, FifoUntilOverlap, produced, Uncounted
<1>3. ASSUME NEW p \in Processes, Lock(p) PROVE FifoInv'
  BY <1>1, <1>3, FifoIdleStep DEF Lock, Goto, FifoInv
<1>4. ASSUME NEW p \in Processes, Test(p) PROVE FifoInv'
  BY <1>1, <1>4, FifoIdleStep DEF Test, Goto, FifoInv
<1>5. ASSUME NEW p \in Processes, Unlock(p) PROVE FifoInv'
  BY <1>1, <1>5, FifoIdleStep DEF Unlock, Goto, FifoInv
<1>6. ASSUME NEW p \in Processes, Load(p) PROVE FifoInv'
  BY <1>1, <1>6, FifoLoad DEF FifoInv
<1>7. ASSUME NEW p \in Processes, Store(p) PROVE FifoInv'
  BY <1>1, <1>7, FifoStore DEF FifoInv
<1>8. CASE Put
  BY <1>1, <1>8, FifoPut DEF FifoInv
<1>9. CASE Take
  BY <1>1, <1>9, FifoTake DEF FifoInv
<1> QED
  BY <1>2, <1>3, <1>4, <1>5, <1>6, <1>7, <1>8, <1>9 DEF ShmNext, Process

(***************************************************************************)
(* Lines 62-91: the critical sections overlap freely, yet until two        *)
(* updates of count do, items are consumed in order, each once.            *)
(***************************************************************************)
THEOREM OrderUntilOverlap == ShmSpec => []FifoUntilOverlap
<1>1. ShmInit => FifoInv
  <2> SUFFICES ASSUME ShmInit PROVE FifoInv
    OBVIOUS
  <2>1. RangeInv
    BY BufferBasics DEF ShmInit, RangeInv, CountInRange, TestStillHolds, Processes
  <2>2. Len(consumed) = 0 /\ produced = 0
    BY DEF ShmInit, produced
  <2>3. 0 % BUFFER_SIZE = 0
    BY BufferBasics
  <2>4. Uncounted("producer") = 0 /\ Uncounted("consumer") = 0
    BY BufferBasics DEF ShmInit, Uncounted
  <2>5. BufferHoldsTheRest
    BY <2>2, <2>3, <2>4, BufferBasics DEF ShmInit, BufferHoldsTheRest
  <2> QED
    BY <2>1, <2>2, <2>5 DEF FifoInv, FifoUntilOverlap
<1>2. FifoInv => FifoUntilOverlap
  BY DEF FifoInv
<1> QED
  BY <1>1, <1>2, FifoStep, BufferTypes, PTL DEF ShmSpec

-----------------------------------------------------------------------------
(***************************************************************************)
(* MessageQueue, for every number of clients, of kills, of lives of the    *)
(* server and of messages a queue holds: whose reply a client gets, and    *)
(* how many clients have to be killed before the server waits for ever.    *)
(*                                                                         *)
(* Both rest on counting.  A message is in one place only, and for each    *)
(* process id no more of them are about than clients with that id were     *)
(* killed, and one more while a client waits.                              *)
(***************************************************************************)

-----------------------------------------------------------------------------
(***************************************************************************)
(* Queues.                                                                 *)
(***************************************************************************)
\* A message is in a queue; no message is in it twice.
In(q, m) == \E i \in 1 .. Len(q) : q[i] = m
Distinct(q) == \A i, j \in 1 .. Len(q) : q[i] = q[j] => i = j

\* The empty queue.
LEMMA EmptyFacts ==
  ASSUME NEW q, q = <<>>
  PROVE  Distinct(q) /\ \A m : ~ In(q, m)
<1>1. Len(q) = 0
  OBVIOUS
<1> QED BY <1>1 DEF In, Distinct

\* A queue whose first message is taken.
LEMMA HeadFacts ==
  ASSUME NEW S, NEW q \in Seq(S), q # <<>>
  PROVE  /\ Head(q) \in S /\ In(q, Head(q)) /\ Tail(q) \in Seq(S) /\ Len(Tail(q)) = Len(q) - 1
         /\ \A m : In(Tail(q), m) => In(q, m)
         /\ Distinct(q) => Distinct(Tail(q)) /\ ~ In(Tail(q), Head(q))
<1>1. /\ Head(q) \in S /\ Tail(q) \in Seq(S) /\ Len(Tail(q)) = Len(q) - 1
      /\ \A i \in 1 .. Len(q) - 1 : Tail(q)[i] = q[i + 1]
  BY HeadTailProperties
<1>2. PICK n \in Nat : n = Len(q) /\ n # 0
  BY EmptySeq
<1>3. Head(q) = q[1] /\ 1 \in 1 .. n
  BY <1>2
<1>4. \A i \in 1 .. n - 1 : Tail(q)[i] = q[i + 1] /\ i + 1 \in 1 .. n
  BY <1>1, <1>2
<1>5. In(q, Head(q))
  BY <1>2, <1>3 DEF In
<1>6. ASSUME NEW m, In(Tail(q), m) PROVE In(q, m)
  BY <1>1, <1>2, <1>4, <1>6 DEF In
<1>7. ASSUME Distinct(q) PROVE Distinct(Tail(q)) /\ ~ In(Tail(q), Head(q))
  <2>1. Distinct(Tail(q))
    <3> SUFFICES ASSUME NEW i \in 1 .. n - 1, NEW j \in 1 .. n - 1, Tail(q)[i] = Tail(q)[j] PROVE i = j
      BY <1>1, <1>2 DEF Distinct
    <3>1. q[i + 1] = q[j + 1] /\ i + 1 \in 1 .. n /\ j + 1 \in 1 .. n
      BY <1>4
    <3>2. i + 1 = j + 1
      BY <1>2, <1>7, <3>1 DEF Distinct
    <3> QED BY <1>2, <3>2
  <2>2. ~ In(Tail(q), Head(q))
    <3> SUFFICES ASSUME NEW i \in 1 .. n - 1, Tail(q)[i] = Head(q) PROVE FALSE
      BY <1>1, <1>2 DEF In
    <3>1. q[i + 1] = q[1] /\ i + 1 \in 1 .. n
      BY <1>3, <1>4
    <3>2. i + 1 = 1
      BY <1>2, <1>3, <1>7, <3>1 DEF Distinct
    <3> QED BY <1>2, <3>2
  <2> QED BY <2>1, <2>2
<1> QED BY <1>1, <1>5, <1>6, <1>7

\* A queue that a message is put into.
LEMMA AppendFacts ==
  ASSUME NEW S, NEW q \in Seq(S), NEW e \in S
  PROVE  /\ Append(q, e) \in Seq(S) /\ Len(Append(q, e)) = Len(q) + 1
         /\ \A m : In(Append(q, e), m) <=> In(q, m) \/ m = e
         /\ Distinct(q) /\ ~ In(q, e) => Distinct(Append(q, e))
<1>1. PICK n \in Nat : n = Len(q)
  BY LenProperties
<1>2. /\ Append(q, e) \in Seq(S) /\ Len(Append(q, e)) = n + 1
      /\ Append(q, e)[n + 1] = e /\ \A i \in 1 .. n : Append(q, e)[i] = q[i]
  BY <1>1, AppendProperties
<1>3. \A i \in 1 .. n + 1 : i \in 1 .. n \/ i = n + 1
  BY <1>1
<1>4. n + 1 \in 1 .. n + 1 /\ \A i \in 1 .. n : i \in 1 .. n + 1
  BY <1>1
<1>5. ASSUME NEW m PROVE In(Append(q, e), m) <=> In(q, m) \/ m = e
  BY <1>1, <1>2, <1>3, <1>4 DEF In
<1>6. ASSUME Distinct(q), ~ In(q, e) PROVE Distinct(Append(q, e))
  <2> SUFFICES ASSUME NEW i \in 1 .. n + 1, NEW j \in 1 .. n + 1, Append(q, e)[i] = Append(q, e)[j]
               PROVE  i = j
    BY <1>2 DEF Distinct
  <2>1. CASE i \in 1 .. n /\ j \in 1 .. n
    BY <1>1, <1>2, <1>6, <2>1 DEF Distinct
  <2>2. CASE i \in 1 .. n /\ j = n + 1
    BY <1>1, <1>2, <1>6, <2>2 DEF In
  <2>3. CASE i = n + 1 /\ j \in 1 .. n
    BY <1>1, <1>2, <1>6, <2>3 DEF In
  <2> QED BY <1>3, <2>1, <2>2, <2>3
<1> QED BY <1>1, <1>2, <1>5, <1>6

-----------------------------------------------------------------------------
(***************************************************************************)
(* Types; which queues are open; how often a name was created.             *)
(***************************************************************************)
TypeInv ==
    /\ TypeOK
    /\ \A p \in Pids : cpc[p] # 0 => qd_server[p] > 0
    /\ server # "down" => life > 0
    /\ \A p \in Pids : made[p] + (IF cpc[p] = 1 THEN 1 ELSE 0) <= run[p]
    /\ \A p \in Pids : linked[p] \/ cpc[p] > 1 => made[p] > 0
    /\ \A p \in Pids : \A n \in 1 .. MaxRuns : \A i \in 1 .. Len(replies[p][n]) : replies[p][n][i].pid = p

\* The four calls of a client.
LEMMA ProgramFacts ==
  /\ Len(Program) = 4
  /\ Program[1] = "create" /\ Program[2] = "send" /\ Program[3] = "receive" /\ Program[4] = "unlink"
  BY DEF Program

\* Where each call takes a client.
LEMMA StepFacts ==
  ASSUME TypeOK, NEW p \in Pids
  PROVE  /\ Step(p, "create") => cpc[p] = 1 /\ cpc' = [cpc EXCEPT ![p] = 2]
         /\ Step(p, "send") => cpc[p] = 2 /\ cpc' = [cpc EXCEPT ![p] = 3]
         /\ Step(p, "receive") => cpc[p] = 3 /\ cpc' = [cpc EXCEPT ![p] = 4]
         /\ Step(p, "unlink") => cpc[p] = 4 /\ cpc' = [cpc EXCEPT ![p] = 0]
<1>1. cpc[p] \in {0, 1, 2, 3, 4}
  <2>1. cpc[p] \in 0 .. 4
    BY ProgramFacts DEF TypeOK
  <2> QED BY <2>1
<1>2. ASSUME NEW call PROVE Step(p, call) => /\ cpc[p] # 0 /\ Program[cpc[p]] = call
                                             /\ cpc' = [cpc EXCEPT ![p] = IF cpc[p] = 4 THEN 0 ELSE cpc[p] + 1]
  BY ProgramFacts DEF Step, At
<1>3. /\ 1 + 1 = 2 /\ 2 + 1 = 3 /\ 3 + 1 = 4 /\ 1 # 4 /\ 2 # 4 /\ 3 # 4
  OBVIOUS
<1>4. Step(p, "create") => cpc[p] = 1 /\ cpc' = [cpc EXCEPT ![p] = 2]
  BY <1>1, <1>2, <1>3, ProgramFacts
<1>5. Step(p, "send") => cpc[p] = 2 /\ cpc' = [cpc EXCEPT ![p] = 3]
  BY <1>1, <1>2, <1>3, ProgramFacts
<1>6. Step(p, "receive") => cpc[p] = 3 /\ cpc' = [cpc EXCEPT ![p] = 4]
  BY <1>1, <1>2, <1>3, ProgramFacts
<1>7. Step(p, "unlink") => cpc[p] = 4 /\ cpc' = [cpc EXCEPT ![p] = 0]
  BY <1>1, <1>2, <1>3, ProgramFacts
<1> QED BY <1>4, <1>5, <1>6, <1>7


\* The initial state has the types.
LEMMA InitTypes == Init => TypeInv
<1> SUFFICES ASSUME Init PROVE TypeInv
  OBVIOUS
<1>1. /\ MSG_MAX_COUNT \in Nat /\ MaxRuns \in Nat /\ MaxLives \in Nat /\ 0 \in Runs /\ Len(Program) = 4
      /\ Runs \subseteq Nat
  BY MessageQueueAssumption, ProgramFacts DEF Runs
<1>2. req \in Messages
  BY <1>1 DEF Init, Messages
<1>3. requests \in [1 .. MaxLives -> Seq(Messages)] /\ \A l \in 1 .. MaxLives : Len(requests[l]) <= MSG_MAX_COUNT
  <2>1. Len(<<>>) = 0 /\ <<>> \in Seq(Messages)
    OBVIOUS
  <2>2. requests = [l \in 1 .. MaxLives |-> <<>>]
    BY DEF Init
  <2> QED BY <1>1, <2>1, <2>2
<1>4. /\ replies \in [Pids -> [1 .. MaxRuns -> Seq(Messages)]]
      /\ \A p \in Pids : \A n \in 1 .. MaxRuns :
             Len(replies[p][n]) <= MSG_MAX_COUNT /\ \A i \in 1 .. Len(replies[p][n]) : replies[p][n][i].pid = p
  <2>1. Len(<<>>) = 0 /\ <<>> \in Seq(Messages) /\ 1 .. 0 = {}
    OBVIOUS
  <2>2. replies = [p \in Pids |-> [n \in 1 .. MaxRuns |-> <<>>]]
    BY DEF Init
  <2> QED BY <1>1, <2>1, <2>2
<1>5. server = "down" /\ life = 0 /\ client_qd = 0
  BY DEF Init
<1>6. /\ cpc \in [Pids -> 0 .. 4] /\ run \in [Pids -> Runs] /\ qd_server \in [Pids -> 0 .. life]
      /\ linked \in [Pids -> BOOLEAN] /\ made \in [Pids -> Runs] /\ crashed \in [Pids -> Nat]
      /\ \A p \in Pids : cpc[p] = 0 /\ made[p] = 0 /\ run[p] = 0 /\ linked[p] = FALSE
  BY <1>1 DEF Init
<1>7. \A p \in Pids : /\ made[p] + (IF cpc[p] = 1 THEN 1 ELSE 0) <= run[p]
                      /\ linked[p] \/ cpc[p] > 1 => made[p] > 0
  BY <1>6
<1>8. life \in 0 .. MaxLives /\ client_qd \in 0 .. MaxRuns
  BY <1>1, <1>5
<1>9. TypeOK
  BY <1>1, <1>2, <1>3, <1>4, <1>5, <1>6, <1>8, Zenon DEF TypeOK
<1> QED BY <1>4, <1>5, <1>6, <1>7, <1>9, Zenon DEF TypeInv

\* The types of single elements.
LEMMA TypeFacts ==
  ASSUME TypeOK
  PROVE  /\ MSG_MAX_COUNT \in Nat /\ MSG_MAX_COUNT >= 1 /\ MaxRuns \in Nat /\ MaxLives \in Nat
         /\ life \in Nat /\ life <= MaxLives /\ req.pid \in Pids /\ req \in Messages
         /\ \A l \in 1 .. MaxLives : requests[l] \in Seq(Messages) /\ Len(requests[l]) \in Nat
         /\ \A p \in Pids : /\ \A n \in 1 .. MaxRuns : replies[p][n] \in Seq(Messages) /\ Len(replies[p][n]) \in Nat
                            /\ cpc[p] \in Nat /\ run[p] \in Nat /\ made[p] \in Nat /\ crashed[p] \in Nat
                            /\ qd_server[p] \in Nat /\ qd_server[p] <= life
         /\ \A m \in Messages : m.pid \in Pids /\ m.run \in Nat /\ m.run \in Runs /\ m = [pid |-> m.pid, run |-> m.run]
<1>1. /\ MSG_MAX_COUNT \in Nat /\ MSG_MAX_COUNT >= 1 /\ MaxRuns \in Nat /\ MaxLives \in Nat
      /\ Runs \subseteq Nat /\ Len(Program) = 4
  BY MessageQueueAssumption, ProgramFacts DEF Runs
<1>2. life \in Nat /\ life <= MaxLives /\ req \in Messages /\ req.pid \in Pids
  BY <1>1 DEF TypeOK, Messages
<1>3. \A l \in 1 .. MaxLives : requests[l] \in Seq(Messages) /\ Len(requests[l]) \in Nat
  BY LenProperties DEF TypeOK
<1>4. \A p \in Pids : \A n \in 1 .. MaxRuns : replies[p][n] \in Seq(Messages) /\ Len(replies[p][n]) \in Nat
  <2> SUFFICES ASSUME NEW p \in Pids, NEW n \in 1 .. MaxRuns
               PROVE  replies[p][n] \in Seq(Messages) /\ Len(replies[p][n]) \in Nat
    OBVIOUS
  <2>1. replies[p] \in [1 .. MaxRuns -> Seq(Messages)]
    BY DEF TypeOK
  <2>2. replies[p][n] \in Seq(Messages)
    BY <2>1
  <2> QED BY <2>2, LenProperties
<1>5. \A p \in Pids : cpc[p] \in Nat /\ run[p] \in Nat /\ made[p] \in Nat /\ crashed[p] \in Nat
  <2> SUFFICES ASSUME NEW p \in Pids
               PROVE  cpc[p] \in Nat /\ run[p] \in Nat /\ made[p] \in Nat /\ crashed[p] \in Nat
    OBVIOUS
  <2>1. cpc[p] \in 0 .. Len(Program) /\ run[p] \in Runs /\ made[p] \in Runs /\ crashed[p] \in Nat
    BY DEF TypeOK
  <2>2. cpc[p] \in Nat
    BY <1>1, <2>1
  <2> QED BY <1>1, <2>1, <2>2
<1>6. \A p \in Pids : qd_server[p] \in Nat /\ qd_server[p] <= life
  BY <1>2 DEF TypeOK
<1>7. \A m \in Messages : m.pid \in Pids /\ m.run \in Nat /\ m.run \in Runs /\ m = [pid |-> m.pid, run |-> m.run]
  <2> SUFFICES ASSUME NEW m \in Messages
               PROVE  /\ m.pid \in Pids /\ m.run \in Nat /\ m.run \in Runs
                      /\ m = [pid |-> m.pid, run |-> m.run]
    OBVIOUS
  <2>1. m.pid \in Pids /\ m.run \in Runs /\ m = [pid |-> m.pid, run |-> m.run]
    BY DEF Messages
  <2>2. m.run \in Nat
    BY <1>1, <2>1
  <2> QED BY <2>1, <2>2
<1> QED BY <1>1, <1>2, <1>3, <1>4, <1>5, <1>6, <1>7

\* The parts of the types that the steps of one side leave alone.
RequestTypes ==
    /\ requests \in [1 .. MaxLives -> Seq(Messages)]
    /\ \A l \in 1 .. MaxLives : Len(requests[l]) <= MSG_MAX_COUNT
ReplyTypes ==
    /\ replies \in [Pids -> [1 .. MaxRuns -> Seq(Messages)]]
    /\ \A p \in Pids : \A n \in 1 .. MaxRuns : Len(replies[p][n]) <= MSG_MAX_COUNT
    /\ \A p \in Pids : \A n \in 1 .. MaxRuns : \A i \in 1 .. Len(replies[p][n]) : replies[p][n][i].pid = p
ServerTypes ==
    /\ server \in {"down", "receive", "open", "send"} /\ life \in 0 .. MaxLives
    /\ req \in Messages /\ client_qd \in 0 .. MaxRuns
    /\ server # "down" => life > 0
ClientTypes ==
    /\ cpc \in [Pids -> 0 .. 4] /\ run \in [Pids -> Runs]
    /\ qd_server \in [Pids -> 0 .. life]
    /\ linked \in [Pids -> BOOLEAN] /\ made \in [Pids -> Runs]
    /\ crashed \in [Pids -> Nat]
    /\ \A p \in Pids : cpc[p] # 0 => qd_server[p] > 0
    /\ \A p \in Pids : made[p] + (IF cpc[p] = 1 THEN 1 ELSE 0) <= run[p]
    /\ \A p \in Pids : linked[p] \/ cpc[p] > 1 => made[p] > 0

\* The parts make up the whole, before a step and after it.
LEMMA TypeParts == TypeInv <=> RequestTypes /\ ReplyTypes /\ ServerTypes /\ ClientTypes
<1>1. Len(Program) = 4
  BY ProgramFacts
<1> QED BY <1>1, Zenon DEF TypeInv, TypeOK, RequestTypes, ReplyTypes, ServerTypes, ClientTypes

LEMMA TypePartsNext == RequestTypes' /\ ReplyTypes' /\ ServerTypes' /\ ClientTypes' => TypeInv'
<1>1. Len(Program) = 4
  BY ProgramFacts
<1> QED BY <1>1, Zenon DEF TypeInv, TypeOK, RequestTypes, ReplyTypes, ServerTypes, ClientTypes

\* A queue of requests replaced by one no longer than allowed, and a queue of replies.
LEMMA RequestsReplaced ==
  ASSUME RequestTypes, NEW l \in 1 .. MaxLives, NEW q \in Seq(Messages), Len(q) <= MSG_MAX_COUNT,
         requests' = [requests EXCEPT ![l] = q]
  PROVE  RequestTypes'
  BY DEF RequestTypes

\* The same for the queue of a client, which holds messages about its process id.
LEMMA RepliesReplaced ==
  ASSUME ReplyTypes, NEW p \in Pids, NEW n \in 1 .. MaxRuns, NEW q \in Seq(Messages), Len(q) <= MSG_MAX_COUNT,
         \A i \in 1 .. Len(q) : q[i].pid = p,
         replies' = [replies EXCEPT ![p][n] = q]
  PROVE  ReplyTypes'
<1>1. \A s \in Pids : \A k \in 1 .. MaxRuns : replies'[s][k] = IF s = p /\ k = n THEN q ELSE replies[s][k]
  BY DEF ReplyTypes
<1>2. replies' \in [Pids -> [1 .. MaxRuns -> Seq(Messages)]]
  BY DEF ReplyTypes
<1>3. ASSUME NEW s \in Pids, NEW k \in 1 .. MaxRuns
      PROVE  Len(replies'[s][k]) <= MSG_MAX_COUNT /\ \A i \in 1 .. Len(replies'[s][k]) : replies'[s][k][i].pid = s
  <2>1. CASE s = p /\ k = n
    BY <1>1, <2>1
  <2>2. CASE ~ (s = p /\ k = n)
    <3>1. replies'[s][k] = replies[s][k]
      BY <1>1, <2>2
    <3> QED BY <3>1 DEF ReplyTypes
  <2> QED BY <2>1, <2>2
<1> QED BY <1>2, <1>3 DEF ReplyTypes

\* What leaves a queue leaves the types as they are.
LEMMA TailTypes ==
  ASSUME NEW q \in Seq(Messages), q # <<>>, NEW n \in Nat, Len(q) <= n
  PROVE  /\ Tail(q) \in Seq(Messages) /\ Len(Tail(q)) <= n /\ Head(q) \in Messages
         /\ \A p \in Pids : (\A i \in 1 .. Len(q) : q[i].pid = p) =>
               (\A i \in 1 .. Len(Tail(q)) : Tail(q)[i].pid = p) /\ Head(q).pid = p
<1>1. /\ Head(q) \in Messages /\ Tail(q) \in Seq(Messages) /\ Len(Tail(q)) = Len(q) - 1
      /\ \A i \in 1 .. Len(Tail(q)) : Tail(q)[i] = q[i + 1]
  BY HeadTailProperties
<1>2. Len(q) \in Nat /\ Len(q) # 0
  BY EmptySeq, LenProperties
<1>3. Head(q) = q[1] /\ 1 \in 1 .. Len(q)
  BY <1>2
<1>4. \A i \in 1 .. Len(Tail(q)) : i + 1 \in 1 .. Len(q)
  BY <1>1, <1>2
<1>5. Len(Tail(q)) <= n
  BY <1>1, <1>2
<1> QED BY <1>1, <1>3, <1>4, <1>5

\* The steps of the server keep the types.
LEMMA ServerTypeStep ==
  ASSUME TypeInv, StartServer \/ KillServer \/ Server
  PROVE  TypeInv'
<1>0. TypeOK /\ RequestTypes /\ ReplyTypes /\ ServerTypes /\ ClientTypes
  BY TypeParts DEF TypeInv
<1>1. PICK n \in Nat : n = MSG_MAX_COUNT
  BY MessageQueueAssumption
<1>2. ASSUME UNCHANGED <<cpc, run, qd_server, linked, made, crashed, life>> PROVE ClientTypes'
  BY <1>0, <1>2 DEF ClientTypes
<1>3. CASE StartServer
  <2>1. life' = life + 1 /\ life < MaxLives /\ server' = "receive"
        /\ UNCHANGED <<req, client_qd, requests, cpc, run, qd_server, linked, made, replies, crashed>>
    BY <1>3 DEF StartServer, clientVars, queues
  <2>2. RequestTypes' /\ ReplyTypes'
    BY <1>0, <2>1 DEF RequestTypes, ReplyTypes
  <2>3. ServerTypes'
    BY <1>0, <2>1, TypeFacts DEF ServerTypes
  <2>4. ClientTypes'
    <3>1. \A p \in Pids : qd_server[p] \in 0 .. life'
      BY <1>0, <2>1, TypeFacts
    <3>2. qd_server' \in [Pids -> 0 .. life']
      BY <1>0, <2>1, <3>1 DEF ClientTypes
    <3> QED BY <1>0, <2>1, <3>2 DEF ClientTypes
  <2> QED BY <2>2, <2>3, <2>4, TypePartsNext
<1>4. CASE KillServer
  <2>1. server' = "down" /\ client_qd' = 0
        /\ UNCHANGED <<life, req, requests, cpc, run, qd_server, linked, made, replies, crashed>>
    BY <1>4 DEF KillServer, clientVars, queues
  <2>2. 0 \in 0 .. MaxRuns
    BY MessageQueueAssumption
  <2>3. RequestTypes' /\ ReplyTypes' /\ ServerTypes'
    BY <1>0, <2>1, <2>2 DEF RequestTypes, ReplyTypes, ServerTypes
  <2> QED BY <1>2, <2>1, <2>3, TypePartsNext
<1>5. CASE ReceiveRequest
  <2>1. /\ server = "receive" /\ server' = "open" /\ requests[life] # <<>> /\ req' = Head(requests[life])
        /\ requests' = [requests EXCEPT ![life] = Tail(requests[life])]
        /\ UNCHANGED <<life, client_qd, cpc, run, qd_server, linked, made, replies, crashed>>
    BY <1>5 DEF ReceiveRequest, clientVars, queues
  <2>2. life \in 1 .. MaxLives
    BY <1>0, <2>1, TypeFacts DEF ServerTypes
  <2>3. PICK l \in 1 .. MaxLives, q \in Seq(Messages) : l = life /\ q = requests[l] /\ Len(q) <= n
    BY <1>0, <1>1, <2>2 DEF RequestTypes
  <2>4. Tail(q) \in Seq(Messages) /\ Len(Tail(q)) <= n /\ Head(q) \in Messages
    BY <2>1, <2>3, TailTypes
  <2>5. RequestTypes'
    BY <1>0, <1>1, <2>1, <2>3, <2>4, RequestsReplaced
  <2>6. ServerTypes' /\ ReplyTypes'
    BY <1>0, <2>1, <2>2, <2>3, <2>4 DEF ServerTypes, ReplyTypes
  <2> QED BY <1>2, <2>1, <2>5, <2>6, TypePartsNext
<1>6. CASE OpenClientQueue
  <2>1. /\ server = "open" /\ server' = "send" /\ client_qd' = IF linked[req.pid] THEN made[req.pid] ELSE 0
        /\ UNCHANGED <<life, req, requests, cpc, run, qd_server, linked, made, replies, crashed>>
    BY <1>6 DEF OpenClientQueue, QueueOf, clientVars, queues
  <2>2. client_qd' \in 0 .. MaxRuns
    <3>1. made[req.pid] \in 0 .. MaxRuns /\ 0 \in 0 .. MaxRuns
      BY <1>0, TypeFacts DEF ClientTypes, Runs
    <3> QED BY <2>1, <3>1
  <2>3. RequestTypes' /\ ReplyTypes' /\ ServerTypes'
    BY <1>0, <2>1, <2>2 DEF RequestTypes, ReplyTypes, ServerTypes
  <2> QED BY <1>2, <2>1, <2>3, TypePartsNext
<1>7. CASE SendReply
  <2>1. /\ server = "send" /\ server' = "receive" /\ client_qd' = 0
        /\ UNCHANGED <<life, req, requests, cpc, run, qd_server, linked, made, crashed>>
    BY <1>7 DEF SendReply, clientVars
  <2>2. RequestTypes' /\ ServerTypes'
    <3>1. 0 \in 0 .. MaxRuns
      BY MessageQueueAssumption
    <3> QED BY <1>0, <2>1, <3>1 DEF RequestTypes, ServerTypes
  <2>3. CASE /\ client_qd # 0 /\ HasRoom(replies[req.pid][client_qd])
             /\ replies' = [replies EXCEPT ![req.pid][client_qd] = Append(replies[req.pid][client_qd], req)]
    <3>1. PICK m \in Messages, p \in Pids, N \in 1 .. MaxRuns, q \in Seq(Messages) :
              m = req /\ p = m.pid /\ N = client_qd /\ q = replies[p][N]
      <4>1. client_qd \in 1 .. MaxRuns
        BY <1>0, <2>3, MessageQueueAssumption DEF ServerTypes
      <4> QED BY <1>0, <4>1, TypeFacts
    <3>2. Len(q) \in Nat /\ Len(q) < n /\ \A i \in 1 .. Len(q) : q[i].pid = p
      BY <1>0, <1>1, <2>3, <3>1, LenProperties DEF HasRoom, ReplyTypes
    <3>3. /\ Append(q, m) \in Seq(Messages) /\ Len(Append(q, m)) = Len(q) + 1
          /\ \A i \in 1 .. Len(q) : Append(q, m)[i] = q[i]
          /\ Append(q, m)[Len(q) + 1] = m
      BY AppendProperties
    <3>4. \A i \in 1 .. Len(q) + 1 : i \in 1 .. Len(q) \/ i = Len(q) + 1
      BY <3>2
    <3>5. \A i \in 1 .. Len(q) + 1 : Append(q, m)[i].pid = p
      BY <3>1, <3>2, <3>3, <3>4
    <3>6. Len(q) + 1 <= n
      BY <1>1, <3>2
    <3>7. replies' = [replies EXCEPT ![p][N] = Append(q, m)]
      BY <2>3, <3>1
    <3>8. ReplyTypes'
      BY <1>0, <1>1, <3>3, <3>5, <3>6, <3>7, RepliesReplaced
    <3> QED BY <1>2, <2>1, <2>2, <3>8, TypePartsNext
  <2>4. CASE replies' = replies
    <3>1. ReplyTypes'
      BY <1>0, <2>4 DEF ReplyTypes
    <3> QED BY <1>2, <2>1, <2>2, <3>1, TypePartsNext
  <2> QED BY <1>7, <2>3, <2>4 DEF SendReply, Opened, QueueOf
<1> QED BY <1>3, <1>4, <1>5, <1>6, <1>7 DEF Server

\* A client that waits for a reply has a queue to read it from.
LEMMA OwnQueue ==
  ASSUME TypeInv, NEW p \in Pids, cpc[p] = 3
  PROVE  made[p] \in 1 .. MaxRuns
<1>1. made[p] > 0
  BY DEF TypeInv
<1>2. made[p] \in 0 .. MaxRuns
  BY DEF TypeInv, TypeOK, Runs
<1> QED BY <1>1, <1>2, MessageQueueAssumption

\* So do those of the clients.
LEMMA ClientTypeStep ==
  ASSUME TypeInv, NEW p \in Pids, StartClient(p) \/ Client(p) \/ KillClient(p)
  PROVE  TypeInv'
<1>0. TypeOK /\ RequestTypes /\ ReplyTypes /\ ServerTypes /\ ClientTypes
  BY TypeParts DEF TypeInv
<1>1. PICK n \in Nat : n = MSG_MAX_COUNT
  BY MessageQueueAssumption
<1>2. ServerTypes'
  <2>1. UNCHANGED serverVars
    BY DEF StartClient, Client, CreateQueue, SendRequest, ReceiveReply, UnlinkQueue, KillClient
  <2> QED BY <1>0, <2>1 DEF ServerTypes, serverVars
<1>3. life' = life
  BY DEF StartClient, Client, CreateQueue, SendRequest, ReceiveReply, UnlinkQueue, KillClient, serverVars
<1>4. ASSUME requests' = requests PROVE RequestTypes'
  BY <1>0, <1>4 DEF RequestTypes
<1>5. ASSUME replies' = replies PROVE ReplyTypes'
  BY <1>0, <1>5 DEF ReplyTypes
\* A client that goes on has what it had.
<1>6. ASSUME NEW c \in 0 .. 4, cpc[p] # 0, c # 1, c > 1 => cpc[p] > 1, cpc' = [cpc EXCEPT ![p] = c],
             UNCHANGED <<run, qd_server, made>>, linked' \in [Pids -> BOOLEAN], crashed' \in [Pids -> Nat],
             \A s \in Pids : linked'[s] => linked[s]
      PROVE  ClientTypes'
  <2>1. cpc' \in [Pids -> 0 .. 4]
    BY <1>0, <1>6 DEF ClientTypes
  <2>2. \A s \in Pids : cpc'[s] # 0 => cpc[s] # 0
    BY <1>0, <1>6 DEF ClientTypes
  <2>3. \A s \in Pids : made[s] + (IF cpc'[s] = 1 THEN 1 ELSE 0) <= run[s]
    <3> SUFFICES ASSUME NEW s \in Pids PROVE made[s] + (IF cpc'[s] = 1 THEN 1 ELSE 0) <= run[s]
      OBVIOUS
    <3>1. cpc'[s] = 1 => cpc[s] = 1
      BY <1>0, <1>6 DEF ClientTypes
    <3>2. made[s] \in Nat /\ run[s] \in Nat /\ made[s] + (IF cpc[s] = 1 THEN 1 ELSE 0) <= run[s]
      BY <1>0, TypeFacts DEF ClientTypes
    <3> QED BY <3>1, <3>2
  <2>4. ASSUME NEW s \in Pids, linked'[s] \/ cpc'[s] > 1 PROVE made[s] > 0
    <3>1. cpc'[s] > 1 => cpc[s] > 1
      BY <1>0, <1>6 DEF ClientTypes
    <3>2. linked'[s] => linked[s]
      BY <1>6
    <3>3. linked[s] \/ cpc[s] > 1
      BY <2>4, <3>1, <3>2
    <3> QED BY <1>0, <3>3 DEF ClientTypes
  <2> QED BY <1>0, <1>3, <1>6, <2>1, <2>2, <2>3, <2>4 DEF ClientTypes
<1>7. CASE StartClient(p)
  <2>1. /\ cpc[p] = 0 /\ cpc' = [cpc EXCEPT ![p] = 1] /\ run[p] < MaxRuns /\ run' = [run EXCEPT ![p] = run[p] + 1]
        /\ life > 0 /\ qd_server' = [qd_server EXCEPT ![p] = life]
        /\ UNCHANGED <<requests, linked, made, replies, crashed>>
    BY <1>7 DEF StartClient, queues
  <2>2. run[p] + 1 \in Runs /\ life \in 0 .. life
    BY <1>0, <2>1, TypeFacts DEF Runs
  <2>3. cpc' \in [Pids -> 0 .. 4] /\ run' \in [Pids -> Runs] /\ qd_server' \in [Pids -> 0 .. life]
    BY <1>0, <2>1, <2>2 DEF ClientTypes
  <2>4. \A s \in Pids : cpc'[s] # 0 => qd_server'[s] > 0
    BY <1>0, <2>1 DEF ClientTypes
  <2>5. \A s \in Pids : made[s] + (IF cpc'[s] = 1 THEN 1 ELSE 0) <= run'[s]
    <3> SUFFICES ASSUME NEW s \in Pids PROVE made[s] + (IF cpc'[s] = 1 THEN 1 ELSE 0) <= run'[s]
      OBVIOUS
    <3>1. made[s] \in Nat /\ run[s] \in Nat /\ made[s] + (IF cpc[s] = 1 THEN 1 ELSE 0) <= run[s]
      BY <1>0, TypeFacts DEF ClientTypes
    <3>2. cpc'[s] = (IF s = p THEN 1 ELSE cpc[s]) /\ run'[s] = IF s = p THEN run[s] + 1 ELSE run[s]
      BY <1>0, <2>1 DEF ClientTypes
    <3> QED BY <2>1, <3>1, <3>2
  <2>6. \A s \in Pids : linked[s] \/ cpc'[s] > 1 => made[s] > 0
    <3> SUFFICES ASSUME NEW s \in Pids, linked[s] \/ cpc'[s] > 1 PROVE made[s] > 0
      OBVIOUS
    <3>1. cpc'[s] > 1 => cpc[s] > 1
      BY <1>0, <2>1 DEF ClientTypes
    <3> QED BY <1>0, <3>1 DEF ClientTypes
  <2>7. ClientTypes'
    BY <1>0, <1>3, <2>1, <2>3, <2>4, <2>5, <2>6 DEF ClientTypes
  <2> QED BY <1>2, <1>4, <1>5, <2>1, <2>7, TypePartsNext
<1>8. CASE CreateQueue(p)
  <2>1. /\ cpc[p] = 1 /\ cpc' = [cpc EXCEPT ![p] = 2] /\ linked' = [linked EXCEPT ![p] = TRUE]
        /\ made' = [made EXCEPT ![p] = IF linked[p] THEN made[p] ELSE made[p] + 1]
        /\ UNCHANGED <<requests, run, qd_server, replies, crashed>>
    BY <1>0, <1>8, StepFacts DEF CreateQueue, QueueOf
  <2>3. ASSUME NEW s \in Pids
        PROVE  /\ made'[s] \in Runs
               /\ made'[s] + (IF cpc'[s] = 1 THEN 1 ELSE 0) <= run[s]
    <3>1. made[s] \in Nat /\ run[s] \in Nat /\ run[s] \in Runs
          /\ made[s] + (IF cpc[s] = 1 THEN 1 ELSE 0) <= run[s]
      BY <1>0, TypeFacts DEF ClientTypes
    <3>2. made'[s] \in {made[s], made[s] + 1} /\ (s # p => made'[s] = made[s])
      BY <1>0, <2>1 DEF ClientTypes
    <3>3. cpc'[s] = IF s = p THEN 2 ELSE cpc[s]
      BY <1>0, <2>1 DEF ClientTypes
    <3>4. made'[s] \in Nat /\ made'[s] + (IF cpc'[s] = 1 THEN 1 ELSE 0) <= run[s]
      BY <2>1, <3>1, <3>2, <3>3
    <3>5. made'[s] <= run[s]
      BY <3>1, <3>4
    <3> QED BY <3>1, <3>4, <3>5, TypeFacts, <1>0 DEF Runs
  <2>4. made' \in [Pids -> Runs] /\ cpc' \in [Pids -> 0 .. 4] /\ linked' \in [Pids -> BOOLEAN]
    <3>1. DOMAIN made' = Pids /\ made' = [s \in Pids |-> made'[s]]
      BY <1>0, <2>1 DEF ClientTypes
    <3> QED BY <1>0, <2>1, <2>3, <3>1 DEF ClientTypes
  <2>5. \A s \in Pids : cpc'[s] # 0 => cpc[s] # 0
    BY <1>0, <2>1 DEF ClientTypes
  <2>6. ASSUME NEW s \in Pids, linked'[s] \/ cpc'[s] > 1 PROVE made'[s] > 0
    <3>1. made[s] \in Nat /\ (linked[s] \/ cpc[s] > 1 => made[s] > 0)
      BY <1>0, TypeFacts DEF ClientTypes
    <3>2. CASE s = p /\ ~ linked[p]
      BY <1>0, <2>1, <3>1, <3>2 DEF ClientTypes
    <3>3. CASE s = p /\ linked[p]
      BY <1>0, <2>1, <3>1, <3>3 DEF ClientTypes
    <3>4. CASE s # p
      BY <1>0, <2>1, <2>6, <3>1, <3>4 DEF ClientTypes
    <3> QED BY <3>2, <3>3, <3>4
  <2>7. ClientTypes'
    BY <1>0, <1>3, <2>1, <2>3, <2>4, <2>5, <2>6 DEF ClientTypes
  <2> QED BY <1>2, <1>4, <1>5, <2>1, <2>7, TypePartsNext
<1>9. CASE SendRequest(p)
  <2>1. /\ cpc[p] = 2 /\ cpc' = [cpc EXCEPT ![p] = 3] /\ HasRoom(requests[qd_server[p]])
        /\ requests' = [requests EXCEPT ![qd_server[p]] = Append(requests[qd_server[p]], [pid |-> p, run |-> run[p]])]
        /\ UNCHANGED <<run, qd_server, linked, made, replies, crashed>>
    BY <1>0, <1>9, StepFacts DEF SendRequest, queues
  <2>2. PICK l \in 1 .. MaxLives, q \in Seq(Messages), m \in Messages :
            l = qd_server[p] /\ q = requests[l] /\ m = [pid |-> p, run |-> run[p]]
    <3>1. qd_server[p] \in 1 .. MaxLives
      <4>1. qd_server[p] \in Nat /\ qd_server[p] <= life /\ life \in Nat /\ life <= MaxLives
            /\ MaxLives \in Nat
        BY TypeFacts DEF TypeInv
      <4>2. cpc[p] # 0 => qd_server[p] > 0
        BY <1>0 DEF ClientTypes
      <4>3. cpc[p] = 2
        BY <2>1
      <4> QED BY <4>1, <4>2, <4>3
    <3>2. [pid |-> p, run |-> run[p]] \in Messages
      BY <1>0 DEF ClientTypes, Messages
    <3> QED BY <1>0, <3>1, <3>2, TypeFacts
  <2>3. RequestTypes'
    <3>1. Append(q, m) \in Seq(Messages) /\ Len(Append(q, m)) = Len(q) + 1 /\ Len(q) \in Nat
      BY AppendProperties, LenProperties
    <3>2. Len(q) < n
      BY <1>1, <2>1, <2>2 DEF HasRoom
    <3>3. Len(Append(q, m)) <= n
      BY <1>1, <3>1, <3>2
    <3>4. requests' = [requests EXCEPT ![l] = Append(q, m)]
      BY <2>1, <2>2
    <3> QED BY <1>0, <1>1, <3>1, <3>3, <3>4, RequestsReplaced
  <2>4. ClientTypes'
    BY <1>0, <1>6, <2>1 DEF ClientTypes
  <2> QED BY <1>2, <1>5, <2>1, <2>3, <2>4, TypePartsNext
<1>10. CASE ReceiveReply(p)
  <2>1. /\ cpc[p] = 3 /\ cpc' = [cpc EXCEPT ![p] = 4] /\ replies[p][made[p]] # <<>>
        /\ replies' = [replies EXCEPT ![p][made[p]] = Tail(replies[p][made[p]])]
        /\ UNCHANGED <<requests, run, qd_server, linked, made, crashed>>
    BY <1>0, <1>10, StepFacts DEF ReceiveReply, Own, QueueOf
  <2>2. PICK N \in 1 .. MaxRuns, q \in Seq(Messages) :
            N = made[p] /\ q = replies[p][N] /\ Len(q) <= n /\ \A i \in 1 .. Len(q) : q[i].pid = p
    <3>1. PICK N \in 1 .. MaxRuns : N = made[p]
      BY <2>1, OwnQueue
    <3>2. PICK q \in Seq(Messages) : q = replies[p][N]
      BY <1>0, TypeFacts
    <3>3. Len(q) <= n /\ \A i \in 1 .. Len(q) : q[i].pid = p
      BY <1>0, <1>1, <3>2 DEF ReplyTypes
    <3> QED BY <3>1, <3>2, <3>3
  <2>3. Tail(q) \in Seq(Messages) /\ Len(Tail(q)) <= n /\ \A i \in 1 .. Len(Tail(q)) : Tail(q)[i].pid = p
    <3>1. q # <<>> /\ Len(q) <= n /\ \A i \in 1 .. Len(q) : q[i].pid = p
      BY <2>1, <2>2
    <3> QED BY <3>1, TailTypes
  <2>4. ReplyTypes'
    <3>1. replies' = [replies EXCEPT ![p][N] = Tail(q)]
      BY <2>1, <2>2
    <3> QED BY <1>0, <1>1, <2>2, <2>3, <3>1, RepliesReplaced
  <2>5. ClientTypes'
    BY <1>0, <1>6, <2>1 DEF ClientTypes
  <2> QED BY <1>2, <1>4, <2>1, <2>4, <2>5, TypePartsNext
<1>11. CASE UnlinkQueue(p)
  <2>1. /\ cpc[p] = 4 /\ cpc' = [cpc EXCEPT ![p] = 0] /\ linked' = [linked EXCEPT ![p] = FALSE]
        /\ UNCHANGED <<requests, run, qd_server, made, replies, crashed>>
    BY <1>0, <1>11, StepFacts DEF UnlinkQueue, QueueOf
  <2>2. linked' \in [Pids -> BOOLEAN] /\ \A s \in Pids : linked'[s] => linked[s]
    BY <1>0, <2>1 DEF ClientTypes
  <2>3. ClientTypes'
    BY <1>0, <1>6, <2>1, <2>2 DEF ClientTypes
  <2> QED BY <1>2, <1>4, <1>5, <2>1, <2>3, TypePartsNext
<1>12. CASE KillClient(p)
  <2>1. /\ cpc[p] # 0 /\ cpc' = [cpc EXCEPT ![p] = 0] /\ crashed' = [crashed EXCEPT ![p] = crashed[p] + 1]
        /\ UNCHANGED <<requests, run, qd_server, linked, made, replies>>
    BY <1>12 DEF KillClient, queues
  <2>2. crashed' \in [Pids -> Nat]
    BY <1>0, <2>1 DEF ClientTypes
  <2>3. ClientTypes'
    BY <1>0, <1>6, <2>1, <2>2 DEF ClientTypes
  <2> QED BY <1>2, <1>4, <1>5, <2>1, <2>3, TypePartsNext
<1> QED BY <1>7, <1>8, <1>9, <1>10, <1>11, <1>12 DEF Client

\* Every step keeps the types.
LEMMA TypeStep == TypeInv /\ [Next]_vars => TypeInv'
<1> SUFFICES ASSUME TypeInv, [Next]_vars PROVE TypeInv'
  OBVIOUS
<1>1. CASE UNCHANGED vars
  BY <1>1 DEF vars, serverVars, clientVars, queues, TypeInv, TypeOK
<1> QED BY <1>1, ServerTypeStep, ClientTypeStep DEF Next

\* The types hold throughout.
LEMMA Typed == Spec => []TypeInv
<1> QED BY InitTypes, TypeStep, PTL DEF Spec

\* Nothing holds more messages than mq_open was told, and the name of a client's
\* queue is created at most once for each client.
THEOREM TypeSafety == Spec => []TypeOK
<1>1. TypeInv => TypeOK
  BY DEF TypeInv
<1> QED BY <1>1, Typed, PTL

-----------------------------------------------------------------------------
(***************************************************************************)
(* A message is in one place: once in a queue of requests, in the server's *)
(* hand, or once in one of the queues with the name of its client.         *)
(***************************************************************************)
Requested(m) == \E l \in 1 .. MaxLives : In(requests[l], m)
Handed(m) == server \in {"open", "send"} /\ req = m
Replied(m) == \E n \in 1 .. MaxRuns : In(replies[m.pid][n], m)
Live(m) == Requested(m) \/ Handed(m) \/ Replied(m)

OnceInv ==
    /\ \A l \in 1 .. MaxLives : Distinct(requests[l])
    /\ \A k, l \in 1 .. MaxLives : \A m \in Messages :
           In(requests[k], m) /\ In(requests[l], m) => k = l
    /\ \A p \in Pids : \A n \in 1 .. MaxRuns : Distinct(replies[p][n])
    /\ \A p \in Pids : \A k, n \in 1 .. MaxRuns : \A m \in Messages :
           In(replies[p][k], m) /\ In(replies[p][n], m) => k = n
    /\ \A m \in Messages : /\ ~ (Requested(m) /\ Handed(m)) /\ ~ (Requested(m) /\ Replied(m))
                           /\ ~ (Handed(m) /\ Replied(m))

\* The definitions, for the state after a step.
LEMMA LiveNext ==
  \A m : /\ Requested(m)' <=> \E l \in 1 .. MaxLives : In(requests'[l], m)
         /\ Handed(m)' <=> server' \in {"open", "send"} /\ req' = m
         /\ Replied(m)' <=> \E n \in 1 .. MaxRuns : In(replies'[m.pid][n], m)
         /\ Live(m)' <=> Requested(m)' \/ Handed(m)' \/ Replied(m)'
  BY DEF Requested, Handed, Replied, Live, In

\* What has to be shown after a step, in terms of the new queues.
LEMMA OnceNext ==
  ASSUME \A l \in 1 .. MaxLives : Distinct(requests'[l]),
         \A k, l \in 1 .. MaxLives : \A m \in Messages :
             In(requests'[k], m) /\ In(requests'[l], m) => k = l,
         \A p \in Pids : \A n \in 1 .. MaxRuns : Distinct(replies'[p][n]),
         \A p \in Pids : \A k, n \in 1 .. MaxRuns : \A m \in Messages :
             In(replies'[p][k], m) /\ In(replies'[p][n], m) => k = n,
         \A m \in Messages : /\ ~ (Requested(m)' /\ Handed(m)') /\ ~ (Requested(m)' /\ Replied(m)')
                             /\ ~ (Handed(m)' /\ Replied(m)')
  PROVE  OnceInv'
  BY DEF OnceInv, Distinct, In, Requested, Handed, Replied

\* Queues stay as they are, and the server gets nothing new.
LEMMA QuietStep ==
  ASSUME TypeOK, OnceInv, requests' = requests, replies' = replies,
         server' \in {"open", "send"} => server \in {"open", "send"} /\ req' = req
  PROVE  OnceInv' /\ \A m \in Messages : Live(m)' => Live(m)
<1>1. \A m \in Messages : /\ Requested(m)' => Requested(m)
                          /\ Handed(m)' => Handed(m)
                          /\ Replied(m)' => Replied(m)
  BY LiveNext DEF Requested, Handed, Replied
<1>2. OnceInv'
  <2>1. /\ \A l \in 1 .. MaxLives : Distinct(requests'[l])
        /\ \A k, l \in 1 .. MaxLives : \A m \in Messages : In(requests'[k], m) /\ In(requests'[l], m) => k = l
        /\ \A p \in Pids : \A n \in 1 .. MaxRuns : Distinct(replies'[p][n])
        /\ \A p \in Pids : \A k, n \in 1 .. MaxRuns : \A m \in Messages :
               In(replies'[p][k], m) /\ In(replies'[p][n], m) => k = n
    BY DEF OnceInv
  <2>2. \A m \in Messages : /\ ~ (Requested(m)' /\ Handed(m)') /\ ~ (Requested(m)' /\ Replied(m)')
                            /\ ~ (Handed(m)' /\ Replied(m)')
    BY <1>1 DEF OnceInv
  <2> QED BY <2>1, <2>2, OnceNext
<1> QED BY <1>1, <1>2, LiveNext DEF Live

\* A request goes from its queue into the server's hand.
LEMMA ReceiveRequestOnce ==
  ASSUME TypeInv, OnceInv, ReceiveRequest
  PROVE  OnceInv' /\ \A m \in Messages : Live(m)' => Live(m)
<1>0. TypeOK
  BY DEF TypeInv
<1>1. /\ server = "receive" /\ server' = "open" /\ requests[life] # <<>> /\ req' = Head(requests[life])
      /\ requests' = [requests EXCEPT ![life] = Tail(requests[life])] /\ replies' = replies
  BY DEF ReceiveRequest, queues
<1>2. PICK L \in 1 .. MaxLives, q \in Seq(Messages) : L = life /\ q = requests[L] /\ q # <<>>
  <2>1. life \in 1 .. MaxLives
    BY <1>0, <1>1, TypeFacts DEF TypeInv
  <2> QED BY <1>0, <1>1, <2>1, TypeFacts
<1>3. /\ Head(q) \in Messages /\ In(q, Head(q)) /\ \A m : In(Tail(q), m) => In(q, m)
      /\ Distinct(Tail(q)) /\ ~ In(Tail(q), Head(q))
  <2>1. Distinct(q)
    BY <1>2 DEF OnceInv
  <2> QED BY <1>2, <2>1, HeadFacts
<1>4. PICK h \in Messages : h = Head(q) /\ req' = h
  BY <1>1, <1>2, <1>3
<1>5. \A l \in 1 .. MaxLives : requests'[l] = IF l = L THEN Tail(q) ELSE requests[l]
  BY <1>0, <1>1, <1>2 DEF TypeOK
<1>6. \A l \in 1 .. MaxLives : \A m : In(requests'[l], m) => In(requests[l], m)
  BY <1>2, <1>3, <1>5
<1>7. \A l \in 1 .. MaxLives : ~ In(requests'[l], h)
  <2> SUFFICES ASSUME NEW l \in 1 .. MaxLives, In(requests'[l], h) PROVE FALSE
    OBVIOUS
  <2>1. l = L
    BY <1>2, <1>3, <1>4, <1>6 DEF OnceInv
  <2> QED BY <1>3, <1>4, <1>5, <2>1
<1>8. ASSUME NEW m \in Messages
      PROVE  /\ Requested(m)' => Requested(m) /\ m # h
             /\ Handed(m)' <=> m = h
             /\ Replied(m)' <=> Replied(m)
  <2>1. Requested(m)' => Requested(m) /\ m # h
    BY <1>6, <1>7, LiveNext DEF Requested
  <2>2. Handed(m)' <=> m = h
    BY <1>1, <1>4, LiveNext
  <2>3. Replied(m)' <=> Replied(m)
    BY <1>1, LiveNext DEF Replied
  <2> QED BY <2>1, <2>2, <2>3
<1>9. Requested(h)
  BY <1>2, <1>3, <1>4 DEF Requested
<1>10. OnceInv'
  <2>1. \A l \in 1 .. MaxLives : Distinct(requests'[l])
    BY <1>3, <1>5 DEF OnceInv
  <2>2. \A k, l \in 1 .. MaxLives : \A m \in Messages : In(requests'[k], m) /\ In(requests'[l], m) => k = l
    BY <1>6 DEF OnceInv
  <2>3. /\ \A s \in Pids : \A n \in 1 .. MaxRuns : Distinct(replies'[s][n])
        /\ \A s \in Pids : \A k, n \in 1 .. MaxRuns : \A m \in Messages :
               In(replies'[s][k], m) /\ In(replies'[s][n], m) => k = n
    BY <1>1 DEF OnceInv
  <2>4. \A m \in Messages : /\ ~ (Requested(m)' /\ Handed(m)') /\ ~ (Requested(m)' /\ Replied(m)')
                            /\ ~ (Handed(m)' /\ Replied(m)')
    BY <1>8, <1>9 DEF OnceInv
  <2> QED BY <2>1, <2>2, <2>3, <2>4, OnceNext
<1> QED BY <1>8, <1>9, <1>10, LiveNext DEF Live

\* The server's answer goes into the client's queue.
LEMMA SendReplyOnce ==
  ASSUME TypeInv, OnceInv, SendReply, client_qd # 0,
         replies' = [replies EXCEPT ![req.pid][client_qd] = Append(replies[req.pid][client_qd], req)]
  PROVE  OnceInv' /\ \A m \in Messages : Live(m)' => Live(m)
<1>0. TypeOK
  BY DEF TypeInv
<1>1. server = "send" /\ server' = "receive" /\ requests' = requests
  BY DEF SendReply
<1>2. PICK h \in Messages, p \in Pids, N \in 1 .. MaxRuns, q \in Seq(Messages) :
          h = req /\ p = h.pid /\ N = client_qd /\ q = replies[p][N]
  <2>1. client_qd \in 1 .. MaxRuns
    BY <1>0, MessageQueueAssumption DEF TypeOK
  <2> QED BY <1>0, <2>1, TypeFacts
<1>3. Handed(h) /\ ~ Replied(h) /\ ~ In(q, h) /\ ~ Requested(h)
  <2>1. Handed(h)
    BY <1>1, <1>2 DEF Handed
  <2>2. ~ Replied(h) /\ ~ Requested(h)
    BY <2>1 DEF OnceInv
  <2> QED BY <1>2, <2>1, <2>2 DEF Replied
<1>4. /\ \A m : In(Append(q, h), m) <=> In(q, m) \/ m = h
      /\ Distinct(Append(q, h))
  <2>1. Distinct(q)
    BY <1>2 DEF OnceInv
  <2> QED BY <1>3, <2>1, AppendFacts
<1>5. \A s \in Pids : \A n \in 1 .. MaxRuns :
          replies'[s][n] = IF s = p /\ n = N THEN Append(q, h) ELSE replies[s][n]
  BY <1>0, <1>2 DEF TypeOK
<1>6. ASSUME NEW m \in Messages
      PROVE  /\ Requested(m)' <=> Requested(m)
             /\ ~ Handed(m)'
             /\ Replied(m)' <=> Replied(m) \/ m = h
  <2>1. Requested(m)' <=> Requested(m)
    BY <1>1, LiveNext DEF Requested
  <2>2. ~ Handed(m)'
    BY <1>1, LiveNext
  <2>3. Replied(m)' <=> Replied(m) \/ m = h
    <3>1. m.pid \in Pids
      BY <1>0, TypeFacts
    <3>2. \A n \in 1 .. MaxRuns : In(replies'[m.pid][n], m) <=> In(replies[m.pid][n], m) \/ (m = h /\ n = N)
      BY <1>2, <1>4, <1>5, <3>1
    <3> QED BY <3>2, LiveNext DEF Replied
  <2> QED BY <2>1, <2>2, <2>3
<1>7. OnceInv'
  <2>1. /\ \A l \in 1 .. MaxLives : Distinct(requests'[l])
        /\ \A k, l \in 1 .. MaxLives : \A m \in Messages : In(requests'[k], m) /\ In(requests'[l], m) => k = l
    BY <1>1 DEF OnceInv
  <2>2. \A s \in Pids : \A n \in 1 .. MaxRuns : Distinct(replies'[s][n])
    BY <1>4, <1>5 DEF OnceInv
  <2>3. \A s \in Pids : \A k, n \in 1 .. MaxRuns : \A m \in Messages :
            In(replies'[s][k], m) /\ In(replies'[s][n], m) => k = n
    <3> SUFFICES ASSUME NEW s \in Pids, NEW k \in 1 .. MaxRuns, NEW n \in 1 .. MaxRuns, NEW m \in Messages,
                        In(replies'[s][k], m), In(replies'[s][n], m)
                 PROVE  k = n
      OBVIOUS
    <3>1. CASE m = h /\ s = p
      <4>1. \A i \in 1 .. MaxRuns : In(replies'[p][i], h) => i = N
        BY <1>2, <1>3, <1>5 DEF Replied
      <4> QED BY <3>1, <4>1
    <3>2. CASE ~ (m = h /\ s = p)
      <4>1. \A i \in 1 .. MaxRuns : In(replies'[s][i], m) => In(replies[s][i], m)
        BY <1>2, <1>4, <1>5, <3>2
      <4> QED BY <4>1 DEF OnceInv
    <3> QED BY <3>1, <3>2
  <2>4. \A m \in Messages : /\ ~ (Requested(m)' /\ Handed(m)') /\ ~ (Requested(m)' /\ Replied(m)')
                            /\ ~ (Handed(m)' /\ Replied(m)')
    BY <1>3, <1>6 DEF OnceInv
  <2> QED BY <2>1, <2>2, <2>3, <2>4, OnceNext
<1> QED BY <1>3, <1>6, <1>7, LiveNext DEF Live

\* A new request is like none that is about.
LEMMA SendRequestOnce ==
  ASSUME TypeInv, OnceInv, NEW p \in Pids, SendRequest(p), NEW h \in Messages,
         h = [pid |-> p, run |-> run[p]], ~ Live(h)
  PROVE  OnceInv' /\ \A m \in Messages : Live(m)' => Live(m) \/ m = h
<1>0. TypeOK
  BY DEF TypeInv
<1>1. /\ cpc[p] = 2 /\ requests' = [requests EXCEPT ![qd_server[p]] = Append(requests[qd_server[p]], h)]
      /\ UNCHANGED <<server, req, replies>>
  BY <1>0, StepFacts DEF SendRequest, serverVars, queues
<1>2. PICK L \in 1 .. MaxLives, q \in Seq(Messages) : L = qd_server[p] /\ q = requests[L]
  <2>1. qd_server[p] \in 1 .. MaxLives
    <3>1. qd_server[p] > 0
      BY <1>1 DEF TypeInv
    <3>2. qd_server[p] \in Nat /\ qd_server[p] <= life /\ life \in Nat /\ life <= MaxLives /\ MaxLives \in Nat
      BY <1>0, TypeFacts
    <3> QED BY <3>1, <3>2
  <2> QED BY <1>0, <2>1, TypeFacts
<1>3. ~ Requested(h) /\ ~ Handed(h) /\ ~ Replied(h)
  BY DEF Live
<1>4. \A l \in 1 .. MaxLives : ~ In(requests[l], h)
  BY <1>3 DEF Requested
<1>5. /\ \A m : In(Append(q, h), m) <=> In(q, m) \/ m = h
      /\ Distinct(Append(q, h))
  <2>1. Distinct(q) /\ ~ In(q, h)
    BY <1>2, <1>4 DEF OnceInv
  <2> QED BY <2>1, AppendFacts
<1>6. \A l \in 1 .. MaxLives : requests'[l] = IF l = L THEN Append(q, h) ELSE requests[l]
  BY <1>0, <1>1, <1>2 DEF TypeOK
<1>7. \A l \in 1 .. MaxLives : \A m : In(requests'[l], m) => In(requests[l], m) \/ (m = h /\ l = L)
  BY <1>2, <1>5, <1>6
<1>8. ASSUME NEW m \in Messages
      PROVE  /\ Requested(m)' => Requested(m) \/ m = h
             /\ Handed(m)' <=> Handed(m)
             /\ Replied(m)' <=> Replied(m)
  <2>1. Requested(m)' => Requested(m) \/ m = h
    BY <1>7, LiveNext DEF Requested
  <2>2. Handed(m)' <=> Handed(m)
    BY <1>1, LiveNext DEF Handed
  <2>3. Replied(m)' <=> Replied(m)
    BY <1>1, LiveNext DEF Replied
  <2> QED BY <2>1, <2>2, <2>3
<1>9. OnceInv'
  <2>1. \A l \in 1 .. MaxLives : Distinct(requests'[l])
    BY <1>5, <1>6 DEF OnceInv
  <2>2. \A k, l \in 1 .. MaxLives : \A m \in Messages : In(requests'[k], m) /\ In(requests'[l], m) => k = l
    BY <1>4, <1>7 DEF OnceInv
  <2>3. /\ \A s \in Pids : \A n \in 1 .. MaxRuns : Distinct(replies'[s][n])
        /\ \A s \in Pids : \A k, n \in 1 .. MaxRuns : \A m \in Messages :
               In(replies'[s][k], m) /\ In(replies'[s][n], m) => k = n
    BY <1>1 DEF OnceInv
  <2>4. \A m \in Messages : /\ ~ (Requested(m)' /\ Handed(m)') /\ ~ (Requested(m)' /\ Replied(m)')
                            /\ ~ (Handed(m)' /\ Replied(m)')
    BY <1>3, <1>8 DEF OnceInv
  <2> QED BY <2>1, <2>2, <2>3, <2>4, OnceNext
<1> QED BY <1>8, <1>9, LiveNext DEF Live

\* A reply that was received is about no longer.
LEMMA ReceiveReplyOnce ==
  ASSUME TypeInv, OnceInv, NEW p \in Pids, ReceiveReply(p)
  PROVE  /\ Head(Own(p)) \in Messages /\ Head(Own(p)).pid = p /\ Live(Head(Own(p)))
         /\ OnceInv' /\ \A m \in Messages : Live(m)' => Live(m) /\ m # Head(Own(p))
<1>0. TypeOK
  BY DEF TypeInv
<1>1. /\ cpc[p] = 3 /\ replies[p][made[p]] # <<>>
      /\ replies' = [replies EXCEPT ![p][made[p]] = Tail(replies[p][made[p]])]
      /\ UNCHANGED <<server, req, requests>>
  BY <1>0, StepFacts DEF ReceiveReply, Own, QueueOf, serverVars
<1>2. PICK N \in 1 .. MaxRuns, q \in Seq(Messages) :
          N = made[p] /\ q = replies[p][N] /\ q = Own(p) /\ q # <<>> /\ Len(q) \in Nat
  <2>1. made[p] \in 1 .. MaxRuns
    BY <1>1, OwnQueue
  <2> QED BY <1>0, <1>1, <2>1, TypeFacts DEF Own, QueueOf
<1>3. /\ Head(q) \in Messages /\ In(q, Head(q)) /\ \A m : In(Tail(q), m) => In(q, m)
      /\ Distinct(Tail(q)) /\ ~ In(Tail(q), Head(q))
  <2>1. Distinct(q)
    BY <1>2 DEF OnceInv
  <2> QED BY <1>2, <2>1, HeadFacts
<1>4. PICK h \in Messages : h = Head(q)
  BY <1>3
<1>5. h.pid = p
  <2>1. q[1] = h /\ 1 \in 1 .. Len(q)
    <3>1. Len(q) # 0
      BY <1>2, EmptySeq
    <3> QED BY <1>2, <1>4, <3>1
  <2>2. \A i \in 1 .. Len(replies[p][N]) : replies[p][N][i].pid = p
    BY DEF TypeInv
  <2> QED BY <1>2, <2>1, <2>2
<1>6. Replied(h) /\ ~ Requested(h) /\ ~ Handed(h)
  <2>1. Replied(h)
    BY <1>2, <1>3, <1>4, <1>5 DEF Replied
  <2> QED BY <2>1 DEF OnceInv
<1>7. \A s \in Pids : \A n \in 1 .. MaxRuns :
          replies'[s][n] = IF s = p /\ n = N THEN Tail(q) ELSE replies[s][n]
  BY <1>0, <1>1, <1>2 DEF TypeOK
<1>8. ASSUME NEW m \in Messages
      PROVE  /\ Requested(m)' <=> Requested(m)
             /\ Handed(m)' <=> Handed(m)
             /\ Replied(m)' => Replied(m) /\ m # h
  <2>1. Requested(m)' <=> Requested(m)
    BY <1>1, LiveNext DEF Requested
  <2>2. Handed(m)' <=> Handed(m)
    BY <1>1, LiveNext DEF Handed
  <2>3. Replied(m)' => Replied(m) /\ m # h
    <3>1. m.pid \in Pids
      BY <1>0, TypeFacts
    <3>2. ASSUME NEW n \in 1 .. MaxRuns, In(replies'[m.pid][n], m) PROVE In(replies[m.pid][n], m) /\ m # h
      <4>1. CASE m.pid = p /\ n = N
        BY <1>2, <1>3, <1>4, <1>7, <3>2, <4>1
      <4>2. CASE ~ (m.pid = p /\ n = N)
        <5>1. In(replies[m.pid][n], m)
          BY <1>7, <3>1, <3>2, <4>2
        <5>2. In(replies[p][N], h)
          BY <1>2, <1>3, <1>4
        <5>3. m = h => m.pid = p /\ n = N
          BY <1>5, <5>1, <5>2 DEF OnceInv
        <5> QED BY <4>2, <5>1, <5>3
      <4> QED BY <4>1, <4>2
    <3> QED BY <3>2, LiveNext DEF Replied
  <2> QED BY <2>1, <2>2, <2>3
<1>9. OnceInv'
  <2>1. /\ \A l \in 1 .. MaxLives : Distinct(requests'[l])
        /\ \A k, l \in 1 .. MaxLives : \A m \in Messages : In(requests'[k], m) /\ In(requests'[l], m) => k = l
    BY <1>1 DEF OnceInv
  <2>2. \A s \in Pids : \A n \in 1 .. MaxRuns : Distinct(replies'[s][n])
    BY <1>3, <1>7 DEF OnceInv
  <2>3. \A s \in Pids : \A k, n \in 1 .. MaxRuns : \A m \in Messages :
            In(replies'[s][k], m) /\ In(replies'[s][n], m) => k = n
    <3>1. \A s \in Pids : \A n \in 1 .. MaxRuns : \A m : In(replies'[s][n], m) => In(replies[s][n], m)
      BY <1>2, <1>3, <1>7
    <3> QED BY <3>1 DEF OnceInv
  <2>4. \A m \in Messages : /\ ~ (Requested(m)' /\ Handed(m)') /\ ~ (Requested(m)' /\ Replied(m)')
                            /\ ~ (Handed(m)' /\ Replied(m)')
    BY <1>8 DEF OnceInv
  <2> QED BY <2>1, <2>2, <2>3, <2>4, OnceNext
<1>10. \A m \in Messages : Live(m)' => Live(m) /\ m # h
  BY <1>6, <1>8, LiveNext DEF Live
<1>11. Live(h)
  BY <1>6 DEF Live
<1> QED BY <1>2, <1>4, <1>5, <1>9, <1>10, <1>11

-----------------------------------------------------------------------------
(***************************************************************************)
(* Counting.  A message is from a client that was started; one that has    *)
(* not sent its request has none about; and there are no more of a process *)
(* id about, that of a client that waits apart, than its clients that were *)
(* killed.                                                                 *)
(***************************************************************************)
FreshInv ==
    \A m \in Messages : Live(m) =>
        m.run <= run[m.pid] /\ ~ (cpc[m.pid] \in {1, 2} /\ m.run = run[m.pid])

CountInv ==
    \A p \in Pids : \A S \in SUBSET Runs : (\A k \in S : Live([pid |-> p, run |-> k])) =>
        Cardinality(S) <= crashed[p] + (IF cpc[p] = 3 /\ run[p] \in S THEN 1 ELSE 0)

OwnInv == \A m \in Messages : Live(m) /\ crashed[m.pid] = 0 => m.run = run[m.pid]

Inv == TypeInv /\ OnceInv /\ FreshInv /\ CountInv /\ OwnInv

\* The same for the whole invariant.
LEMMA InvNext ==
  ASSUME TypeInv', OnceInv',
         \A m \in Messages : Live(m)' =>
             m.run <= run'[m.pid] /\ ~ (cpc'[m.pid] \in {1, 2} /\ m.run = run'[m.pid]),
         \A p \in Pids : \A S \in SUBSET Runs : (\A k \in S : Live([pid |-> p, run |-> k])') =>
             Cardinality(S) <= crashed'[p] + (IF cpc'[p] = 3 /\ run'[p] \in S THEN 1 ELSE 0),
         \A m \in Messages : Live(m)' /\ crashed'[m.pid] = 0 => m.run = run'[m.pid]
  PROVE  Inv'
  BY DEF Inv, FreshInv, CountInv, OwnInv, Live, Requested, Handed, Replied, In

\* There are finitely many clients with a process id.
LEMMA RunSets ==
  /\ \A S \in SUBSET Runs : IsFiniteSet(S) /\ Cardinality(S) \in Nat
  /\ \A p \in Pids, k \in Runs : [pid |-> p, run |-> k] \in Messages
<1>1. IsFiniteSet(Runs)
  <2>1. 0 \in Int /\ MaxRuns \in Int
    BY MessageQueueAssumption
  <2> QED BY <2>1, FS_Interval DEF Runs
<1>2. ASSUME NEW S \in SUBSET Runs PROVE IsFiniteSet(S) /\ Cardinality(S) \in Nat
  <2>1. IsFiniteSet(S)
    BY <1>1, FS_Subset
  <2> QED BY <2>1, FS_CardinalityType
<1> QED BY <1>2 DEF Messages

\* Without a kill and without a client that waits nothing is about.
LEMMA NoneAbout ==
  ASSUME TypeOK, CountInv, NEW m \in Messages, crashed[m.pid] = 0, cpc[m.pid] # 3
  PROVE  ~ Live(m)
<1> SUFFICES ASSUME Live(m) PROVE FALSE
  OBVIOUS
<1>1. m.pid \in Pids /\ m.run \in Runs /\ m = [pid |-> m.pid, run |-> m.run]
  BY TypeFacts
<1>2. \A k \in {m.run} : Live([pid |-> m.pid, run |-> k])
  BY <1>1
<1>3. Cardinality({m.run}) <= crashed[m.pid] + (IF cpc[m.pid] = 3 /\ run[m.pid] \in {m.run} THEN 1 ELSE 0)
  BY <1>1, <1>2 DEF CountInv
<1>4. Cardinality({m.run}) = 1
  BY FS_Singleton
<1> QED BY <1>3, <1>4

\* Nothing new is about, and no client begins or stops to wait without being killed.
LEMMA KeptStep ==
  ASSUME Inv, TypeInv', OnceInv', \A m \in Messages : Live(m)' => Live(m), run' = run,
         \A p \in Pids : \/ crashed'[p] = crashed[p] /\ (cpc'[p] = 3 <=> cpc[p] = 3)
                         \/ crashed'[p] = crashed[p] + 1 /\ cpc'[p] = 0,
         \A p \in Pids : cpc'[p] \in {1, 2} => cpc[p] \in {1, 2}
  PROVE  Inv'
<1>0. TypeOK
  BY DEF Inv, TypeInv
<1>1. \A m \in Messages : m.pid \in Pids
  BY <1>0, TypeFacts
<1>2. \A m \in Messages : Live(m)' =>
          m.run <= run'[m.pid] /\ ~ (cpc'[m.pid] \in {1, 2} /\ m.run = run'[m.pid])
  BY <1>1 DEF Inv, FreshInv
<1>3. ASSUME NEW p \in Pids, NEW S \in SUBSET Runs, \A k \in S : Live([pid |-> p, run |-> k])'
      PROVE  Cardinality(S) <= crashed'[p] + (IF cpc'[p] = 3 /\ run'[p] \in S THEN 1 ELSE 0)
  <2>1. \A k \in S : Live([pid |-> p, run |-> k])
    BY <1>3, RunSets
  <2>2. Cardinality(S) <= crashed[p] + (IF cpc[p] = 3 /\ run[p] \in S THEN 1 ELSE 0)
    BY <2>1 DEF Inv, CountInv
  <2>3. Cardinality(S) \in Nat /\ crashed[p] \in Nat
    BY <1>0, RunSets, TypeFacts
  <2>4. CASE crashed'[p] = crashed[p] /\ (cpc'[p] = 3 <=> cpc[p] = 3)
    BY <2>2, <2>4
  <2>5. CASE crashed'[p] = crashed[p] + 1 /\ cpc'[p] = 0
    BY <2>2, <2>3, <2>5
  <2> QED BY <2>4, <2>5
<1>4. ASSUME NEW m \in Messages, Live(m)', crashed'[m.pid] = 0 PROVE m.run = run'[m.pid]
  <2>1. m.pid \in Pids /\ crashed[m.pid] \in Nat
    BY <1>0, TypeFacts
  <2>2. crashed[m.pid] = 0
    BY <1>4, <2>1
  <2> QED BY <1>4, <2>2 DEF Inv, OwnInv
<1> QED BY <1>2, <1>3, <1>4, InvNext

\* The server makes no message: it is killed, or moves one on, or throws it away.
LEMMA ServerStep ==
  ASSUME Inv, StartServer \/ KillServer \/ Server
  PROVE  Inv'
<1>0. TypeInv /\ TypeOK /\ OnceInv
  BY DEF Inv, TypeInv
<1>1. TypeInv'
  BY <1>0, ServerTypeStep
<1>2. run' = run /\ cpc' = cpc /\ crashed' = crashed
  BY DEF StartServer, KillServer, Server, ReceiveRequest, OpenClientQueue, SendReply, clientVars
<1>3. OnceInv' /\ \A m \in Messages : Live(m)' => Live(m)
  <2>1. CASE StartServer \/ KillServer \/ OpenClientQueue
    <3>1. requests' = requests /\ replies' = replies
      BY <2>1 DEF StartServer, KillServer, OpenClientQueue, queues
    <3>2. server' \in {"open", "send"} => server \in {"open", "send"} /\ req' = req
      BY <2>1 DEF StartServer, KillServer, OpenClientQueue
    <3> QED BY <1>0, <3>1, <3>2, QuietStep
  <2>2. CASE ReceiveRequest
    BY <1>0, <2>2, ReceiveRequestOnce
  <2>3. CASE SendReply
    <3>1. CASE /\ client_qd # 0
               /\ replies' = [replies EXCEPT ![req.pid][client_qd] = Append(replies[req.pid][client_qd], req)]
      BY <1>0, <2>3, <3>1, SendReplyOnce
    <3>2. CASE replies' = replies
      <4>1. requests' = requests /\ server' = "receive"
        BY <2>3 DEF SendReply
      <4> QED BY <1>0, <3>2, <4>1, QuietStep
    <3> QED BY <2>3, <3>1, <3>2 DEF SendReply, Opened, QueueOf
  <2> QED BY <2>1, <2>2, <2>3 DEF Server
<1> QED BY <1>1, <1>2, <1>3, KeptStep

\* A new client has no message about, and finds none if nobody was killed.
LEMMA StartClientStep ==
  ASSUME Inv, NEW p \in Pids, StartClient(p)
  PROVE  Inv'
<1>0. TypeInv /\ TypeOK /\ OnceInv
  BY DEF Inv, TypeInv
<1>1. TypeInv'
  BY <1>0, ClientTypeStep
<1>2. /\ cpc[p] = 0 /\ cpc' = [cpc EXCEPT ![p] = 1] /\ run' = [run EXCEPT ![p] = run[p] + 1]
      /\ UNCHANGED <<server, req, requests, replies, crashed>>
  BY DEF StartClient, serverVars, queues
<1>3. OnceInv' /\ \A m \in Messages : Live(m)' => Live(m)
  BY <1>0, <1>2, QuietStep
<1>4. \A s \in Pids : /\ cpc'[s] = IF s = p THEN 1 ELSE cpc[s]
                      /\ run'[s] = IF s = p THEN run[s] + 1 ELSE run[s]
  BY <1>0, <1>2 DEF TypeOK
<1>5. ASSUME NEW m \in Messages, Live(m)'
      PROVE  m.run <= run'[m.pid] /\ ~ (cpc'[m.pid] \in {1, 2} /\ m.run = run'[m.pid])
  <2>1. m.pid \in Pids /\ m.run \in Nat /\ run[m.pid] \in Nat
    BY <1>0, TypeFacts
  <2>2. m.run <= run[m.pid] /\ ~ (cpc[m.pid] \in {1, 2} /\ m.run = run[m.pid])
    BY <1>3, <1>5 DEF Inv, FreshInv
  <2>3. CASE m.pid = p
    <3>1. run'[m.pid] = run[m.pid] + 1
      BY <1>4, <2>1, <2>3
    <3> QED BY <2>1, <2>2, <3>1
  <2>4. CASE m.pid # p
    BY <1>4, <2>1, <2>2, <2>4
  <2> QED BY <2>3, <2>4
<1>6. ASSUME NEW s \in Pids, NEW S \in SUBSET Runs, \A k \in S : Live([pid |-> s, run |-> k])'
      PROVE  Cardinality(S) <= crashed'[s] + (IF cpc'[s] = 3 /\ run'[s] \in S THEN 1 ELSE 0)
  <2>1. \A k \in S : Live([pid |-> s, run |-> k])
    BY <1>3, <1>6, RunSets
  <2>2. Cardinality(S) <= crashed[s] + (IF cpc[s] = 3 /\ run[s] \in S THEN 1 ELSE 0)
    BY <2>1 DEF Inv, CountInv
  <2>3. (cpc'[s] = 3 <=> cpc[s] = 3) /\ (cpc[s] = 3 => run'[s] = run[s])
    BY <1>2, <1>4
  <2> QED BY <1>2, <2>2, <2>3
<1>7. ASSUME NEW m \in Messages, Live(m)', crashed'[m.pid] = 0 PROVE m.run = run'[m.pid]
  <2>1. Live(m) /\ m.pid \in Pids /\ crashed[m.pid] = 0
    BY <1>0, <1>2, <1>3, <1>7, TypeFacts
  <2>2. m.pid # p
    BY <1>0, <1>2, <2>1, NoneAbout DEF Inv
  <2> QED BY <1>4, <2>1, <2>2 DEF Inv, OwnInv
<1> QED BY <1>1, <1>3, <1>5, <1>6, <1>7, InvNext

\* A client that begins to wait adds its own request to the count.
LEMMA SendRequestStep ==
  ASSUME Inv, NEW p \in Pids, SendRequest(p)
  PROVE  Inv'
<1>0. TypeInv /\ TypeOK /\ OnceInv
  BY DEF Inv, TypeInv
<1>1. TypeInv'
  BY <1>0, ClientTypeStep DEF Client
<1>2. cpc[p] = 2 /\ cpc' = [cpc EXCEPT ![p] = 3] /\ run' = run /\ crashed' = crashed
  BY <1>0, StepFacts DEF SendRequest
<1>3. PICK h \in Messages : h = [pid |-> p, run |-> run[p]] /\ h.pid = p /\ h.run = run[p]
  <2>1. run[p] \in Runs
    BY <1>0 DEF TypeOK
  <2> QED BY <2>1, RunSets
<1>4. ~ Live(h)
  BY <1>2, <1>3 DEF Inv, FreshInv
<1>5. OnceInv' /\ \A m \in Messages : Live(m)' => Live(m) \/ m = h
  BY <1>0, <1>3, <1>4, SendRequestOnce
<1>6. \A s \in Pids : cpc'[s] = IF s = p THEN 3 ELSE cpc[s]
  BY <1>0, <1>2 DEF TypeOK
<1>7. ASSUME NEW m \in Messages, Live(m)'
      PROVE  m.run <= run'[m.pid] /\ ~ (cpc'[m.pid] \in {1, 2} /\ m.run = run'[m.pid])
  <2>1. m.pid \in Pids /\ run[m.pid] \in Nat
    BY <1>0, TypeFacts
  <2>2. CASE m = h
    BY <1>2, <1>3, <1>6, <2>1, <2>2
  <2>3. CASE Live(m)
    BY <1>2, <1>6, <2>1, <2>3 DEF Inv, FreshInv
  <2> QED BY <1>5, <1>7, <2>2, <2>3
<1>8. ASSUME NEW s \in Pids, NEW S \in SUBSET Runs, \A k \in S : Live([pid |-> s, run |-> k])'
      PROVE  Cardinality(S) <= crashed'[s] + (IF cpc'[s] = 3 /\ run'[s] \in S THEN 1 ELSE 0)
  <2>1. CASE s # p
    <3>1. \A k \in S : Live([pid |-> s, run |-> k])
      <4> SUFFICES ASSUME NEW k \in S PROVE Live([pid |-> s, run |-> k])
        OBVIOUS
      <4>1. [pid |-> s, run |-> k] \in Messages /\ [pid |-> s, run |-> k] # h
        <5>1. [pid |-> s, run |-> k].pid = s
          OBVIOUS
        <5> QED BY <1>3, <2>1, <5>1, RunSets
      <4> QED BY <1>5, <1>8, <4>1
    <3> QED BY <1>2, <1>6, <2>1, <3>1 DEF Inv, CountInv
  <2>2. CASE s = p
    <3>1. PICK T \in SUBSET Runs : T = S \ {run[p]}
      OBVIOUS
    <3>2. \A k \in T : Live([pid |-> p, run |-> k])
      <4> SUFFICES ASSUME NEW k \in T PROVE Live([pid |-> p, run |-> k])
        OBVIOUS
      <4>1. [pid |-> p, run |-> k] \in Messages /\ [pid |-> p, run |-> k] # h
        <5>1. [pid |-> p, run |-> k].run = k
          OBVIOUS
        <5> QED BY <1>3, <3>1, <5>1, RunSets
      <4> QED BY <1>5, <1>8, <2>2, <3>1, <4>1
    <3>3. Cardinality(T) <= crashed[p] + 0
      <4>1. cpc[p] # 3
        BY <1>2
      <4> QED BY <3>2, <4>1 DEF Inv, CountInv
    <3>4. Cardinality(T) = IF run[p] \in S THEN Cardinality(S) - 1 ELSE Cardinality(S)
      BY <3>1, RunSets, FS_RemoveElement
    <3>5. Cardinality(S) \in Nat /\ crashed[p] \in Nat
      BY <1>0, RunSets, TypeFacts
    <3>6. Cardinality(S) <= crashed[p] + (IF run[p] \in S THEN 1 ELSE 0)
      BY <3>3, <3>4, <3>5
    <3> QED BY <1>2, <1>6, <2>2, <3>6
  <2> QED BY <2>1, <2>2
<1>9. ASSUME NEW m \in Messages, Live(m)', crashed'[m.pid] = 0 PROVE m.run = run'[m.pid]
  BY <1>2, <1>3, <1>5, <1>9 DEF Inv, OwnInv
<1> QED BY <1>1, <1>5, <1>7, <1>8, <1>9, InvNext

\* A client stops to wait by taking one of the messages that are counted.
LEMMA ReceiveReplyStep ==
  ASSUME Inv, NEW p \in Pids, ReceiveReply(p)
  PROVE  Inv'
<1>0. TypeInv /\ TypeOK /\ OnceInv
  BY DEF Inv, TypeInv
<1>1. TypeInv'
  BY <1>0, ClientTypeStep DEF Client
<1>2. cpc[p] = 3 /\ cpc' = [cpc EXCEPT ![p] = 4] /\ run' = run /\ crashed' = crashed
  BY <1>0, StepFacts DEF ReceiveReply
<1>3. PICK h \in Messages : h.pid = p /\ Live(h) /\ \A m \in Messages : Live(m)' => Live(m) /\ m # h
  BY <1>0, ReceiveReplyOnce
<1>4. OnceInv'
  BY <1>0, ReceiveReplyOnce
<1>5. \A s \in Pids : cpc'[s] = IF s = p THEN 4 ELSE cpc[s]
  BY <1>0, <1>2 DEF TypeOK
<1>6. ASSUME NEW m \in Messages, Live(m)'
      PROVE  m.run <= run'[m.pid] /\ ~ (cpc'[m.pid] \in {1, 2} /\ m.run = run'[m.pid])
  <2>1. m.pid \in Pids
    BY <1>0, TypeFacts
  <2> QED BY <1>2, <1>3, <1>5, <1>6, <2>1 DEF Inv, FreshInv
<1>7. ASSUME NEW s \in Pids, NEW S \in SUBSET Runs, \A k \in S : Live([pid |-> s, run |-> k])'
      PROVE  Cardinality(S) <= crashed'[s] + (IF cpc'[s] = 3 /\ run'[s] \in S THEN 1 ELSE 0)
  <2>0. \A k \in S : Live([pid |-> s, run |-> k]) /\ [pid |-> s, run |-> k] # h
    BY <1>3, <1>7, RunSets
  <2>1. CASE s # p
    BY <1>2, <1>5, <2>0, <2>1 DEF Inv, CountInv
  <2>2. CASE s = p
    <3>1. h.run \in Runs /\ h = [pid |-> p, run |-> h.run]
      BY <1>0, <1>3, TypeFacts
    <3>2. h.run \notin S
      BY <2>0, <2>2, <3>1
    <3>3. PICK T \in SUBSET Runs : T = S \cup {h.run}
      BY <3>1
    <3>4. \A k \in T : Live([pid |-> p, run |-> k])
      BY <1>3, <2>0, <2>2, <3>1, <3>3
    <3>5. Cardinality(T) <= crashed[p] + 1
      <4>1. Cardinality(T) <= crashed[p] + (IF cpc[p] = 3 /\ run[p] \in T THEN 1 ELSE 0)
        BY <3>4 DEF Inv, CountInv
      <4>2. Cardinality(T) \in Nat /\ crashed[p] \in Nat
        BY <1>0, RunSets, TypeFacts
      <4> QED BY <4>1, <4>2
    <3>6. Cardinality(T) = Cardinality(S) + 1
      BY <3>2, <3>3, RunSets, FS_AddElement
    <3>7. Cardinality(S) \in Nat /\ crashed[p] \in Nat
      BY <1>0, RunSets, TypeFacts
    <3>8. Cardinality(S) <= crashed[p] + 0
      BY <3>5, <3>6, <3>7
    <3> QED BY <1>2, <1>5, <2>2, <3>8
  <2> QED BY <2>1, <2>2
<1>8. ASSUME NEW m \in Messages, Live(m)', crashed'[m.pid] = 0 PROVE m.run = run'[m.pid]
  BY <1>2, <1>3, <1>8 DEF Inv, OwnInv
<1> QED BY <1>1, <1>4, <1>6, <1>7, <1>8, InvNext


\* What else happens to a client moves no message, a kill only adds to the allowance.
LEMMA OtherClientStep ==
  ASSUME Inv, NEW p \in Pids, CreateQueue(p) \/ UnlinkQueue(p) \/ KillClient(p)
  PROVE  Inv'
<1>0. TypeInv /\ TypeOK /\ OnceInv
  BY DEF Inv, TypeInv
<1>1. TypeInv'
  BY <1>0, ClientTypeStep DEF Client
<1>2. UNCHANGED <<server, req, requests, replies, run>>
  BY DEF CreateQueue, UnlinkQueue, KillClient, serverVars, queues
<1>3. OnceInv' /\ \A m \in Messages : Live(m)' => Live(m)
  BY <1>0, <1>2, QuietStep
<1>4. ASSUME NEW s \in Pids
      PROVE  /\ \/ crashed'[s] = crashed[s] /\ (cpc'[s] = 3 <=> cpc[s] = 3)
                \/ crashed'[s] = crashed[s] + 1 /\ cpc'[s] = 0
             /\ cpc'[s] \in {1, 2} => cpc[s] \in {1, 2}
  <2>1. CASE CreateQueue(p)
    <3>1. cpc[p] = 1 /\ cpc' = [cpc EXCEPT ![p] = 2] /\ crashed' = crashed
      BY <1>0, <2>1, StepFacts DEF CreateQueue
    <3> QED BY <1>0, <3>1 DEF TypeOK
  <2>2. CASE UnlinkQueue(p)
    <3>1. cpc[p] = 4 /\ cpc' = [cpc EXCEPT ![p] = 0] /\ crashed' = crashed
      BY <1>0, <2>2, StepFacts DEF UnlinkQueue
    <3> QED BY <1>0, <3>1 DEF TypeOK
  <2>3. CASE KillClient(p)
    <3>1. cpc' = [cpc EXCEPT ![p] = 0] /\ crashed' = [crashed EXCEPT ![p] = crashed[p] + 1]
      BY <2>3 DEF KillClient
    <3> QED BY <1>0, <3>1 DEF TypeOK
  <2> QED BY <2>1, <2>2, <2>3
<1> QED BY <1>1, <1>2, <1>3, <1>4, KeptStep

\* At the start no message is about.
LEMMA InitInv == Init => Inv
<1> SUFFICES ASSUME Init PROVE Inv
  OBVIOUS
<1>1. TypeInv /\ TypeOK
  BY InitTypes DEF TypeInv
<1>2. /\ \A l \in 1 .. MaxLives : requests[l] = <<>>
      /\ \A p \in Pids : crashed[p] = 0 /\ cpc[p] = 0 /\ \A n \in 1 .. MaxRuns : replies[p][n] = <<>>
      /\ server = "down"
  BY DEF Init
<1>3. \A m \in Messages : ~ Live(m) /\ ~ Requested(m) /\ ~ Replied(m) /\ ~ Handed(m)
  <2> SUFFICES ASSUME NEW m \in Messages PROVE ~ Requested(m) /\ ~ Replied(m) /\ ~ Handed(m)
    BY DEF Live
  <2>1. ~ Requested(m)
    BY <1>2, EmptyFacts DEF Requested
  <2>2. ~ Replied(m)
    BY <1>1, <1>2, TypeFacts, EmptyFacts DEF Replied
  <2>3. ~ Handed(m)
    BY <1>2 DEF Handed
  <2> QED BY <2>1, <2>2, <2>3
<1>4. OnceInv
  <2>1. \A l \in 1 .. MaxLives : Distinct(requests[l]) /\ \A m : ~ In(requests[l], m)
    BY <1>2, EmptyFacts
  <2>2. \A p \in Pids : \A n \in 1 .. MaxRuns : Distinct(replies[p][n]) /\ \A m : ~ In(replies[p][n], m)
    BY <1>2, EmptyFacts
  <2> QED BY <1>3, <2>1, <2>2 DEF OnceInv
<1>5. CountInv
  <2> SUFFICES ASSUME NEW p \in Pids, NEW S \in SUBSET Runs, \A k \in S : Live([pid |-> p, run |-> k])
               PROVE  Cardinality(S) <= crashed[p] + (IF cpc[p] = 3 /\ run[p] \in S THEN 1 ELSE 0)
    BY DEF CountInv
  <2>1. S = {}
    BY <1>3, RunSets
  <2>2. Cardinality(S) = 0
    BY <2>1, FS_EmptySet
  <2> QED BY <1>2, <2>2
<1> QED BY <1>1, <1>3, <1>4, <1>5 DEF Inv, FreshInv, OwnInv

\* Every step keeps the invariant.
LEMMA InvStep == Inv /\ [Next]_vars => Inv'
<1> SUFFICES ASSUME Inv, [Next]_vars PROVE Inv'
  OBVIOUS
<1>1. CASE StartServer \/ KillServer \/ Server
  BY <1>1, ServerStep
<1>2. ASSUME NEW p \in Pids, StartClient(p) \/ Client(p) \/ KillClient(p) PROVE Inv'
  BY <1>2, StartClientStep, SendRequestStep, ReceiveReplyStep, OtherClientStep DEF Client
<1>3. CASE UNCHANGED vars
  <2>1. UNCHANGED <<server, req, requests, replies, run, cpc, crashed>>
    BY <1>3 DEF vars, serverVars, clientVars, queues
  <2>2. TypeInv' /\ OnceInv'
    BY <1>3, TypeStep, QuietStep, <2>1 DEF Inv, TypeInv
  <2>3. \A m \in Messages : Live(m)' => Live(m)
    BY <2>1, QuietStep DEF Inv, TypeInv
  <2> QED BY <2>1, <2>2, <2>3, KeptStep
<1> QED BY <1>1, <1>2, <1>3 DEF Next

-----------------------------------------------------------------------------
(***************************************************************************)
(* A queue that has lost its name under the server's hands holds nothing   *)
(* of the client that now has the process id: what is in it, and the reply *)
(* that is to go into it, are older than that client.                      *)
(***************************************************************************)
OwnOf(p) == [pid |-> p, run |-> run[p]]

OrphanInv ==
    server = "send" /\ client_qd # 0 /\ Orphaned /\ cpc[req.pid] # 0 =>
        req # OwnOf(req.pid) /\ ~ In(Opened, OwnOf(req.pid))

\* The queue stays orphaned or not, nothing comes into it, and no client is started.
LEMMA OrphanKept ==
  ASSUME OrphanInv, UNCHANGED <<server, req, client_qd>>, NEW P, NEW N, P = req.pid, N = client_qd,
         cpc'[P] # 0 => /\ cpc[P] # 0 /\ run'[P] = run[P]
                        /\ ~ linked'[P] \/ N # made'[P] => ~ linked[P] \/ N # made[P]
                        /\ server = "send" /\ N # 0 =>
                              \A m : In(replies'[P][N], m) => In(replies[P][N], m)
  PROVE  OrphanInv'
<1>1. OrphanInv <=> (server = "send" /\ N # 0 /\ (~ linked[P] \/ N # made[P]) /\ cpc[P] # 0 =>
                        req # [pid |-> P, run |-> run[P]] /\ ~ In(replies[P][N], [pid |-> P, run |-> run[P]]))
  BY DEF OrphanInv, Orphaned, Opened, OwnOf, QueueOf
<1>2. (server = "send" /\ N # 0 /\ (~ linked'[P] \/ N # made'[P]) /\ cpc'[P] # 0 =>
          req # [pid |-> P, run |-> run'[P]] /\ ~ In(replies'[P][N], [pid |-> P, run |-> run'[P]]))
      => OrphanInv'
  BY DEF OrphanInv, Orphaned, Opened, OwnOf, QueueOf, In
<1> QED BY <1>1, <1>2

\* Every step keeps it that way: a new client is later than all that is about.
LEMMA OrphanStep == Inv /\ OrphanInv /\ [Next]_vars => OrphanInv'
<1> SUFFICES ASSUME Inv, OrphanInv, [Next]_vars PROVE OrphanInv'
  OBVIOUS
<1>0. TypeInv /\ TypeOK
  BY DEF Inv, TypeInv
<1>1. PICK h \in Messages, P \in Pids, N \in 0 .. MaxRuns : h = req /\ P = h.pid /\ N = client_qd
  <2>1. client_qd \in 0 .. MaxRuns
    BY <1>0 DEF TypeOK
  <2> QED BY <1>0, <2>1, TypeFacts
<1>2. N # 0 => N \in 1 .. MaxRuns
  BY MessageQueueAssumption
<1>3. CASE StartServer \/ KillServer \/ ReceiveRequest \/ SendReply
  <2>1. server' # "send"
    BY <1>3 DEF StartServer, KillServer, ReceiveRequest, SendReply
  <2> QED BY <2>1 DEF OrphanInv
<1>4. CASE OpenClientQueue
  <2>1. /\ client_qd' = (IF linked[P] THEN made[P] ELSE 0) /\ req' = req
        /\ linked' = linked /\ made' = made
    BY <1>1, <1>4 DEF OpenClientQueue, QueueOf, queues
  <2>2. client_qd' # 0 => linked'[P] /\ client_qd' = made'[P]
    BY <2>1
  <2>3. req'.pid = P
    BY <1>1, <2>1
  <2> QED BY <2>2, <2>3 DEF OrphanInv, Orphaned, QueueOf
<1>5. ASSUME NEW p \in Pids, StartClient(p) \/ Client(p) \/ KillClient(p) PROVE OrphanInv'
  <2>0. UNCHANGED <<server, req, client_qd>>
    BY <1>5 DEF StartClient, Client, CreateQueue, SendRequest, ReceiveReply, UnlinkQueue, KillClient, serverVars
  <2>1. CASE StartClient(p)
    <3>1. /\ cpc[p] = 0 /\ cpc' = [cpc EXCEPT ![p] = 1] /\ run' = [run EXCEPT ![p] = run[p] + 1]
          /\ UNCHANGED <<linked, made, replies>>
      BY <2>1 DEF StartClient, queues
    <3>2. CASE p # P
      <4>1. cpc'[P] = cpc[P] /\ run'[P] = run[P]
        BY <1>0, <3>1, <3>2 DEF TypeOK
      <4> QED BY <1>1, <2>0, <3>1, <4>1, OrphanKept
    <3>3. CASE p = P
      <4>1. PICK r \in Nat : r = run[P]
        BY <1>0, TypeFacts
      <4>2. run'[P] = r + 1
        BY <1>0, <3>1, <3>3, <4>1 DEF TypeOK
      <4>3. \A m \in Messages : m.pid = P /\ m.run = r + 1 => ~ Live(m)
        BY <4>1 DEF Inv, FreshInv
      <4>4. ASSUME server = "send", N # 0
            PROVE  h # [pid |-> P, run |-> r + 1] /\ ~ In(replies[P][N], [pid |-> P, run |-> r + 1])
        <5>1. [pid |-> P, run |-> r + 1].pid = P /\ [pid |-> P, run |-> r + 1].run = r + 1
          OBVIOUS
        <5>2. Live(h)
          BY <1>1, <4>4 DEF Live, Handed
        <5>3. h # [pid |-> P, run |-> r + 1]
          BY <4>3, <5>1, <5>2
        <5>4. r + 1 \in Runs
          <6>1. run[P] < MaxRuns /\ MaxRuns \in Nat
            BY <1>0, <2>1, <3>3, TypeFacts DEF StartClient
          <6> QED BY <4>1, <6>1 DEF Runs
        <5>5. [pid |-> P, run |-> r + 1] \in Messages
          BY <5>4, RunSets
        <5>6. ~ Replied([pid |-> P, run |-> r + 1])
          BY <4>3, <5>1, <5>5 DEF Live
        <5> QED BY <1>2, <4>4, <5>1, <5>3, <5>6 DEF Replied
      <4>5. ASSUME server' = "send", client_qd' # 0
            PROVE  req' # OwnOf(req.pid)' /\ ~ In(Opened, OwnOf(req.pid))'
        <5>1. server = "send" /\ N # 0 /\ req' = h /\ req'.pid = P
          BY <1>1, <2>0, <4>5
        <5>2. OwnOf(req.pid)' = [pid |-> P, run |-> r + 1]
          BY <4>2, <5>1 DEF OwnOf
        <5>3. Opened' = replies[P][N]
          BY <1>1, <2>0, <3>1, <5>1 DEF Opened, QueueOf
        <5>4. In(Opened, OwnOf(req.pid))' <=> In(Opened', OwnOf(req.pid)')
          BY DEF In
        <5> QED BY <4>4, <5>1, <5>2, <5>3, <5>4
      <4> QED BY <4>5 DEF OrphanInv
    <3> QED BY <3>2, <3>3
  <2>2. CASE CreateQueue(p)
    <3>1. /\ cpc[p] = 1 /\ cpc' = [cpc EXCEPT ![p] = 2] /\ linked' = [linked EXCEPT ![p] = TRUE]
          /\ made' = [made EXCEPT ![p] = IF linked[p] THEN made[p] ELSE made[p] + 1]
          /\ UNCHANGED <<run, replies>>
      BY <1>0, <2>2, StepFacts DEF CreateQueue, QueueOf
    <3>2. ~ linked'[P] \/ N # made'[P] => ~ linked[P] \/ N # made[P]
      BY <1>0, <3>1 DEF TypeOK
    <3>3. cpc'[P] # 0 => cpc[P] # 0
      BY <1>0, <3>1 DEF TypeOK
    <3> QED BY <1>1, <2>0, <3>1, <3>2, <3>3, OrphanKept
  <2>3. CASE SendRequest(p)
    <3>1. /\ cpc[p] = 2 /\ cpc' = [cpc EXCEPT ![p] = 3] /\ UNCHANGED <<run, linked, made, replies>>
      BY <1>0, <2>3, StepFacts DEF SendRequest, queues
    <3>2. cpc'[P] # 0 => cpc[P] # 0
      BY <1>0, <3>1 DEF TypeOK
    <3> QED BY <1>1, <2>0, <3>1, <3>2, OrphanKept
  <2>4. CASE ReceiveReply(p)
    <3>1. /\ cpc[p] = 3 /\ cpc' = [cpc EXCEPT ![p] = 4] /\ replies[p][made[p]] # <<>>
          /\ replies' = [replies EXCEPT ![p][made[p]] = Tail(replies[p][made[p]])]
          /\ UNCHANGED <<run, linked, made>>
      BY <1>0, <2>4, StepFacts DEF ReceiveReply, Own, QueueOf
    <3>2. cpc'[P] # 0 => cpc[P] # 0
      BY <1>0, <3>1 DEF TypeOK
    <3>3. PICK M \in 1 .. MaxRuns, q \in Seq(Messages) : M = made[p] /\ q = replies[p][M] /\ q # <<>>
      <4>1. made[p] \in 1 .. MaxRuns
        BY <1>0, <3>1, OwnQueue
      <4> QED BY <1>0, <3>1, <4>1, TypeFacts
    <3>4. \A m : In(Tail(q), m) => In(q, m)
      BY <3>3, HeadFacts
    <3>5. \A s \in Pids : \A n \in 1 .. MaxRuns :
              replies'[s][n] = IF s = p /\ n = M THEN Tail(q) ELSE replies[s][n]
      BY <1>0, <3>1, <3>3 DEF TypeOK
    <3>6. N # 0 => \A m : In(replies'[P][N], m) => In(replies[P][N], m)
      BY <1>2, <3>3, <3>4, <3>5
    <3> QED BY <1>1, <2>0, <3>1, <3>2, <3>6, OrphanKept
  <2>5. CASE UnlinkQueue(p) \/ KillClient(p)
    <3>1. cpc' = [cpc EXCEPT ![p] = 0] /\ run' = run /\ replies' = replies /\ made' = made
          /\ (linked' = linked \/ linked' = [linked EXCEPT ![p] = FALSE])
      <4>1. CASE UnlinkQueue(p)
        BY <1>0, <4>1, StepFacts DEF UnlinkQueue, QueueOf
      <4>2. CASE KillClient(p)
        BY <4>2 DEF KillClient, queues
      <4> QED BY <2>5, <4>1, <4>2
    <3>2. cpc'[P] # 0 => p # P
      BY <1>0, <3>1 DEF TypeOK
    <3>3. p # P => cpc'[P] = cpc[P] /\ linked'[P] = linked[P]
      BY <1>0, <3>1 DEF TypeOK
    <3> QED BY <1>1, <2>0, <3>1, <3>2, <3>3, OrphanKept
  <2> QED BY <1>5, <2>1, <2>2, <2>3, <2>4, <2>5 DEF Client
<1>6. CASE UNCHANGED vars
  <2>1. UNCHANGED <<server, req, client_qd, cpc, run, linked, made, replies>>
    BY <1>6 DEF vars, serverVars, clientVars, queues
  <2> QED BY <1>1, <2>1, OrphanKept
<1> QED BY <1>3, <1>4, <1>5, <1>6 DEF Next, Server

\* The invariants hold throughout.
LEMMA Inductive == Spec => [](Inv /\ OrphanInv)
<1>1. Init => OrphanInv
  BY DEF Init, OrphanInv
<1> QED BY <1>1, InitInv, InvStep, OrphanStep, PTL DEF Spec

\* "Use process_id in the queue name to ensure every process get a unique queue
\* name": whatever is killed and started again, a client gets the reply to a request
\* with its own process id, and to its own one unless a client with that process id
\* was killed.
THEOREM OwnReply == Spec => ReplyIsOwn
<1>1. ASSUME Inv, [Next]_vars
      PROVE  [\A p \in Pids : ReceiveReply(p) => /\ Head(Own(p)).pid = p
                                                 /\ Head(Own(p)).run = run[p] \/ crashed[p] > 0]_vars
  <2> SUFFICES ASSUME NEW p \in Pids, ReceiveReply(p)
               PROVE  /\ Head(Own(p)).pid = p
                      /\ Head(Own(p)).run = run[p] \/ crashed[p] > 0
    BY Zenon
  <2>1. Head(Own(p)) \in Messages /\ Head(Own(p)).pid = p /\ Live(Head(Own(p)))
    BY <1>1, ReceiveReplyOnce DEF Inv
  <2>2. crashed[p] = 0 => Head(Own(p)).run = run[p]
    BY <1>1, <2>1 DEF Inv, OwnInv
  <2>3. crashed[p] \in Nat
    BY <1>1, TypeFacts DEF Inv, TypeInv
  <2> QED BY <2>1, <2>2, <2>3
<1> QED BY <1>1, Inductive, PTL DEF Spec, ReplyIsOwn

\* A full queue holds as many runs as it holds replies.
LEMMA FullQueue ==
  ASSUME Inv, NEW p \in Pids, NEW N \in 1 .. MaxRuns
  PROVE  \E S \in SUBSET Runs : /\ Cardinality(S) = Len(replies[p][N])
                                /\ \A k \in S : In(replies[p][N], [pid |-> p, run |-> k])
<1>1. PICK q \in Seq(Messages), n \in Nat : q = replies[p][N] /\ n = Len(q)
  BY TypeFacts DEF Inv, TypeInv
<1>2. \A i \in 1 .. n : q[i] \in Messages /\ q[i].run \in Runs /\ q[i] = [pid |-> p, run |-> q[i].run]
  <2> SUFFICES ASSUME NEW i \in 1 .. n
               PROVE  q[i] \in Messages /\ q[i].run \in Runs /\ q[i] = [pid |-> p, run |-> q[i].run]
    OBVIOUS
  <2>1. PICK m \in Messages : m = q[i]
    BY <1>1, ElementOfSeq
  <2>2. m.run \in Runs /\ m = [pid |-> m.pid, run |-> m.run]
    BY TypeFacts DEF Inv, TypeInv
  <2>3. m.pid = p
    BY <1>1, <2>1 DEF Inv, TypeInv
  <2> QED BY <2>1, <2>2, <2>3
<1> DEFINE S == {q[i].run : i \in 1 .. n}
           f == [i \in 1 .. n |-> q[i].run]
<1>3. S \in SUBSET Runs
  BY <1>2
<1>4. f \in Bijection(1 .. n, S)
  <2>1. f \in [1 .. n -> S]
    OBVIOUS
  <2>2. ASSUME NEW i \in 1 .. n, NEW j \in 1 .. n, f[i] = f[j] PROVE i = j
    <3>1. q[i].run = q[j].run
      BY <2>2
    <3>2. q[i] = q[j]
      BY <1>2, <3>1
    <3>3. Distinct(q)
      BY <1>1 DEF Inv, OnceInv
    <3> QED BY <1>1, <3>2, <3>3 DEF Distinct
  <2>3. \A k \in S : \E i \in 1 .. n : f[i] = k
    OBVIOUS
  <2>4. DOMAIN f = 1 .. n
    OBVIOUS
  <2> HIDE DEF S, f
  <2> QED BY <2>1, <2>2, <2>3, <2>4 DEF Bijection, Injection, Surjection, IsInjective
<1>5. Cardinality(S) = n
  <2>1. IsFiniteSet(1 .. n) /\ Cardinality(1 .. n) = n
    <3>1. 1 \in Int /\ n \in Int
      OBVIOUS
    <3>2. IsFiniteSet(1 .. n) /\ Cardinality(1 .. n) = IF 1 > n THEN 0 ELSE n - 1 + 1
      BY <3>1, FS_Interval
    <3> QED BY <3>2
  <2>2. ExistsBijection(1 .. n, S)
    BY <1>4 DEF ExistsBijection
  <2> HIDE DEF S
  <2> QED BY <2>1, <2>2, FS_Bijection
<1>6. \A k \in S : In(q, [pid |-> p, run |-> k])
  BY <1>1, <1>2 DEF In
<1> HIDE DEF S
<1> QED BY <1>1, <1>3, <1>5, <1>6

\* The server waits for room in a queue that nobody reads, be it that the client is
\* gone or that the queue has lost its name since it was opened, only if more clients
\* with that process id were killed than the queue holds replies.
THEOREM BlockedOnlyByKills == Spec => []BlockedOnlyBehindCrashes
<1>1. ASSUME Inv, OrphanInv, Blocked PROVE crashed[req.pid] > MSG_MAX_COUNT
  <2>1. PICK h \in Messages, p \in Pids, N \in 1 .. MaxRuns :
            /\ h = req /\ p = h.pid /\ h = [pid |-> p, run |-> h.run] /\ h.run \in Runs
            /\ N = client_qd /\ N # 0
    <3>1. client_qd \in 1 .. MaxRuns /\ client_qd # 0
      BY <1>1, MessageQueueAssumption DEF Blocked, Inv, TypeInv, TypeOK
    <3> QED BY <1>1, <3>1, TypeFacts DEF Inv, TypeInv
  <2>2. server = "send" /\ ~ (Len(replies[p][N]) < MSG_MAX_COUNT)
    BY <1>1, <2>1 DEF Blocked, HasRoom, Opened, QueueOf
  <2>3. Handed(h) /\ ~ Replied(h)
    <3>1. Handed(h)
      BY <2>1, <2>2 DEF Handed
    <3> QED BY <1>1, <3>1 DEF Inv, OnceInv
  <2>4. PICK S \in SUBSET Runs : /\ Cardinality(S) = Len(replies[p][N])
                                 /\ \A k \in S : In(replies[p][N], [pid |-> p, run |-> k])
    BY <1>1, FullQueue
  <2>5. \A k \in S : Replied([pid |-> p, run |-> k])
    <3> SUFFICES ASSUME NEW k \in S PROVE Replied([pid |-> p, run |-> k])
      OBVIOUS
    <3>1. [pid |-> p, run |-> k].pid = p
      OBVIOUS
    <3> QED BY <2>4, <3>1 DEF Replied
  <2>6. h.run \notin S
    BY <2>1, <2>3, <2>5
  <2>7. PICK T \in SUBSET Runs : T = S \cup {h.run}
    BY <2>1
  <2>8. Cardinality(T) = Cardinality(S) + 1
    BY <2>6, <2>7, RunSets, FS_AddElement
  <2>9. \A k \in T : Live([pid |-> p, run |-> k])
    BY <2>1, <2>3, <2>5, <2>7 DEF Live
  \* The client that has the process id now, should it wait, has nothing in there.
  <2>10. cpc[p] = 3 => run[p] \notin T
    <3> SUFFICES ASSUME cpc[p] = 3 PROVE run[p] \notin T
      OBVIOUS
    <3>1. ~ At(p, "send")
      BY ProgramFacts DEF At
    <3>2. Orphaned
      BY <1>1, <2>1, <3>1 DEF Blocked
    <3>3. /\ h # [pid |-> p, run |-> run[p]]
          /\ ~ In(replies[p][N], [pid |-> p, run |-> run[p]])
      BY <1>1, <2>1, <2>2, <3>2 DEF OrphanInv, OwnOf, Opened, QueueOf
    <3> QED BY <2>1, <2>4, <2>7, <3>3
  <2>11. Cardinality(T) <= crashed[p] + (IF cpc[p] = 3 /\ run[p] \in T THEN 1 ELSE 0)
    BY <1>1, <2>9 DEF Inv, CountInv
  <2>12. Cardinality(T) <= crashed[p] + 0
    BY <2>10, <2>11
  <2>13. crashed[p] \in Nat /\ MSG_MAX_COUNT \in Nat /\ Len(replies[p][N]) \in Nat
    BY <1>1, TypeFacts DEF Inv, TypeInv
  <2> QED BY <2>1, <2>2, <2>4, <2>8, <2>12, <2>13
<1>2. Inv /\ OrphanInv => BlockedOnlyBehindCrashes
  BY <1>1 DEF BlockedOnlyBehindCrashes
<1> QED BY <1>2, Inductive, PTL
=============================================================================
