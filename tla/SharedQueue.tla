----------------------------- MODULE SharedQueue -----------------------------
(***************************************************************************)
(* src/1_ipc/shm.c: a producer and a consumer process share a ring buffer  *)
(* in a shared memory segment.  The mutex they lock is a local variable of *)
(* main, initialised before fork, so each process has a copy of its own.   *)
(*                                                                         *)
(* q->count++ and q->count-- are a load and a store: the two processes     *)
(* race for count, and the build may produce every interleaving of the     *)
(* two.  next_avail and the item counter belong to the producer,           *)
(* next_full to the consumer; their updates commute with what the other    *)
(* process does and are one step with the access to data.                  *)
(*                                                                         *)
(* The names every specification has carry Shm here: the proofs about both *)
(* queues of 1_ipc extend this module and MessageQueue.                    *)
(***************************************************************************)
EXTENDS Integers, Sequences

CONSTANTS
    BUFFER_SIZE,    \* 10 in the program
    MaxItems        \* bound: items the producer makes

ASSUME QueueAssumption ==
    /\ BUFFER_SIZE \in Nat /\ BUFFER_SIZE >= 1
    /\ MaxItems \in Nat

VARIABLES
    data, next_full, next_avail, count,     \* the shared segment
    nextItemId,                             \* local to the producer
    mutex,                                  \* mutex[m]: the processes that hold copy m
    pc,                                     \* pc[p]: where process p is in its loop
    reg,                                    \* reg[p]: what p has loaded from count
    consumed,                               \* history: the items consumed, in order
    overlapped                              \* history: two updates of count overlapped

segment == <<data, next_full, next_avail, count>>
history == <<consumed, overlapped>>
shmVars == <<segment, nextItemId, mutex, pc, reg, history>>

Processes == {"producer", "consumer"}
Other(p) == IF p = "producer" THEN "consumer" ELSE "producer"
Slots == 0 .. BUFFER_SIZE - 1

(***************************************************************************)
(* The mutex a process locks: after fork its own copy of main's local.     *)
(***************************************************************************)
MutexOf(p) == p

Labels == {"lock", "test", "access", "load", "store", "unlock"}
CriticalSection == Labels \ {"lock"}

\* pc_queue_init and fork; data is not initialised; that of a new segment is zero.
ShmInit ==
    /\ data = [s \in Slots |-> 0]
    /\ next_full = 0 /\ next_avail = 0 /\ count = 0
    /\ nextItemId = 1
    /\ mutex = [m \in {MutexOf(p) : p \in Processes} |-> {}]
    /\ pc = [p \in Processes |-> "lock"]
    /\ reg = [p \in Processes |-> 0]
    /\ consumed = <<>>
    /\ overlapped = FALSE

Goto(p, from, to) == pc[p] = from /\ pc' = [pc EXCEPT ![p] = to]

Lock(p) ==
    /\ Goto(p, "lock", "test")
    /\ mutex[MutexOf(p)] = {}
    /\ mutex' = [mutex EXCEPT ![MutexOf(p)] = {p}]
    /\ UNCHANGED <<segment, nextItemId, reg, history>>

Unlock(p) ==
    /\ Goto(p, "unlock", "lock")
    /\ mutex' = [mutex EXCEPT ![MutexOf(p)] = {}]
    /\ UNCHANGED <<segment, nextItemId, reg, history>>

\* Mutant: room is taken for granted when the buffer is full.
RoomForOneMore(p) == IF p = "producer" THEN count <= BUFFER_SIZE ELSE count # 0

MayProceed(p) == IF p = "producer" THEN count < BUFFER_SIZE ELSE count # 0

Test(p) ==
    /\ Goto(p, "test", IF MayProceed(p) THEN "access" ELSE "unlock")
    /\ UNCHANGED <<segment, nextItemId, mutex, reg, history>>

NextSlot(s) == (s + 1) % BUFFER_SIZE

Put ==
    /\ Goto("producer", "access", "load")
    /\ nextItemId <= MaxItems
    /\ data' = [data EXCEPT ![next_avail] = nextItemId]
    /\ nextItemId' = nextItemId + 1
    /\ next_avail' = NextSlot(next_avail)
    /\ UNCHANGED <<next_full, count, mutex, reg, history>>

Take ==
    /\ Goto("consumer", "access", "load")
    /\ consumed' = Append(consumed, data[next_full])
    /\ next_full' = NextSlot(next_full)
    /\ UNCHANGED <<data, next_avail, count, nextItemId, mutex, reg, overlapped>>

Load(p) ==
    /\ Goto(p, "load", "store")
    /\ reg' = [reg EXCEPT ![p] = count]
    /\ overlapped' = (overlapped \/ pc[Other(p)] = "store")
    /\ UNCHANGED <<segment, nextItemId, mutex, consumed>>

Store(p) ==
    /\ Goto(p, "store", "unlock")
    /\ count' = IF p = "producer" THEN reg[p] + 1 ELSE reg[p] - 1
    /\ UNCHANGED <<data, next_full, next_avail, nextItemId, mutex, reg, history>>

Process(p) ==
    \/ Lock(p) \/ Test(p) \/ Load(p) \/ Store(p) \/ Unlock(p)
    \/ p = "producer" /\ Put
    \/ p = "consumer" /\ Take

ShmNext == \E p \in Processes : Process(p)

ShmSpec == ShmInit /\ [][ShmNext]_shmVars

-----------------------------------------------------------------------------
\* The segment, the locals of both loops and the history.
ShmTypeOK ==
    /\ data \in [Slots -> 0 .. MaxItems]
    /\ next_full \in Slots /\ next_avail \in Slots
    /\ count \in Int
    /\ nextItemId \in 1 .. MaxItems + 1
    /\ mutex \in [Processes -> SUBSET Processes]
    /\ pc \in [Processes -> Labels]
    /\ reg \in [Processes -> Int]
    /\ consumed \in Seq(0 .. MaxItems)
    /\ overlapped \in BOOLEAN

(***************************************************************************)
(* The comments of the program: the mutex is shared by the processes, and  *)
(* what lies between lock and unlock is a critical section.                *)
(***************************************************************************)
MutualExclusion == \E p \in Processes : pc[p] \notin CriticalSection

(***************************************************************************)
(* However the two race, count stays a number of items the buffer can      *)
(* hold: each process can only make the condition of the other's test      *)
(* more true between that test and its use.                                *)
(***************************************************************************)
CountInRange == count \in 0 .. BUFFER_SIZE

(***************************************************************************)
(* The race for count is the only one that matters: as long as no two      *)
(* updates of it overlapped, the consumer has taken the items in order,    *)
(* each once, although the processes were in their sections at once.       *)
(***************************************************************************)
FifoUntilOverlap ==
    ~ overlapped => \A i \in 1 .. Len(consumed) : consumed[i] = i

(***************************************************************************)
(* What the two rest on.  What a process has tested still holds when it    *)
(* acts on it, and what it has loaded stays within the same bounds.        *)
(***************************************************************************)
TestStillHolds ==
    /\ \A p \in Processes : pc[p] \in {"access", "load"} => MayProceed(p)
    /\ pc["producer"] = "store" => reg["producer"] \in 0 .. BUFFER_SIZE - 1
    /\ pc["consumer"] = "store" => reg["consumer"] \in 1 .. BUFFER_SIZE

produced == nextItemId - 1

\* Items a process has put or taken but not counted yet.
Uncounted(p) == IF pc[p] \in {"load", "store"} THEN 1 ELSE 0

(***************************************************************************)
(* Until updates overlap count is right but for the item in hand, and the  *)
(* slots between the two indices hold the items made and not yet taken.    *)
(***************************************************************************)
BufferHoldsTheRest ==
    ~ overlapped =>
        /\ \A p \in Processes : pc[p] = "store" => reg[p] = count
        /\ ~ (\A p \in Processes : pc[p] = "store")
        /\ produced + Uncounted("consumer")
              = Len(consumed) + count + Uncounted("producer")
        /\ next_avail = produced % BUFFER_SIZE
        /\ next_full = Len(consumed) % BUFFER_SIZE
        /\ \A i \in Len(consumed) + 1 .. produced :
              data[(i - 1) % BUFFER_SIZE] = i
=============================================================================
