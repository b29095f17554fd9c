------------------------------ MODULE SrTimers ------------------------------
(***************************************************************************)
(* The threads of src/4_mac/sr_sender.py: main, and one threading.Timer    *)
(* thread for each timer that runs, around pbuffer, timers, the socket and *)
(* client_sync_lock.  A step is what the interpreter does between two      *)
(* accesses to something the threads share.                                *)
(*                                                                         *)
(* The receiver is reduced to the replies SelectiveRepeat shows it to      *)
(* give: an ACK of some of the frames outstanding or a NACK for one of     *)
(* them.  A frame is its position in the message, from 1.                  *)
(***************************************************************************)
EXTENDS Integers

CONSTANTS
    SRP_WINDOW_SIZE,
    MsgLen,         \* length of the message
    MaxNacks,       \* bound: NACKs main gets
    MaxTimers       \* bound: Timer objects there are at a time

ASSUME SrTimersAssumption ==
    /\ SRP_WINDOW_SIZE \in Nat /\ SRP_WINDOW_SIZE >= 1
    /\ MsgLen \in Nat /\ MaxNacks \in Nat
    /\ MaxTimers \in Nat /\ MaxTimers >= 1

Slots == 0 .. SRP_WINDOW_SIZE - 1
SlotFor(i) == (i - 1) % SRP_WINDOW_SIZE
Timers == 1 .. MaxTimers
None == 0           \* no frame, no timer, nobody
Main == MaxTimers + 1     \* as the holder of the lock

VARIABLES
    next_msg_char,      \* frames made so far
    acknowledged,       \* frames before S_f
    pbuffer,            \* the frame in each slot, or None
    timers,             \* the Timer object of each slot, or None
    client_sync_lock,   \* the thread that holds it, or None
    mpc,                \* where main is
    phase,              \* what it does there: send a frame, handle an ACK or a NACK
    ind,                \* the slot main works on
    ackno,              \* frames the ACK main works on acknowledges
    nacks,              \* NACKs so far
    tpc,                \* where each Timer is
    index               \* the slot each Timer was made for

frames == <<next_msg_char, acknowledged, pbuffer>>
mainLocals == <<mpc, phase, ind, ackno, nacks>>
timerState == <<tpc, index>>
vars == <<frames, timers, client_sync_lock, mainLocals, timerState>>

(***************************************************************************)
(* A Timer is made ("created"), started ("waiting") and, when its time is  *)
(* up, runs callback_timeout.  cancel() ends one that waits, and disarms   *)
(* one not yet started, which then ends as soon as it is.  "length" and    *)
(* "body" are the two writes of send_packet.                               *)
(***************************************************************************)
InCallback == {"lock", "test", "length", "body", "create", "start", "unlock"}
TimerLabels == {"created", "disarmed", "waiting", "finished"} \cup InCallback
is_alive(t) == tpc[t] \in {"waiting"} \cup InCallback

MainLabels == {"turn", "lock", "length", "body", "create", "start", "poll",
               "purge", "stop", "cancel", "forget", "done",
               "stop_failed", "start_failed"}

Init ==
    /\ next_msg_char = 0 /\ acknowledged = 0
    /\ pbuffer = [s \in Slots |-> None]
    /\ timers = [s \in Slots |-> None]
    /\ client_sync_lock = None
    /\ mpc = "turn" /\ phase = "send" /\ ind = 0 /\ ackno = 0 /\ nacks = 0
    /\ tpc = [t \in Timers |-> "finished"]
    /\ index = [t \in Timers |-> 0]

\* An object nobody refers to any more; the next Timer made may be this one.
Garbage(t) ==
    /\ tpc[t] \in {"created", "disarmed", "finished"}
    /\ \A s \in Slots : timers[s] # t
NewTimers == {t \in Timers : Garbage(t) /\ \A u \in Timers : Garbage(u) => t <= u}

\* timers[s] = Timer(3, callback_timeout, args=(s, )), by a thread whose step is next.
CreateTimer(s, next) ==
    \E t \in NewTimers :
        /\ timers' = [timers EXCEPT ![s] = t]
        /\ tpc' = [next EXCEPT ![t] = "created"]
        /\ index' = [index EXCEPT ![t] = s]

\* timers[s].start() finds an object that has not been started.
CanStart(s) == timers[s] # None /\ tpc[timers[s]] \in {"created", "disarmed"}
Started(t) == IF tpc[t] = "created" THEN "waiting" ELSE "finished"

Cancelled(t) ==
    CASE tpc[t] = "waiting" -> "finished"
      [] tpc[t] = "created" -> "disarmed"
      [] OTHER -> tpc[t]

-----------------------------------------------------------------------------
(***************************************************************************)
(* main.                                                                   *)
(***************************************************************************)
MainGoto(from, to) == mpc = from /\ mpc' = to

\* The end of a turn: break, or round again.
EndOfTurn(acked) == IF acked = MsgLen THEN "done" ELSE "turn"

MaySend == next_msg_char - acknowledged < SRP_WINDOW_SIZE /\ next_msg_char < MsgLen

NewFrame ==
    LET i == next_msg_char + 1
    IN  /\ MainGoto("turn", "lock") /\ MaySend
        /\ next_msg_char' = i
        /\ pbuffer' = [pbuffer EXCEPT ![SlotFor(i)] = i]
        /\ phase' = "send" /\ ind' = SlotFor(i)
        /\ UNCHANGED <<acknowledged, timers, client_sync_lock, ackno, nacks, timerState>>

NoNewFrame ==
    /\ MainGoto("turn", "poll") /\ ~ MaySend
    /\ UNCHANGED <<frames, timers, client_sync_lock, phase, ind, ackno, nacks, timerState>>

MainLockNotTaken ==                             \* mutant of MainLock
    /\ MainGoto("lock", "length")
    /\ UNCHANGED <<frames, timers, client_sync_lock, phase, ind, ackno, nacks, timerState>>

MainLock ==
    /\ MainGoto("lock", "length")
    /\ client_sync_lock = None
    /\ client_sync_lock' = Main
    /\ UNCHANGED <<frames, timers, phase, ind, ackno, nacks, timerState>>

MainWriteLength ==
    /\ MainGoto("length", "body")
    /\ UNCHANGED <<frames, timers, client_sync_lock, phase, ind, ackno, nacks, timerState>>

\* The second write, and the end of the with statement of a new frame.
MainWriteBody ==
    /\ MainGoto("body", "create")
    /\ client_sync_lock' = IF phase = "send" THEN None ELSE client_sync_lock
    /\ UNCHANGED <<frames, timers, phase, ind, ackno, nacks, timerState>>

MainCreateTimer ==
    /\ MainGoto("create", "start")
    /\ CreateTimer(ind, tpc)
    /\ UNCHANGED <<frames, client_sync_lock, phase, ind, ackno, nacks>>

MainStartTimer ==
    /\ MainGoto("start", IF phase = "send" THEN "poll" ELSE EndOfTurn(acknowledged))
    /\ CanStart(ind)
    /\ tpc' = [tpc EXCEPT ![timers[ind]] = Started(timers[ind])]
    /\ UNCHANGED <<frames, timers, client_sync_lock, phase, ind, ackno, nacks, index>>

\* A Timer that has been started already: an exception nobody catches.
MainStartFails ==
    /\ MainGoto("start", "start_failed") /\ ~ CanStart(ind)
    /\ UNCHANGED <<frames, timers, client_sync_lock, phase, ind, ackno, nacks, timerState>>

NoReply ==
    /\ MainGoto("poll", EndOfTurn(acknowledged))
    /\ UNCHANGED <<frames, timers, client_sync_lock, phase, ind, ackno, nacks, timerState>>

ReceiveAck(k) ==
    /\ MainGoto("poll", "purge")
    /\ k \in acknowledged + 1 .. next_msg_char
    /\ phase' = "ack" /\ ackno' = k /\ ind' = SlotFor(acknowledged + 1)
    /\ UNCHANGED <<frames, timers, client_sync_lock, nacks, timerState>>

ReceiveNack(i) ==
    /\ MainGoto("poll", "stop")
    /\ nacks < MaxNacks /\ nacks' = nacks + 1
    /\ i \in acknowledged + 1 .. next_msg_char /\ pbuffer[SlotFor(i)] = i
    /\ phase' = "nack" /\ ind' = SlotFor(i)
    /\ UNCHANGED <<frames, timers, client_sync_lock, ackno, timerState>>

Purge ==
    /\ MainGoto("purge", "stop")
    /\ pbuffer' = [pbuffer EXCEPT ![ind] = None]
    /\ UNCHANGED <<next_msg_char, acknowledged, timers, client_sync_lock,
                   phase, ind, ackno, nacks, timerState>>

\* stop_timer(ind) looks at the Timer, and would raise an Error without one.
StopTimer ==
    /\ MainGoto("stop", IF timers[ind] = None THEN "stop_failed"
                        ELSE IF is_alive(timers[ind]) THEN "cancel" ELSE "forget")
    /\ UNCHANGED <<frames, timers, client_sync_lock, phase, ind, ackno, nacks, timerState>>

\* cancel() of the Timer that is there now, in time or not.
CancelTimer ==
    /\ MainGoto("cancel", "forget")
    /\ tpc' = [tpc EXCEPT ![timers[ind]] = Cancelled(timers[ind])]
    /\ UNCHANGED <<frames, timers, client_sync_lock, phase, ind, ackno, nacks, index>>

ForgetTimerOfNack ==
    /\ phase = "nack" /\ MainGoto("forget", "length")
    /\ timers' = [timers EXCEPT ![ind] = None]
    /\ UNCHANGED <<frames, client_sync_lock, phase, ind, ackno, nacks, timerState>>

ForgetTimerOfAck ==
    /\ phase = "ack"
    /\ MainGoto("forget", IF acknowledged + 1 < ackno THEN "purge"
                          ELSE EndOfTurn(acknowledged + 1))
    /\ timers' = [timers EXCEPT ![ind] = None]
    /\ acknowledged' = acknowledged + 1
    /\ ind' = SlotFor(acknowledged + 2)
    /\ UNCHANGED <<next_msg_char, pbuffer, client_sync_lock, phase, ackno, nacks, timerState>>

MainThread ==
    \/ NewFrame \/ NoNewFrame \/ MainLock \/ MainWriteLength \/ MainWriteBody
    \/ MainCreateTimer \/ MainStartTimer \/ MainStartFails
    \/ NoReply
    \/ \E i \in 1 .. MsgLen : ReceiveAck(i) \/ ReceiveNack(i)
    \/ Purge \/ StopTimer \/ CancelTimer \/ ForgetTimerOfNack \/ ForgetTimerOfAck

-----------------------------------------------------------------------------
(***************************************************************************)
(* Timer.run and callback_timeout.                                         *)
(***************************************************************************)
TimerGoto(t, from, to) == tpc[t] = from /\ tpc' = [tpc EXCEPT ![t] = to]
unchangedByTimer == <<frames, mainLocals, index>>

FiredTimerCleared(t) ==                         \* mutant of Fire
    /\ TimerGoto(t, "waiting", "lock")
    /\ timers' = [timers EXCEPT ![index[t]] = None]
    /\ UNCHANGED <<unchangedByTimer, client_sync_lock>>

\* Three seconds are over.
Fire(t) ==
    /\ TimerGoto(t, "waiting", "lock")
    /\ UNCHANGED <<unchangedByTimer, timers, client_sync_lock>>

CallbackLock(t) ==
    /\ TimerGoto(t, "lock", "test")
    /\ client_sync_lock = None
    /\ client_sync_lock' = t
    /\ UNCHANGED <<unchangedByTimer, timers>>

TestSlot(t) ==
    /\ TimerGoto(t, "test", IF pbuffer[index[t]] # None THEN "length" ELSE "unlock")
    /\ UNCHANGED <<unchangedByTimer, timers, client_sync_lock>>

\* pbuffer[index] is read again: send_packet writes nothing for None.
WriteLength(t) ==
    /\ TimerGoto(t, "length", IF pbuffer[index[t]] # None THEN "body" ELSE "create")
    /\ UNCHANGED <<unchangedByTimer, timers, client_sync_lock>>

WriteBody(t) ==
    /\ TimerGoto(t, "body", "create")
    /\ UNCHANGED <<unchangedByTimer, timers, client_sync_lock>>

TimerNotRestarted(t) ==                         \* mutant of RestartTimer
    /\ TimerGoto(t, "create", "unlock")
    /\ UNCHANGED <<unchangedByTimer, timers, client_sync_lock>>

RestartTimer(t) ==
    /\ tpc[t] = "create"
    /\ CreateTimer(index[t], [tpc EXCEPT ![t] = "start"])
    /\ UNCHANGED <<frames, mainLocals, client_sync_lock>>

StartTimer(t) ==
    /\ tpc[t] = "start" /\ CanStart(index[t])
    /\ tpc' = [tpc EXCEPT ![t] = "unlock", ![timers[index[t]]] = Started(timers[index[t]])]
    /\ UNCHANGED <<unchangedByTimer, timers, client_sync_lock>>

\* timers[index] is None or started already: the exception ends the thread.
StartFails(t) ==
    /\ TimerGoto(t, "start", "finished") /\ ~ CanStart(index[t])
    /\ client_sync_lock' = None
    /\ UNCHANGED <<unchangedByTimer, timers>>

CallbackUnlock(t) ==
    /\ TimerGoto(t, "unlock", "finished")
    /\ client_sync_lock' = None
    /\ UNCHANGED <<unchangedByTimer, timers>>

TimerThread(t) ==
    \/ Fire(t) \/ CallbackLock(t) \/ TestSlot(t) \/ WriteLength(t) \/ WriteBody(t)
    \/ RestartTimer(t) \/ StartTimer(t) \/ StartFails(t) \/ CallbackUnlock(t)

\* main and all the Timers have ended, and so has the process.
Ended ==
    /\ mpc = "done" /\ \A t \in Timers : ~ is_alive(t)
    /\ UNCHANGED vars

Next == MainThread \/ (\E t \in Timers : TimerThread(t)) \/ Ended

Spec == Init /\ [][Next]_vars

-----------------------------------------------------------------------------
\* Slots, Timer objects and the places of their threads.
TypeOK ==
    /\ next_msg_char \in 0 .. MsgLen /\ acknowledged \in 0 .. next_msg_char
    /\ pbuffer \in [Slots -> 0 .. MsgLen]
    /\ timers \in [Slots -> Timers \cup {None}]
    /\ client_sync_lock \in Timers \cup {None, Main}
    /\ mpc \in MainLabels /\ phase \in {"send", "ack", "nack"}
    /\ ind \in Slots /\ ackno \in 0 .. MsgLen /\ nacks \in 0 .. MaxNacks
    /\ tpc \in [Timers -> TimerLabels]
    /\ index \in [Timers -> Slots]

\* t will send the frame of its slot again, or just has and sees to a new Timer.
Guards(t) == tpc[t] \in ({"waiting"} \cup InCallback) \ {"unlock"}

(***************************************************************************)
(* Whatever the threads do to each other's Timers, when main gets round to *)
(* its loop each frame that is not acknowledged has a Timer that runs.     *)
(***************************************************************************)
EveryFrameGuarded ==
    mpc \in {"turn", "poll"} =>
        \A s \in Slots : pbuffer[s] # None => \E t \in Timers : Guards(t) /\ index[t] = s

(***************************************************************************)
(* stop_timer never meets a slot without a Timer: its Error, a name that   *)
(* does not exist, is never raised.                                        *)
(***************************************************************************)
StopFindsTimer == mpc # "stop_failed"

(***************************************************************************)
(* Comment of callback_timeout: "Handle possible race condition silently". *)
(* A callback that races main for a slot of timers does not end main,      *)
(* which has the rest of the message to transfer.                          *)
(***************************************************************************)
RacesAreSilent == mpc # "start_failed"

(***************************************************************************)
(* "Acquire lock before writing to client socket": two threads are in the  *)
(* middle of a packet at once only when main is answering a NACK, for      *)
(* which it takes no lock.                                                 *)
(***************************************************************************)
OnlyNackAnswersMix ==
    /\ mpc = "body" /\ (\E t \in Timers : tpc[t] = "body") => phase = "nack"
    /\ \A t, u \in Timers : tpc[t] = "body" /\ tpc[u] = "body" => t = u
=============================================================================
