--------------------------- MODULE SrTimersProofs ---------------------------
(***************************************************************************)
(* Theorems about SrTimers, for every number of slots, every message, and  *)
(* any number of NACKs and of Timer objects.                               *)
(***************************************************************************)
EXTENDS SrTimers, TLAPS

\* Two numbers less than m apart that agree modulo m are equal.
LEMMA ModUnique ==
    ASSUME NEW m \in Nat, m > 0, NEW a \in Nat, NEW b \in Nat,
           a % m = b % m, a - b < m, b - a < m
    PROVE  a = b
<1>1. PICK q \in Int, p \in Int, r \in 0 .. m - 1 : a = m * q + r /\ b = m * p + r
  <2>1. a = m * (a \div m) + (a % m) /\ b = m * (b \div m) + (b % m)
    OBVIOUS
  <2>2. a \div m \in Int /\ b \div m \in Int /\ a % m \in 0 .. m - 1
    OBVIOUS
  <2> QED
    BY <2>1, <2>2, Zenon
<1>2. m * q - m * p = m * (q - p)
  BY <1>1
<1>3. ~ (q - p >= 1) /\ ~ (q - p <= -1)
  <2>1. ASSUME NEW d \in Int, d >= 1 PROVE m * d >= m
    BY <2>1
  <2>2. ASSUME NEW d \in Int, d <= -1 PROVE m * d <= -m
    BY <2>2
  <2> QED
    BY <2>1, <2>2, <1>1, <1>2
<1> QED
  BY <1>1, <1>3

-----------------------------------------------------------------------------
(***************************************************************************)
(* The inductive invariant.                                                *)
(***************************************************************************)

\* The part of callback_timeout inside its with statement.
Critical == {"test", "length", "body", "create", "start", "unlock"}

(***************************************************************************)
(* A Timer inside the with statement holds the lock, and so does main      *)
(* while it writes a new frame.                                            *)
(***************************************************************************)
LockOK ==
    /\ \A t \in Timers : tpc[t] \in Critical => client_sync_lock = t
    /\ mpc \in {"length", "body"} /\ phase = "send" => client_sync_lock = Main

\* What main can be busy with at each place.
PhaseOK ==
    /\ mpc = "lock" => phase = "send"
    /\ mpc \in {"length", "body", "create", "start"} => phase \in {"send", "nack"}
    /\ mpc = "purge" => phase = "ack"
    /\ mpc \in {"stop", "cancel", "forget"} => phase \in {"ack", "nack"}

\* The first frame outstanding has left its slot and is still counted.
Purged == phase = "ack" /\ mpc \in {"stop", "cancel", "forget"}

(***************************************************************************)
(* Each frame outstanding is in its slot, and an ACK is worked off from    *)
(* the first of them on.                                                   *)
(***************************************************************************)
WindowOK ==
    /\ next_msg_char - acknowledged <= SRP_WINDOW_SIZE
    /\ \A i \in acknowledged + 1 .. next_msg_char :
           pbuffer[SlotFor(i)] = i \/ (i = acknowledged + 1 /\ Purged)
    /\ mpc = "purge" \/ Purged =>
           ackno \in acknowledged + 1 .. next_msg_char /\ ind = SlotFor(acknowledged + 1)
    /\ Purged => pbuffer[ind] = None

\* main is about to give slot s another Timer, or gave up doing so.
Working(s) ==
    ind = s /\ mpc \in {"forget", "lock", "length", "body", "create", "start", "start_failed"}

\* The Timer of slot s will send its frame again, or a callback is about to start it.
Armed(s) ==
    /\ timers[s] # None
    /\ \/ tpc[timers[s]] \in {"waiting", "lock", "test", "length", "body", "create"}
       \/ tpc[timers[s]] = "created" /\ \E u \in Timers : tpc[u] = "start" /\ index[u] = s

(***************************************************************************)
(* The Timer of a slot was made for it, only main's cancel disarms one     *)
(* that it is about to forget, and each frame in a slot main does not work *)
(* on has a Timer to send it again.                                        *)
(***************************************************************************)
TimersOK ==
    /\ \A s \in Slots : timers[s] # None => index[timers[s]] = s
    /\ \A s \in Slots :
           timers[s] # None /\ tpc[timers[s]] = "disarmed" => mpc = "forget" /\ ind = s
    /\ \A s \in Slots : pbuffer[s] # None /\ ~ Working(s) => Armed(s)
    /\ mpc \in {"stop", "cancel"} => timers[ind] # None
    /\ mpc # "stop_failed"

IInv == TypeOK /\ LockOK /\ PhaseOK /\ WindowOK /\ TimersOK

-----------------------------------------------------------------------------
(***************************************************************************)
(* Slots and Timer objects.                                                *)
(***************************************************************************)

\* Every frame has a slot, frames less than a window apart have different ones.
LEMMA SlotFacts ==
    /\ \A i \in Nat \ {0} : SlotFor(i) \in Slots
    /\ \A i, j \in Nat \ {0} :
           SlotFor(i) = SlotFor(j) /\ i - j < SRP_WINDOW_SIZE /\ j - i < SRP_WINDOW_SIZE => i = j
    /\ 0 \in Slots
<1>1. SRP_WINDOW_SIZE \in Nat /\ SRP_WINDOW_SIZE > 0
  BY SrTimersAssumption
<1>2. ASSUME NEW i \in Nat \ {0} PROVE SlotFor(i) \in Slots
  <2>1. i - 1 \in Nat
    OBVIOUS
  <2> QED
    BY <1>1, <2>1 DEF SlotFor, Slots
<1>3. ASSUME NEW i \in Nat \ {0}, NEW j \in Nat \ {0}, SlotFor(i) = SlotFor(j),
             i - j < SRP_WINDOW_SIZE, j - i < SRP_WINDOW_SIZE
      PROVE  i = j
  <2>1. /\ i - 1 \in Nat /\ j - 1 \in Nat
        /\ (i - 1) - (j - 1) < SRP_WINDOW_SIZE /\ (j - 1) - (i - 1) < SRP_WINDOW_SIZE
    BY <1>1, <1>3
  <2>2. (i - 1) % SRP_WINDOW_SIZE = (j - 1) % SRP_WINDOW_SIZE
    BY <1>3 DEF SlotFor
  <2>3. i - 1 = j - 1
    BY <1>1, <2>1, <2>2, ModUnique
  <2> QED
    BY <2>3
<1>4. 0 \in Slots
  BY <1>1 DEF Slots
<1> QED
  BY <1>2, <1>3, <1>4

\* Timer objects are neither None nor main, and a new one is no slot's.
LEMMA TimerFacts ==
    /\ \A t \in Timers : t # None /\ t # Main
    /\ None # Main /\ None \notin Timers
    /\ \A t \in NewTimers :
           /\ t \in Timers /\ tpc[t] \in {"created", "disarmed", "finished"}
           /\ \A s \in Slots : timers[s] # t
<1>1. MaxTimers \in Nat
  BY SrTimersAssumption
<1> QED
  BY <1>1 DEF Timers, None, Main, NewTimers, Garbage

\* What a Timer can come to be by start and by cancel.
LEMMA TimerOps ==
    \A t : /\ Started(t) \in {"waiting", "finished"}
           /\ tpc[t] = "created" => Started(t) = "waiting"
           /\ tpc[t] = "disarmed" => Started(t) = "finished"
           /\ Cancelled(t) \in {"finished", "disarmed", tpc[t]}
           /\ tpc[t] = "disarmed" => Cancelled(t) = "disarmed"
  BY DEF Started, Cancelled

-----------------------------------------------------------------------------
(***************************************************************************)
(* Types.                                                                  *)
(***************************************************************************)
LEMMA InitInv == Init => IInv
<1> SUFFICES ASSUME Init PROVE IInv
  OBVIOUS
<1>1. /\ MsgLen \in Nat /\ MaxNacks \in Nat /\ 0 \in 0 .. MsgLen /\ 0 \in 0 .. 0
      /\ 0 \in 0 .. MaxNacks /\ 0 \in Slots /\ SRP_WINDOW_SIZE >= 1
      /\ SRP_WINDOW_SIZE \in Nat
  BY SrTimersAssumption, SlotFacts
<1>2. TypeOK
  BY <1>1 DEF Init, TypeOK, MainLabels, TimerLabels, None
<1>3. LockOK
  BY DEF Init, LockOK, Critical
<1>4. PhaseOK
  BY DEF Init, PhaseOK
<1>5. WindowOK
  <2>1. \A i \in 0 + 1 .. 0 : FALSE
    OBVIOUS
  <2> QED
    BY <1>1, <2>1 DEF Init, WindowOK, Purged
<1>6. TimersOK
  BY DEF Init, TimersOK, None
<1> QED
  BY <1>2, <1>3, <1>4, <1>5, <1>6 DEF IInv

\* A new Timer object, made by a thread whose step is next, fits the types.
LEMMA CreateTyped ==
    ASSUME TypeOK, NEW s \in Slots, NEW n \in [Timers -> TimerLabels], CreateTimer(s, n)
    PROVE  /\ timers' \in [Slots -> Timers \cup {None}]
           /\ tpc' \in [Timers -> TimerLabels] /\ index' \in [Timers -> Slots]
<1>1. PICK t \in NewTimers : /\ timers' = [timers EXCEPT ![s] = t]
                             /\ tpc' = [n EXCEPT ![t] = "created"]
                             /\ index' = [index EXCEPT ![t] = s]
  BY Zenon DEF CreateTimer
<1>2. t \in Timers /\ "created" \in TimerLabels
  BY TimerFacts DEF TimerLabels
<1> QED
  BY <1>1, <1>2 DEF TypeOK

\* The steps of main keep the types.
LEMMA MainTyped == IInv /\ MainThread => TypeOK'
<1> SUFFICES ASSUME TypeOK, PhaseOK, WindowOK, MainThread PROVE TypeOK'
  BY DEF IInv
<1> USE DEF TypeOK
<1>0. MsgLen \in Nat /\ MaxNacks \in Nat /\ SRP_WINDOW_SIZE \in Nat
  BY SrTimersAssumption
<1>1. mpc' \in MainLabels
  BY DEF MainThread, MainGoto, NewFrame, NoNewFrame, MainLock, MainWriteLength, MainWriteBody,
         MainCreateTimer, MainStartTimer, MainStartFails, NoReply, ReceiveAck, ReceiveNack,
         Purge, StopTimer, CancelTimer, ForgetTimerOfNack, ForgetTimerOfAck, EndOfTurn,
         MainLabels
<1>2. CASE NewFrame
  <2> DEFINE i == next_msg_char + 1
  <2>1. i \in 0 .. MsgLen /\ i \in Nat \ {0} /\ acknowledged \in 0 .. i
    BY <1>0, <1>2 DEF NewFrame, MaySend
  <2>2. SlotFor(i) \in Slots
    BY <2>1, SlotFacts
  <2>3. next_msg_char' = i /\ pbuffer' = [pbuffer EXCEPT ![SlotFor(i)] = i] /\ ind' = SlotFor(i)
    BY <1>2 DEF NewFrame
  <2> HIDE DEF i
  <2> QED
    BY <1>1, <1>2, <2>1, <2>2, <2>3 DEF NewFrame, timerState
<1>3. CASE NoNewFrame \/ MainWriteLength \/ MainStartFails \/ NoReply \/ StopTimer
  BY <1>1, <1>3 DEF NoNewFrame, MainWriteLength, MainStartFails, NoReply, StopTimer,
                    frames, timerState
<1>4. CASE MainLock \/ MainWriteBody
  BY <1>1, <1>4 DEF MainLock, MainWriteBody, frames, timerState
<1>5. CASE MainCreateTimer
  BY <1>1, <1>5, CreateTyped DEF MainCreateTimer, frames
<1>6. CASE MainStartTimer
  <2>1. Started(timers[ind]) \in TimerLabels
    BY TimerOps DEF TimerLabels
  <2> QED
    BY <1>1, <1>6, <2>1 DEF MainStartTimer, frames
<1>7. ASSUME NEW k \in 1 .. MsgLen, ReceiveAck(k) PROVE TypeOK'
  <2>1. acknowledged + 1 \in Nat \ {0} /\ k \in 0 .. MsgLen
    BY <1>0
  <2>2. SlotFor(acknowledged + 1) \in Slots
    BY <2>1, SlotFacts
  <2> QED
    BY <1>1, <1>7, <2>1, <2>2 DEF ReceiveAck, frames, timerState
<1>8. ASSUME NEW i \in 1 .. MsgLen, ReceiveNack(i) PROVE TypeOK'
  <2>1. i \in Nat \ {0} /\ nacks + 1 \in Nat
    BY <1>0
  <2>2. SlotFor(i) \in Slots
    BY <2>1, SlotFacts
  <2>3. nacks' \in 0 .. MaxNacks
    BY <1>0, <1>8, <2>1 DEF ReceiveNack
  <2> QED
    BY <1>1, <1>8, <2>2, <2>3 DEF ReceiveNack, frames, timerState
<1>9. CASE Purge
  <2>1. 0 \in 0 .. MsgLen
    BY <1>0
  <2> QED
    BY <1>1, <1>9, <2>1 DEF Purge, timerState, None
<1>10. CASE CancelTimer
  <2>1. timers[ind] \in Timers => Cancelled(timers[ind]) \in TimerLabels
    BY TimerOps DEF TimerLabels
  <2> QED
    BY <1>1, <1>10, <2>1 DEF CancelTimer, frames
<1>11. CASE ForgetTimerOfNack
  BY <1>1, <1>11 DEF ForgetTimerOfNack, frames, timerState
<1>12. CASE ForgetTimerOfAck
  <2>1. phase = "ack" /\ mpc = "forget"
    BY <1>12 DEF ForgetTimerOfAck, MainGoto
  <2>2. ackno \in acknowledged + 1 .. next_msg_char
    BY <2>1 DEF WindowOK, Purged
  <2>3. acknowledged + 1 \in 0 .. next_msg_char /\ acknowledged + 2 \in Nat \ {0}
    BY <1>0, <2>2
  <2>4. SlotFor(acknowledged + 2) \in Slots
    BY <2>3, SlotFacts
  <2> QED
    BY <1>1, <1>12, <2>3, <2>4 DEF ForgetTimerOfAck, timerState
<1> QED
  BY <1>2, <1>3, <1>4, <1>5, <1>6, <1>7, <1>8, <1>9, <1>10, <1>11, <1>12 DEF MainThread

\* The steps of a Timer keep them.
LEMMA TimerTyped == \A t \in Timers : TypeOK /\ TimerThread(t) => TypeOK'
<1> SUFFICES ASSUME NEW t \in Timers, TypeOK, TimerThread(t) PROVE TypeOK'
  OBVIOUS
<1> USE DEF TypeOK
<1>1. CASE Fire(t) \/ CallbackLock(t) \/ TestSlot(t) \/ WriteLength(t) \/ WriteBody(t)
           \/ StartFails(t) \/ CallbackUnlock(t)
  BY <1>1 DEF Fire, CallbackLock, TestSlot, WriteLength, WriteBody, StartFails, CallbackUnlock,
              TimerGoto, unchangedByTimer, frames, mainLocals, TimerLabels, InCallback
<1>2. CASE RestartTimer(t)
  <2>1. /\ [tpc EXCEPT ![t] = "start"] \in [Timers -> TimerLabels] /\ index[t] \in Slots
        /\ CreateTimer(index[t], [tpc EXCEPT ![t] = "start"])
        /\ UNCHANGED <<frames, mainLocals, client_sync_lock>>
    BY <1>2 DEF RestartTimer, TimerLabels, InCallback
  <2>2. /\ timers' \in [Slots -> Timers \cup {None}]
        /\ tpc' \in [Timers -> TimerLabels] /\ index' \in [Timers -> Slots]
    BY <2>1, CreateTyped, Zenon
  <2> QED
    BY <2>1, <2>2 DEF frames, mainLocals
<1>3. CASE StartTimer(t)
  <2>1. Started(timers[index[t]]) \in TimerLabels /\ "unlock" \in TimerLabels
    BY TimerOps DEF TimerLabels, InCallback
  <2> QED
    BY <1>3, <2>1 DEF StartTimer, unchangedByTimer, frames, mainLocals
<1> QED
  BY <1>1, <1>2, <1>3 DEF TimerThread

-----------------------------------------------------------------------------
(***************************************************************************)
(* The lock.                                                               *)
(***************************************************************************)

\* A new Timer object is in no callback, and its maker keeps its place.
LEMMA CreateOutside ==
    ASSUME TypeOK, NEW s \in Slots, NEW n \in [Timers -> TimerLabels], CreateTimer(s, n)
    PROVE  \A v \in Timers : tpc'[v] \in Critical => n[v] \in Critical
<1>1. PICK t \in NewTimers : tpc' = [n EXCEPT ![t] = "created"]
  BY Zenon DEF CreateTimer
<1> QED
  BY <1>1 DEF Critical

\* main is in the middle of a new frame only with the lock.
LEMMA MainLockStep == IInv /\ MainThread => LockOK'
<1> SUFFICES ASSUME TypeOK, LockOK, PhaseOK, MainThread PROVE LockOK'
  BY DEF IInv
<1> USE DEF TypeOK, LockOK
<1>1. CASE NewFrame \/ NoNewFrame \/ MainWriteLength \/ MainStartFails \/ NoReply \/ Purge
           \/ StopTimer \/ ForgetTimerOfNack \/ ForgetTimerOfAck
           \/ \E i \in 1 .. MsgLen : ReceiveAck(i) \/ ReceiveNack(i)
  <2>1. UNCHANGED <<client_sync_lock, tpc>>
    BY <1>1 DEF NewFrame, NoNewFrame, MainWriteLength, MainStartFails, NoReply, Purge,
         StopTimer, ForgetTimerOfNack, ForgetTimerOfAck, ReceiveAck, ReceiveNack, timerState
  <2>2. mpc' \in {"length", "body"} /\ phase' = "send"
            => mpc \in {"length", "body"} /\ phase = "send"
    BY <1>1 DEF NewFrame, NoNewFrame, MainWriteLength, MainStartFails, NoReply, Purge,
         StopTimer, ForgetTimerOfNack, ForgetTimerOfAck, ReceiveAck, ReceiveNack, MainGoto,
         EndOfTurn
  <2> QED
    BY <2>1, <2>2
<1>2. CASE MainLock
  BY <1>2, TimerFacts DEF MainLock, MainGoto, timerState
<1>3. CASE MainWriteBody
  BY <1>3, TimerFacts DEF MainWriteBody, MainGoto, timerState
<1>4. CASE MainCreateTimer
  <2>1. \A v \in Timers : tpc'[v] \in Critical => tpc[v] \in Critical
    BY <1>4, CreateOutside DEF MainCreateTimer
  <2> QED
    BY <1>4, <2>1 DEF MainCreateTimer, MainGoto
<1>5. CASE MainStartTimer
  <2>1. Started(timers[ind]) \notin Critical
    BY TimerOps DEF Critical
  <2>2. \A v \in Timers : tpc'[v] \in Critical => tpc[v] \in Critical
    BY <1>5, <2>1 DEF MainStartTimer
  <2> QED
    BY <1>5, <2>2 DEF MainStartTimer, MainGoto, EndOfTurn
<1>6. CASE CancelTimer
  <2>1. Cancelled(timers[ind]) \in Critical => tpc[timers[ind]] \in Critical
    BY TimerOps DEF Critical
  <2>2. \A v \in Timers : tpc'[v] \in Critical => tpc[v] \in Critical
    BY <1>6, <2>1 DEF CancelTimer
  <2> QED
    BY <1>6, <2>2 DEF CancelTimer, MainGoto
<1> QED
  BY <1>1, <1>2, <1>3, <1>4, <1>5, <1>6 DEF MainThread

\* So is a Timer inside its with statement.
LEMMA TimerLockStep == \A t \in Timers : IInv /\ TimerThread(t) => LockOK'
<1> SUFFICES ASSUME NEW t \in Timers, TypeOK, LockOK, TimerThread(t) PROVE LockOK'
  BY DEF IInv
<1> USE DEF TypeOK, LockOK
<1>0. mpc' = mpc /\ phase' = phase
  BY DEF TimerThread, Fire, CallbackLock, TestSlot, WriteLength, WriteBody, RestartTimer,
         StartTimer, StartFails, CallbackUnlock, unchangedByTimer, mainLocals
<1>1. CASE Fire(t) \/ TestSlot(t) \/ WriteLength(t) \/ WriteBody(t)
  <2>1. client_sync_lock' = client_sync_lock
    BY <1>1 DEF Fire, TestSlot, WriteLength, WriteBody
  <2>2. \A v \in Timers : tpc'[v] \in Critical => tpc[v] \in Critical
    BY <1>1 DEF Fire, TestSlot, WriteLength, WriteBody, TimerGoto, Critical
  <2> QED
    BY <1>0, <2>1, <2>2
<1>2. CASE CallbackLock(t)
  BY <1>0, <1>2, TimerFacts DEF CallbackLock, TimerGoto, Critical
<1>3. CASE RestartTimer(t)
  <2>1. /\ [tpc EXCEPT ![t] = "start"] \in [Timers -> TimerLabels] /\ index[t] \in Slots
        /\ CreateTimer(index[t], [tpc EXCEPT ![t] = "start"])
        /\ client_sync_lock' = client_sync_lock /\ tpc[t] \in Critical
    BY <1>3 DEF RestartTimer, TimerLabels, InCallback, Critical
  <2>2. \A v \in Timers :
            tpc'[v] \in Critical => [tpc EXCEPT ![t] = "start"][v] \in Critical
    BY <2>1, CreateOutside, Zenon
  <2>3. \A v \in Timers : tpc'[v] \in Critical => tpc[v] \in Critical
    BY <2>1, <2>2
  <2> QED
    BY <1>0, <2>1, <2>3
<1>4. CASE StartTimer(t)
  <2>1. Started(timers[index[t]]) \notin Critical
    BY TimerOps DEF Critical
  <2>2. \A v \in Timers : tpc'[v] \in Critical => tpc[v] \in Critical
    BY <1>4, <2>1 DEF StartTimer, Critical
  <2> QED
    BY <1>0, <1>4, <2>2 DEF StartTimer
<1>5. CASE StartFails(t) \/ CallbackUnlock(t)
  <2>1. /\ tpc[t] \in Critical /\ tpc' = [tpc EXCEPT ![t] = "finished"]
        /\ client_sync_lock' = None
    BY <1>5 DEF StartFails, CallbackUnlock, TimerGoto, Critical
  <2>2. client_sync_lock = t
    BY <2>1
  <2>3. \A v \in Timers : tpc'[v] \notin Critical
    BY <2>1, <2>2 DEF Critical
  <2> QED
    BY <1>0, <2>2, <2>3, TimerFacts
<1> QED
  BY <1>1, <1>2, <1>3, <1>4, <1>5 DEF TimerThread

-----------------------------------------------------------------------------
(***************************************************************************)
(* The places of main, and the window.                                     *)
(***************************************************************************)
LEMMA PhaseStep == IInv /\ MainThread => PhaseOK'
<1> SUFFICES ASSUME TypeOK, PhaseOK, MainThread PROVE PhaseOK'
  BY DEF IInv
<1> USE DEF PhaseOK, TypeOK
<1>1. CASE NewFrame \/ NoNewFrame \/ MainLock \/ MainWriteLength \/ MainWriteBody
           \/ MainCreateTimer \/ MainStartTimer \/ MainStartFails \/ NoReply
  BY <1>1 DEF MainGoto, NewFrame, NoNewFrame, MainLock, MainWriteLength, MainWriteBody,
         MainCreateTimer, MainStartTimer, MainStartFails, NoReply, EndOfTurn
<1>2. CASE \E i \in 1 .. MsgLen : ReceiveAck(i) \/ ReceiveNack(i)
  BY <1>2 DEF MainGoto, ReceiveAck, ReceiveNack
<1>3. CASE Purge \/ StopTimer \/ CancelTimer \/ ForgetTimerOfNack \/ ForgetTimerOfAck
  BY <1>3 DEF MainGoto, Purge, StopTimer, CancelTimer, ForgetTimerOfNack, ForgetTimerOfAck,
         EndOfTurn
<1> QED
  BY <1>1, <1>2, <1>3 DEF MainThread

\* Every frame outstanding stays in its slot.
LEMMA WindowStep == IInv /\ MainThread => WindowOK'
<1> SUFFICES ASSUME TypeOK, PhaseOK, WindowOK, TimersOK, MainThread PROVE WindowOK'
  BY DEF IInv
<1> USE DEF TypeOK
<1>0. /\ MsgLen \in Nat /\ SRP_WINDOW_SIZE \in Nat /\ SRP_WINDOW_SIZE >= 1
      /\ acknowledged \in Nat /\ next_msg_char \in Nat
  BY SrTimersAssumption
<1>1. CASE NoNewFrame \/ MainLock \/ MainWriteLength \/ MainWriteBody \/ MainCreateTimer
           \/ MainStartTimer \/ MainStartFails \/ NoReply
  <2>1. UNCHANGED frames /\ ~ Purged /\ ~ Purged' /\ mpc' # "purge"
    BY <1>1 DEF NoNewFrame, MainLock, MainWriteLength, MainWriteBody, MainCreateTimer,
         MainStartTimer, MainStartFails, NoReply, MainGoto, EndOfTurn, Purged
  <2> QED
    BY <2>1 DEF WindowOK, frames
<1>2. CASE StopTimer \/ CancelTimer
  <2>1. UNCHANGED <<frames, ind, ackno, phase>>
    BY <1>2 DEF StopTimer, CancelTimer
  <2>2. mpc' # "purge" /\ (Purged' <=> Purged)
    BY <1>2 DEF StopTimer, CancelTimer, MainGoto, Purged, TimersOK
  <2> QED
    BY <2>1, <2>2 DEF WindowOK, frames
<1>3. CASE NewFrame
  <2> DEFINE i == next_msg_char + 1
  <2>1. /\ next_msg_char' = i /\ acknowledged' = acknowledged
        /\ pbuffer' = [pbuffer EXCEPT ![SlotFor(i)] = i]
        /\ ~ Purged /\ ~ Purged' /\ mpc' # "purge" /\ MaySend
    BY <1>3 DEF NewFrame, MainGoto, Purged
  <2>2. i \in Nat \ {0} /\ i - acknowledged <= SRP_WINDOW_SIZE
    BY <1>0, <2>1 DEF MaySend
  <2>3. SlotFor(i) \in Slots /\ pbuffer'[SlotFor(i)] = i
    BY <2>1, <2>2, SlotFacts, Zenon
  <2>4. ASSUME NEW j \in acknowledged + 1 .. next_msg_char PROVE pbuffer'[SlotFor(j)] = j
    <3>1. /\ j \in Nat \ {0} /\ j # i /\ i - j < SRP_WINDOW_SIZE /\ j - i < SRP_WINDOW_SIZE
      BY <1>0, <2>2
    <3>2. SlotFor(j) \in Slots /\ SlotFor(j) # SlotFor(i)
      BY <3>1, <2>2, SlotFacts
    <3>3. pbuffer[SlotFor(j)] = j
      BY <2>1 DEF WindowOK
    <3> QED
      BY <3>2, <3>3, <2>1, <2>3
  <2>5. \A j \in acknowledged + 1 .. i : j = i \/ j \in acknowledged + 1 .. next_msg_char
    BY <1>0
  <2> HIDE DEF i
  <2> QED
    BY <2>1, <2>2, <2>3, <2>4, <2>5 DEF WindowOK
<1>4. ASSUME NEW k \in 1 .. MsgLen, ReceiveAck(k) \/ ReceiveNack(k) PROVE WindowOK'
  <2>1. UNCHANGED frames /\ ~ Purged /\ ~ Purged'
    BY <1>4 DEF ReceiveAck, ReceiveNack, MainGoto, Purged
  <2>2. mpc' = "purge" =>
            /\ ackno' \in acknowledged + 1 .. next_msg_char
            /\ ind' = SlotFor(acknowledged + 1)
    BY <1>4 DEF ReceiveAck, ReceiveNack, MainGoto
  <2> QED
    BY <2>1, <2>2 DEF WindowOK, frames
<1>5. CASE Purge
  <2>1. /\ UNCHANGED <<next_msg_char, acknowledged, ind, ackno, phase>>
        /\ pbuffer' = [pbuffer EXCEPT ![ind] = None]
        /\ mpc = "purge" /\ mpc' = "stop" /\ phase = "ack"
    BY <1>5 DEF Purge, MainGoto, PhaseOK
  <2>2. ~ Purged /\ Purged' /\ mpc' # "purge"
    BY <2>1 DEF Purged
  <2>3. ackno \in acknowledged + 1 .. next_msg_char /\ ind = SlotFor(acknowledged + 1)
    BY <2>1 DEF WindowOK
  <2>4. ASSUME NEW j \in acknowledged + 1 .. next_msg_char, j # acknowledged + 1
        PROVE  pbuffer'[SlotFor(j)] = j
    <3>0. next_msg_char - acknowledged <= SRP_WINDOW_SIZE
      BY DEF WindowOK
    <3>1. /\ j \in Nat \ {0} /\ acknowledged + 1 \in Nat \ {0}
          /\ j - (acknowledged + 1) < SRP_WINDOW_SIZE /\ (acknowledged + 1) - j < SRP_WINDOW_SIZE
      BY <1>0, <2>4, <3>0
    <3>2. SlotFor(j) \in Slots /\ SlotFor(j) # SlotFor(acknowledged + 1)
      BY <3>1, <2>4, SlotFacts
    <3>3. pbuffer[SlotFor(j)] = j
      BY <2>2 DEF WindowOK
    <3> QED
      BY <3>2, <3>3, <2>1, <2>3
  <2>5. pbuffer'[ind'] = None
    BY <2>1
  <2> QED
    BY <2>1, <2>2, <2>3, <2>4, <2>5 DEF WindowOK
<1>6. CASE ForgetTimerOfNack
  <2>1. UNCHANGED frames /\ ~ Purged /\ ~ Purged' /\ mpc' # "purge"
    BY <1>6 DEF ForgetTimerOfNack, MainGoto, Purged
  <2> QED
    BY <2>1 DEF WindowOK, frames
<1>7. CASE ForgetTimerOfAck
  <2>1. /\ UNCHANGED <<next_msg_char, pbuffer, ackno>>
        /\ acknowledged' = acknowledged + 1 /\ ind' = SlotFor(acknowledged + 2)
        /\ Purged /\ ~ Purged'
        /\ mpc' = "purge" => acknowledged + 1 < ackno
    BY <1>7 DEF ForgetTimerOfAck, MainGoto, EndOfTurn, Purged
  <2>2. ackno \in acknowledged + 1 .. next_msg_char
    BY <2>1 DEF WindowOK
  <2>3. next_msg_char - (acknowledged + 1) <= SRP_WINDOW_SIZE
    BY <1>0 DEF WindowOK
  <2>4. \A j \in (acknowledged + 1) + 1 .. next_msg_char :
            j \in acknowledged + 1 .. next_msg_char /\ j # acknowledged + 1
    BY <1>0
  <2>5. \A j \in (acknowledged + 1) + 1 .. next_msg_char : pbuffer[SlotFor(j)] = j
    BY <2>4 DEF WindowOK
  <2>6. mpc' = "purge" => ackno \in (acknowledged + 1) + 1 .. next_msg_char
    BY <1>0, <2>1, <2>2
  <2>7. SlotFor(acknowledged + 2) = SlotFor((acknowledged + 1) + 1)
    BY <1>0
  <2> QED
    BY <2>1, <2>3, <2>5, <2>6, <2>7 DEF WindowOK
<1> QED
  BY <1>1, <1>2, <1>3, <1>4, <1>5, <1>6, <1>7 DEF MainThread

-----------------------------------------------------------------------------
(***************************************************************************)
(* The Timers of the slots.                                                *)
(***************************************************************************)

\* What a new Timer object changes.
LEMMA CreateEffect ==
    ASSUME TypeOK, NEW s \in Slots, NEW n \in [Timers -> TimerLabels], CreateTimer(s, n)
    PROVE  \E c \in Timers :
               /\ tpc[c] \in {"created", "disarmed", "finished"}
               /\ \A r \in Slots : timers[r] # c
               /\ timers'[s] = c /\ tpc'[c] = "created" /\ index'[c] = s
               /\ \A r \in Slots : r # s => timers'[r] = timers[r]
               /\ \A v \in Timers : v # c => tpc'[v] = n[v] /\ index'[v] = index[v]
<1>1. PICK c \in NewTimers : /\ timers' = [timers EXCEPT ![s] = c]
                             /\ tpc' = [n EXCEPT ![c] = "created"]
                             /\ index' = [index EXCEPT ![c] = s]
  BY Zenon DEF CreateTimer
<1>2. /\ c \in Timers /\ tpc[c] \in {"created", "disarmed", "finished"}
      /\ \A r \in Slots : timers[r] # c
  BY TimerFacts
<1> QED
  BY <1>1, <1>2 DEF TypeOK

(***************************************************************************)
(* A step that leaves the Timer of slot s where it is, the places of the   *)
(* callbacks about to start one, and what the objects are made for, leaves *)
(* s armed.                                                                *)
(***************************************************************************)
LEMMA ArmedKept ==
    ASSUME NEW s \in Slots, Armed(s), TypeOK,
           timers'[s] = timers[s], tpc'[timers[s]] = tpc[timers[s]],
           \A u \in Timers : tpc[u] = "start" /\ index[u] = s =>
               tpc'[u] = "start" /\ index'[u] = s
    PROVE  Armed(s)'
  BY DEF Armed

\* main's steps between its turns, its replies and its visits to a Timer.
LEMMA MainTimersElsewhere ==
    ASSUME IInv,
           NewFrame \/ NoNewFrame \/ MainLock \/ MainWriteLength \/ MainWriteBody
           \/ MainStartFails \/ NoReply \/ Purge
           \/ StopTimer \/ \E i \in 1 .. MsgLen : ReceiveAck(i) \/ ReceiveNack(i)
    PROVE  TimersOK'
<1> USE DEF TypeOK
<1>0. TypeOK /\ PhaseOK /\ WindowOK /\ TimersOK
  BY DEF IInv
<1>1. UNCHANGED <<timers, tpc, index>>
  BY DEF NewFrame, NoNewFrame, MainLock, MainWriteLength, MainWriteBody, MainStartFails,
         NoReply, Purge, StopTimer, ReceiveAck, ReceiveNack, timerState
<1>2. mpc # "forget"
  BY DEF NewFrame, NoNewFrame, MainLock, MainWriteLength, MainWriteBody, MainStartFails,
         NoReply, Purge, StopTimer, ReceiveAck, ReceiveNack, MainGoto
<1>3. \A s \in Slots : timers[s] # None => index[timers[s]] = s /\ tpc[timers[s]] # "disarmed"
  BY <1>0, <1>2 DEF TimersOK
<1>4. \A s \in Slots : Armed(s) => Armed(s)'
  BY <1>1 DEF Armed
<1>5. ASSUME NEW s \in Slots, pbuffer'[s] # None, ~ Working(s)' PROVE Armed(s)'
  <2>1. CASE NewFrame
    <3>1. s # SlotFor(next_msg_char + 1)
      BY <1>5, <2>1 DEF NewFrame, MainGoto, Working
    <3>2. pbuffer[s] # None /\ ~ Working(s)
      BY <1>0, <1>5, <2>1, <3>1 DEF NewFrame, MainGoto, Working
    <3> QED
      BY <1>0, <1>4, <3>2 DEF TimersOK
  <2>2. CASE Purge
    <3>1. pbuffer[s] # None /\ ~ Working(s)
      BY <1>0, <1>5, <2>2 DEF Purge, MainGoto, Working
    <3> QED
      BY <1>0, <1>4, <3>1 DEF TimersOK
  <2>3. CASE NoNewFrame \/ MainLock \/ MainWriteLength \/ MainWriteBody \/ MainStartFails
             \/ NoReply \/ StopTimer \/ \E i \in 1 .. MsgLen : ReceiveAck(i) \/ ReceiveNack(i)
    <3>1. pbuffer' = pbuffer
      BY <2>3 DEF NoNewFrame, MainLock, MainWriteLength, MainWriteBody, MainStartFails,
         NoReply, StopTimer, ReceiveAck, ReceiveNack, frames
    <3>2. ~ Working(s)
      BY <1>5, <2>3 DEF NoNewFrame, MainLock, MainWriteLength, MainWriteBody, MainStartFails,
         NoReply, StopTimer, ReceiveAck, ReceiveNack, MainGoto, Working
    <3> QED
      BY <1>0, <1>4, <1>5, <3>1, <3>2 DEF TimersOK
  <2> QED
    BY <2>1, <2>2, <2>3
<1>6. ASSUME mpc' \in {"stop", "cancel"} PROVE timers'[ind'] # None
  <2>1. CASE StopTimer
    BY <1>0, <1>1, <2>1 DEF StopTimer, MainGoto, TimersOK
  <2>2. CASE Purge
    <3>1. mpc = "purge" /\ ind' = ind
      BY <2>2 DEF Purge, MainGoto
    <3>2. /\ acknowledged + 1 \in acknowledged + 1 .. next_msg_char
          /\ ind = SlotFor(acknowledged + 1) /\ ~ Purged
      BY <1>0, <3>1 DEF WindowOK, Purged
    <3>3. pbuffer[ind] = acknowledged + 1
      BY <1>0, <3>2 DEF WindowOK
    <3>4. pbuffer[ind] # None /\ ~ Working(ind)
      BY <1>0, <3>1, <3>3 DEF None, Working
    <3> QED
      BY <1>0, <1>1, <3>1, <3>4 DEF TimersOK, Armed
  <2>3. ASSUME NEW i \in 1 .. MsgLen, ReceiveNack(i) PROVE timers'[ind'] # None
    <3>1. mpc = "poll" /\ ind' = SlotFor(i) /\ pbuffer[SlotFor(i)] = i
      BY <2>3 DEF ReceiveNack, MainGoto
    <3>2. SlotFor(i) \in Slots /\ i # None
      BY SlotFacts DEF None
    <3>3. pbuffer[SlotFor(i)] # None /\ ~ Working(SlotFor(i))
      BY <3>1, <3>2 DEF Working
    <3> QED
      BY <1>0, <1>1, <3>1, <3>2, <3>3 DEF TimersOK, Armed
  <2>4. CASE NewFrame \/ NoNewFrame \/ MainLock \/ MainWriteLength \/ MainWriteBody
             \/ MainStartFails \/ NoReply \/ \E i \in 1 .. MsgLen : ReceiveAck(i)
    BY <1>6, <2>4 DEF NewFrame, NoNewFrame, MainLock, MainWriteLength, MainWriteBody,
         MainStartFails, NoReply, ReceiveAck, MainGoto, EndOfTurn
  <2> QED
    BY <2>1, <2>2, <2>3, <2>4
<1>7. mpc' # "stop_failed"
  BY <1>0 DEF NewFrame, NoNewFrame, MainLock, MainWriteLength, MainWriteBody, MainStartFails,
         NoReply, Purge, StopTimer, ReceiveAck, ReceiveNack, MainGoto, EndOfTurn, TimersOK
<1> QED
  BY <1>1, <1>3, <1>5, <1>6, <1>7 DEF TimersOK

\* main's own visits to the Timer of the slot it works on.
LEMMA MainTimersHere ==
    ASSUME IInv,
           MainCreateTimer \/ MainStartTimer \/ CancelTimer \/ ForgetTimerOfNack
           \/ ForgetTimerOfAck
    PROVE  TimersOK'
<1> USE DEF TypeOK
<1>0. TypeOK /\ PhaseOK /\ WindowOK /\ TimersOK
  BY DEF IInv
<1>1. CASE MainCreateTimer
  <2>1. /\ mpc = "create" /\ mpc' = "start" /\ CreateTimer(ind, tpc)
        /\ ind' = ind /\ pbuffer' = pbuffer
    BY <1>1 DEF MainCreateTimer, MainGoto, frames
  <2>2. PICK c \in Timers :
               /\ tpc[c] \in {"created", "disarmed", "finished"}
               /\ \A r \in Slots : timers[r] # c
               /\ timers'[ind] = c /\ tpc'[c] = "created" /\ index'[c] = ind
               /\ \A r \in Slots : r # ind => timers'[r] = timers[r]
               /\ \A v \in Timers : v # c => tpc'[v] = tpc[v] /\ index'[v] = index[v]
    BY <1>0, <2>1, CreateEffect
  <2>3. ASSUME NEW s \in Slots, timers'[s] # None
        PROVE  index'[timers'[s]] = s /\ tpc'[timers'[s]] # "disarmed"
    BY <1>0, <2>1, <2>2, <2>3 DEF TimersOK
  <2>4. ASSUME NEW s \in Slots, pbuffer'[s] # None, ~ Working(s)' PROVE Armed(s)'
    <3>1. s # ind /\ Armed(s)
      BY <1>0, <2>1, <2>4 DEF Working, TimersOK
    <3>2. /\ timers[s] \in Timers /\ timers'[s] = timers[s]
          /\ tpc'[timers[s]] = tpc[timers[s]]
      BY <1>0, <2>2, <3>1 DEF Armed
    <3>3. \A u \in Timers : tpc[u] = "start" /\ index[u] = s =>
              tpc'[u] = "start" /\ index'[u] = s
      BY <2>2
    <3> QED
      BY <1>0, <3>1, <3>2, <3>3, ArmedKept
  <2> QED
    BY <2>1, <2>3, <2>4 DEF TimersOK
<1>2. CASE MainStartTimer
  <2> DEFINE x == timers[ind]
  <2>1. /\ mpc = "start" /\ mpc' \in {"poll", "turn", "done"} /\ CanStart(ind)
        /\ tpc' = [tpc EXCEPT ![x] = Started(x)]
        /\ UNCHANGED <<ind, pbuffer, timers, index>>
    BY <1>2 DEF MainStartTimer, MainGoto, frames, EndOfTurn
  <2>2. x \in Timers /\ tpc[x] = "created" /\ index[x] = ind /\ x # None
    BY <1>0, <2>1 DEF CanStart, TimersOK
  <2>3. tpc'[x] = "waiting" /\ \A v \in Timers : v # x => tpc'[v] = tpc[v]
    BY <1>0, <2>1, <2>2, TimerOps
  <2>4. ASSUME NEW s \in Slots, timers'[s] # None
        PROVE  index'[timers'[s]] = s /\ tpc'[timers'[s]] # "disarmed"
    BY <1>0, <2>1, <2>2, <2>3, <2>4 DEF TimersOK
  <2>5. ASSUME NEW s \in Slots, pbuffer'[s] # None PROVE Armed(s)'
    <3>1. CASE s = ind
      BY <2>1, <2>2, <2>3, <3>1 DEF Armed
    <3>2. CASE s # ind
      <4>1. Armed(s)
        BY <1>0, <2>1, <2>5, <3>2 DEF Working, TimersOK
      <4>2. timers[s] \in Timers /\ timers[s] # x
        BY <1>0, <2>2, <3>2, <4>1 DEF Armed, TimersOK
      <4>3. \A u \in Timers : tpc[u] = "start" /\ index[u] = s =>
                tpc'[u] = "start" /\ index'[u] = s
        BY <2>1, <2>2, <2>3
      <4> QED
        BY <1>0, <2>1, <2>3, <4>1, <4>2, <4>3, ArmedKept
    <3> QED
      BY <3>1, <3>2
  <2> QED
    BY <2>1, <2>4, <2>5 DEF TimersOK
<1>3. CASE CancelTimer
  <2> DEFINE x == timers[ind]
  <2>1. /\ mpc = "cancel" /\ mpc' = "forget"
        /\ tpc' = [tpc EXCEPT ![x] = Cancelled(x)]
        /\ UNCHANGED <<ind, pbuffer, timers, index>>
    BY <1>3 DEF CancelTimer, MainGoto, frames
  <2>2. x \in Timers /\ index[x] = ind /\ x # None
    BY <1>0, <2>1 DEF TimersOK
  <2>3. \A v \in Timers : v # x => tpc'[v] = tpc[v]
    BY <1>0, <2>1, <2>2
  <2>4. tpc[x] = "start" => tpc'[x] = "start"
    BY <1>0, <2>1, <2>2 DEF Cancelled
  <2>5. ASSUME NEW s \in Slots, timers'[s] # None
        PROVE  index'[timers'[s]] = s /\ (tpc'[timers'[s]] = "disarmed" => s = ind)
    BY <1>0, <2>1, <2>2, <2>3, <2>5 DEF TimersOK
  <2>6. ASSUME NEW s \in Slots, pbuffer'[s] # None, ~ Working(s)' PROVE Armed(s)'
    <3>1. s # ind /\ Armed(s)
      BY <1>0, <2>1, <2>6 DEF Working, TimersOK
    <3>2. timers[s] \in Timers /\ timers[s] # x
      BY <1>0, <2>2, <3>1 DEF Armed, TimersOK
    <3>3. \A u \in Timers : tpc[u] = "start" /\ index[u] = s =>
              tpc'[u] = "start" /\ index'[u] = s
      BY <2>1, <2>3, <2>4
    <3> QED
      BY <1>0, <2>1, <2>3, <3>1, <3>2, <3>3, ArmedKept
  <2> QED
    BY <2>1, <2>5, <2>6 DEF TimersOK
<1>4. CASE ForgetTimerOfNack \/ ForgetTimerOfAck
  <2>1. /\ mpc = "forget" /\ mpc' \in {"length", "purge", "turn", "done"}
        /\ timers' = [timers EXCEPT ![ind] = None]
        /\ UNCHANGED <<pbuffer, tpc, index>>
        /\ \/ mpc' = "length" /\ ind' = ind
           \/ phase = "ack"
    BY <1>4 DEF ForgetTimerOfNack, ForgetTimerOfAck, MainGoto, EndOfTurn, frames, timerState
  <2>2. ASSUME NEW s \in Slots, timers'[s] # None
        PROVE  s # ind /\ index'[timers'[s]] = s /\ tpc'[timers'[s]] # "disarmed"
    BY <1>0, <2>1, <2>2 DEF TimersOK
  <2>3. ASSUME NEW s \in Slots, pbuffer'[s] # None, ~ Working(s)' PROVE Armed(s)'
    <3>1. s # ind
      <4>1. CASE mpc' = "length" /\ ind' = ind
        BY <2>3, <4>1 DEF Working
      <4>2. CASE phase = "ack"
        BY <1>0, <2>1, <2>3, <4>2 DEF WindowOK, Purged
      <4> QED
        BY <2>1, <4>1, <4>2
    <3>2. Armed(s)
      BY <1>0, <2>1, <2>3, <3>1 DEF Working, TimersOK
    <3> QED
      BY <1>0, <2>1, <3>1, <3>2, ArmedKept
  <2> QED
    BY <2>1, <2>2, <2>3 DEF TimersOK
<1> QED
  BY <1>1, <1>2, <1>3, <1>4

\* The steps of a Timer that leave the Timers of the slots as they are.
LEMMA TimerTimersElsewhere ==
    ASSUME IInv, NEW t \in Timers,
           Fire(t) \/ CallbackLock(t) \/ TestSlot(t) \/ WriteLength(t) \/ WriteBody(t)
           \/ StartFails(t) \/ CallbackUnlock(t)
    PROVE  TimersOK'
<1> USE DEF TypeOK
<1>0. TypeOK /\ TimersOK
  BY DEF IInv
<1>1. UNCHANGED <<timers, index, pbuffer, mpc, ind>>
  BY DEF Fire, CallbackLock, TestSlot, WriteLength, WriteBody, StartFails, CallbackUnlock,
         unchangedByTimer, frames, mainLocals
<1>2. /\ tpc'[t] \notin {"created", "disarmed"}
      /\ \A v \in Timers : v # t => tpc'[v] = tpc[v]
  BY <1>0 DEF Fire, CallbackLock, TestSlot, WriteLength, WriteBody, StartFails, CallbackUnlock,
         TimerGoto
<1>3. \A s \in Slots : timers[s] # None /\ tpc'[timers[s]] = "disarmed"
          => tpc[timers[s]] = "disarmed"
  BY <1>0, <1>2
<1>4. ASSUME NEW s \in Slots, pbuffer[s] # None, ~ Working(s) PROVE Armed(s)'
  <2>1. Armed(s) /\ timers[s] \in Timers /\ index[timers[s]] = s
    BY <1>0, <1>4 DEF TimersOK, Armed
  <2>2. CASE timers[s] = t
    <3>1. tpc'[t] \in {"waiting", "lock", "test", "length", "body", "create"}
      BY <1>0, <1>4, <2>1, <2>2 DEF Armed, Fire, CallbackLock, TestSlot, WriteLength,
         WriteBody, StartFails, CallbackUnlock, TimerGoto
    <3> QED
      BY <1>1, <2>1, <2>2, <3>1 DEF Armed
  <2>3. CASE timers[s] # t /\ index[t] # s
    <3>1. \A u \in Timers : tpc[u] = "start" /\ index[u] = s =>
              tpc'[u] = "start" /\ index'[u] = s
      BY <1>1, <1>2, <2>3
    <3> QED
      BY <1>0, <1>1, <1>2, <2>1, <2>3, <3>1, ArmedKept
  <2>4. CASE timers[s] # t /\ index[t] = s /\ tpc[t] = "start"
    <3>1. ~ CanStart(s)
      BY <2>4 DEF Fire, CallbackLock, TestSlot, WriteLength, WriteBody, StartFails,
         CallbackUnlock, TimerGoto
    <3>2. tpc[timers[s]] \in {"waiting", "lock", "test", "length", "body", "create"}
      BY <2>1, <3>1 DEF CanStart, Armed
    <3> QED
      BY <1>1, <1>2, <2>1, <2>4, <3>2 DEF Armed
  <2>5. CASE timers[s] # t /\ tpc[t] # "start"
    <3>1. \A u \in Timers : tpc[u] = "start" /\ index[u] = s =>
              tpc'[u] = "start" /\ index'[u] = s
      BY <1>1, <1>2, <2>5
    <3> QED
      BY <1>0, <1>1, <1>2, <2>1, <2>5, <3>1, ArmedKept
  <2> QED
    BY <2>2, <2>3, <2>4, <2>5
<1>5. \A s \in Slots : Working(s)' <=> Working(s)
  BY <1>1 DEF Working
<1> QED
  BY <1>0, <1>1, <1>3, <1>4, <1>5 DEF TimersOK

\* timers[index] = Timer(...) of a callback.
LEMMA TimerTimersRestart ==
    ASSUME IInv, NEW t \in Timers, RestartTimer(t)
    PROVE  TimersOK'
<1> USE DEF TypeOK
<1> DEFINE s0 == index[t]
           n == [tpc EXCEPT ![t] = "start"]
<1>0. TypeOK /\ TimersOK
  BY DEF IInv
<1>1. /\ tpc[t] = "create" /\ UNCHANGED <<pbuffer, mpc, ind>>
      /\ s0 \in Slots /\ n \in [Timers -> TimerLabels] /\ CreateTimer(s0, n)
  BY <1>0 DEF RestartTimer, frames, mainLocals, TimerLabels, InCallback
<1>2. n[t] = "start" /\ \A v \in Timers : v # t => n[v] = tpc[v]
  BY <1>0
<1> HIDE DEF n
<1>3. PICK c \in Timers :
               /\ tpc[c] \in {"created", "disarmed", "finished"}
               /\ \A r \in Slots : timers[r] # c
               /\ timers'[s0] = c /\ tpc'[c] = "created" /\ index'[c] = s0
               /\ \A r \in Slots : r # s0 => timers'[r] = timers[r]
               /\ \A v \in Timers : v # c => tpc'[v] = n[v] /\ index'[v] = index[v]
  BY <1>0, <1>1, CreateEffect
<1>4. /\ t # c /\ tpc'[t] = "start" /\ index'[t] = s0
      /\ \A v \in Timers : v # c /\ v # t => tpc'[v] = tpc[v]
  BY <1>1, <1>2, <1>3
<1>5. ASSUME NEW s \in Slots, timers'[s] # None
      PROVE  /\ index'[timers'[s]] = s
             /\ tpc'[timers'[s]] = "disarmed" => mpc = "forget" /\ ind = s
  <2>1. CASE s = s0
    BY <1>3, <2>1
  <2>2. CASE s # s0
    <3>1. timers'[s] = timers[s] /\ timers[s] \in Timers /\ timers[s] # c
      BY <1>0, <1>3, <1>5, <2>2
    <3> QED
      BY <1>0, <1>3, <1>4, <1>5, <3>1 DEF TimersOK
  <2> QED
    BY <2>1, <2>2
<1>6. ASSUME NEW s \in Slots, pbuffer[s] # None, ~ Working(s) PROVE Armed(s)'
  <2>1. CASE s = s0
    BY <1>3, <1>4, <2>1, TimerFacts DEF Armed
  <2>2. CASE s # s0
    <3>1. Armed(s) /\ timers[s] \in Timers /\ index[timers[s]] = s
      BY <1>0, <1>6 DEF TimersOK, Armed
    <3>2. timers[s] # t /\ timers[s] # c /\ timers'[s] = timers[s]
      BY <1>3, <2>2, <3>1
    <3>3. \A u \in Timers : tpc[u] = "start" /\ index[u] = s =>
              tpc'[u] = "start" /\ index'[u] = s
      BY <1>3, <1>4
    <3> QED
      BY <1>0, <1>4, <3>1, <3>2, <3>3, ArmedKept
  <2> QED
    BY <2>1, <2>2
<1>7. \A s \in Slots : Working(s)' <=> Working(s)
  BY <1>1 DEF Working
<1>8. \A s \in Slots : timers[s] # None => timers'[s] # None
  BY <1>3, TimerFacts
<1> QED
  BY <1>0, <1>1, <1>5, <1>6, <1>7, <1>8 DEF TimersOK

\* timers[index].start() of a callback.
LEMMA TimerTimersStart ==
    ASSUME IInv, NEW t \in Timers, StartTimer(t)
    PROVE  TimersOK'
<1> USE DEF TypeOK
<1> DEFINE s0 == index[t]
           x == timers[s0]
<1>0. TypeOK /\ TimersOK
  BY DEF IInv
<1>1. /\ tpc[t] = "start" /\ CanStart(s0) /\ s0 \in Slots
      /\ tpc' = [tpc EXCEPT ![t] = "unlock", ![x] = Started(x)]
      /\ UNCHANGED <<pbuffer, mpc, ind, timers, index>>
  BY <1>0 DEF StartTimer, unchangedByTimer, frames, mainLocals
<1>2. /\ x \in Timers /\ x # None /\ tpc[x] \in {"created", "disarmed"} /\ x # t
      /\ index[x] = s0
  BY <1>0, <1>1 DEF CanStart, TimersOK
<1> HIDE DEF x
<1>3. /\ tpc'[t] = "unlock" /\ tpc'[x] = Started(x)
      /\ \A v \in Timers : v # t /\ v # x => tpc'[v] = tpc[v]
  BY <1>0, <1>1, <1>2
<1>4. Started(x) # "disarmed" /\ (tpc[x] = "created" => Started(x) = "waiting")
  BY TimerOps
<1>5. \A s \in Slots : timers[s] # None /\ tpc'[timers[s]] = "disarmed"
          => tpc[timers[s]] = "disarmed"
  BY <1>0, <1>3, <1>4
<1>6. ASSUME NEW s \in Slots, pbuffer[s] # None, ~ Working(s) PROVE Armed(s)'
  <2>1. Armed(s) /\ timers[s] \in Timers /\ index[timers[s]] = s
    BY <1>0, <1>6 DEF TimersOK, Armed
  <2>2. CASE s = s0
    <3>1. timers[s] = x
      BY <2>2 DEF x
    <3>2. tpc[x] = "created"
      BY <1>2, <2>1, <3>1 DEF Armed
    <3> QED
      BY <1>1, <1>2, <1>3, <1>4, <3>1, <3>2 DEF Armed
  <2>3. CASE s # s0
    <3>1. timers[s] # x /\ timers[s] # t
      BY <1>2, <2>1, <2>3
    <3>2. \A u \in Timers : tpc[u] = "start" /\ index[u] = s =>
              tpc'[u] = "start" /\ index'[u] = s
      BY <1>1, <1>2, <1>3, <2>3
    <3> QED
      BY <1>0, <1>1, <1>3, <2>1, <3>1, <3>2, ArmedKept
  <2> QED
    BY <2>2, <2>3
<1>7. \A s \in Slots : Working(s)' <=> Working(s)
  BY <1>1 DEF Working
<1> QED
  BY <1>0, <1>1, <1>5, <1>6, <1>7 DEF TimersOK

-----------------------------------------------------------------------------
(***************************************************************************)
(* Every step, and what the invariant shows.                               *)
(***************************************************************************)
LEMMA Inductive == IInv /\ [Next]_vars => IInv'
<1> SUFFICES ASSUME IInv, [Next]_vars PROVE IInv'
  OBVIOUS
<1>1. CASE MainThread
  <2>1. TimersOK'
    BY <1>1, MainTimersElsewhere, MainTimersHere DEF MainThread
  <2> QED
    BY <1>1, <2>1, MainTyped, MainLockStep, PhaseStep, WindowStep DEF IInv
<1>2. ASSUME NEW t \in Timers, TimerThread(t) PROVE IInv'
  <2>1. UNCHANGED <<frames, mainLocals>>
    BY <1>2 DEF TimerThread, Fire, CallbackLock, TestSlot, WriteLength, WriteBody,
         RestartTimer, StartTimer, StartFails, CallbackUnlock, unchangedByTimer
  <2>2. PhaseOK' /\ WindowOK'
    BY <2>1 DEF IInv, PhaseOK, WindowOK, Purged, frames, mainLocals
  <2>3. TimersOK'
    BY <1>2, TimerTimersElsewhere, TimerTimersRestart, TimerTimersStart DEF TimerThread
  <2> QED
    BY <1>2, <2>2, <2>3, TimerTyped, TimerLockStep DEF IInv
<1>3. CASE UNCHANGED vars
  BY <1>3 DEF IInv, TypeOK, LockOK, PhaseOK, WindowOK, Purged, TimersOK, Working, Armed,
              vars, frames, mainLocals, timerState
<1>4. CASE Ended
  BY <1>3, <1>4 DEF Ended
<1> QED
  BY <1>1, <1>2, <1>3, <1>4 DEF Next

\* The invariant holds throughout.
LEMMA Invariance == Spec => []IInv
  BY InitInv, Inductive, PTL DEF Spec

\* The variables keep their types, the lock its two kinds of holder.
THEOREM TypeSafety == Spec => []TypeOK
  BY Invariance, PTL DEF IInv

(***************************************************************************)
(* Each frame that is not acknowledged has a Timer that runs whenever main *)
(* gets round to its loop, whatever stop_timer, callback_timeout and the   *)
(* answer to a NACK did to each other's Timers.                            *)
(***************************************************************************)
THEOREM GuardSafety == Spec => []EveryFrameGuarded
<1>1. IInv => EveryFrameGuarded
  <2> SUFFICES ASSUME IInv, mpc \in {"turn", "poll"}, NEW s \in Slots, pbuffer[s] # None
               PROVE  \E t \in Timers : Guards(t) /\ index[t] = s
    BY DEF EveryFrameGuarded
  <2>1. Armed(s) /\ timers[s] \in Timers /\ index[timers[s]] = s
    BY DEF IInv, TypeOK, TimersOK, Armed, Working
  <2>2. CASE tpc[timers[s]] \in {"waiting", "lock", "test", "length", "body", "create"}
    BY <2>1, <2>2 DEF Guards, InCallback
  <2>3. CASE \E u \in Timers : tpc[u] = "start" /\ index[u] = s
    BY <2>3 DEF Guards, InCallback
  <2> QED
    BY <2>1, <2>2, <2>3 DEF Armed
<1> QED
  BY <1>1, Invariance, PTL

(***************************************************************************)
(* stop_timer finds a Timer in each slot main takes it to, so that the     *)
(* name it would raise without one is never looked up.                     *)
(***************************************************************************)
THEOREM StopSafety == Spec => []StopFindsTimer
<1>1. IInv => StopFindsTimer
  BY DEF IInv, TimersOK, StopFindsTimer
<1> QED
  BY <1>1, Invariance, PTL

(***************************************************************************)
(* Two packets are written across each other only while main answers a     *)
(* NACK: the one place without client_sync_lock.                           *)
(***************************************************************************)
THEOREM LockSafety == Spec => []OnlyNackAnswersMix
<1>1. IInv => OnlyNackAnswersMix
  <2> SUFFICES ASSUME IInv PROVE OnlyNackAnswersMix
    OBVIOUS
  <2>1. \A t \in Timers : tpc[t] = "body" => client_sync_lock = t
    BY DEF IInv, LockOK, Critical
  <2>2. mpc = "body" /\ phase # "nack" => client_sync_lock = Main
    BY DEF IInv, LockOK, PhaseOK
  <2> QED
    BY <2>1, <2>2, TimerFacts DEF OnlyNackAnswersMix
<1> QED
  BY <1>1, Invariance, PTL

=============================================================================
