------------------------------- MODULE GoBackN -------------------------------
(***************************************************************************)
(* src/4_mac/gbn_sender.py and src/4_mac/gbn_receiver.py over               *)
(* src/4_mac/common.py: a message is sent character by character with       *)
(* Go-Back-N over one TCP connection.                                      *)
(*                                                                         *)
(* TCP neither loses nor reorders what is sent, so each direction is a      *)
(* FIFO channel of whole packets.  Loss is played by Packet.is_corrupt: the *)
(* reader throws a dice for every packet and drops it on a 1 or a 2.  The  *)
(* sender takes at most one acknowledgement per turn of its loop while the *)
(* receiver sends one per frame, so acknowledgements pile up and the timer *)
(* also fires while answers are still on their way.                        *)
(*                                                                         *)
(* A character of the message is represented by its position, so that no   *)
(* two characters are alike.  An acknowledgement carries, besides its       *)
(* seq_no, a history field that no guard reads: how many characters the    *)
(* receiver had when it sent it.                                           *)
(***************************************************************************)
EXTENDS Integers, Sequences

CONSTANTS
    MAX_SEQ_NO,         \* largest sequence number: 2^3 - 1 in the program
    MaxLen,             \* bound: longest message the user may enter
    MaxPremature        \* bound: timeouts while something is on its way

ASSUME GBNAssumption ==
    /\ MAX_SEQ_NO \in Nat /\ MAX_SEQ_NO >= 1
    /\ MaxLen \in Nat
    /\ MaxPremature \in Nat

VARIABLES
    \* the sender
    msglen,             \* length of the message the user has entered
    next_msg_index,     \* characters sent at least once
    pbuffer,            \* frames sent and not acknowledged, oldest first
    S_f, S_n,           \* seq_no of the first frame of pbuffer, of the next frame
    timer_running,      \* timer.start_time is set
    spc,                \* where the sender is in main
    premature,          \* timeouts fired while something was on its way
    \* the receiver
    expected_seq_no,
    data_recvd,
    rpc,                \* where the receiver is in its loop
    \* the connection
    toReceiver, toSender,
    conn                \* what the receiver's end of the connection knows

senderVars == <<msglen, next_msg_index, pbuffer, S_f, S_n, timer_running, spc, premature>>
receiverVars == <<expected_seq_no, data_recvd, rpc>>
vars == <<senderVars, receiverVars, toReceiver, toSender, conn>>

SeqNos == 0 .. MAX_SEQ_NO
Succ(s) == (s + 1) % (MAX_SEQ_NO + 1)

WindowOfAllSeqNos == MAX_SEQ_NO + 1             \* mutant of GBN_WINDOW_SIZE
GBN_WINDOW_SIZE == MAX_SEQ_NO

(***************************************************************************)
(* The connection, as the receiver meets it.  "fin": the sender has closed *)
(* it in order, recv returns b'' when the data is used up.  "rst": it was  *)
(* reset, because acknowledgements lay unread in the socket the sender     *)
(* closed.  "finrst": first the one and then, because the receiver went on *)
(* sending, the other; recv still returns b'', but send fails.             *)
(***************************************************************************)
ConnStates == {"open", "fin", "finrst", "rst"}

Init ==
    /\ msglen \in 0 .. MaxLen
    /\ next_msg_index = 0
    /\ pbuffer = <<>>
    /\ S_f = 0
    /\ S_n = 0
    /\ timer_running = FALSE
    /\ spc = "fill"
    /\ premature = 0
    /\ expected_seq_no = 0
    /\ data_recvd = <<>>
    /\ rpc = "recv"
    /\ toReceiver = <<>>
    /\ toSender = <<>>
    /\ conn = "open"

-----------------------------------------------------------------------------
(***************************************************************************)
(* The sender.                                                             *)
(***************************************************************************)
SpaceOfOneMore == Len(pbuffer) <= GBN_WINDOW_SIZE       \* mutant of SpaceInBuffer
SpaceInBuffer == Len(pbuffer) < GBN_WINDOW_SIZE

\* One turn of the inner loop: the next character goes out in a new frame.
SendFrame ==
    LET pack == [seq_no |-> S_n, data |-> next_msg_index + 1]
    IN  /\ spc = "fill" /\ SpaceInBuffer /\ next_msg_index < msglen
        /\ toReceiver' = Append(toReceiver, pack)
        /\ pbuffer' = Append(pbuffer, pack)
        /\ S_n' = Succ(S_n)
        /\ timer_running' = TRUE
        /\ next_msg_index' = next_msg_index + 1
        /\ UNCHANGED <<msglen, S_f, spc, premature, receiverVars, toSender, conn>>

WindowFilled ==
    /\ spc = "fill" /\ ~ (SpaceInBuffer /\ next_msg_index < msglen)
    /\ spc' = "poll"
    /\ UNCHANGED <<msglen, next_msg_index, pbuffer, S_f, S_n, timer_running, premature,
                   receiverVars, toReceiver, toSender, conn>>

(***************************************************************************)
(* is_valid_ackno: the loop walks from S_f + 1 to S_n round the sequence    *)
(* numbers.                                                                *)
(***************************************************************************)
IsValidAckno(ack_no) ==
    /\ pbuffer # <<>>
    /\ \E k \in 0 .. (S_n - S_f - 1) % (MAX_SEQ_NO + 1) :
           ack_no = (S_f + 1 + k) % (MAX_SEQ_NO + 1)

\* recv_packet_nblock takes the oldest acknowledgement off the socket.
TakeAck ==
    /\ spc = "poll" /\ toSender # <<>>
    /\ toSender' = Tail(toSender)
    /\ spc' = "timer"
    /\ UNCHANGED <<msglen, next_msg_index, S_n, timer_running, premature,
                   receiverVars, toReceiver, conn>>

AckClearsBuffer ==                              \* mutant of AcceptAck
    /\ TakeAck
    /\ IsValidAckno(Head(toSender).seq_no)
    /\ pbuffer' = <<>>
    /\ S_f' = S_n

\* The frames before the one that carries the acknowledged number leave pbuffer.
AcceptAck ==
    /\ TakeAck
    /\ LET ack_no == Head(toSender).seq_no
       IN  /\ IsValidAckno(ack_no)
           /\ \E n \in 0 .. Len(pbuffer) :
                  /\ \A i \in 1 .. n : pbuffer[i].seq_no # ack_no
                  /\ n < Len(pbuffer) => pbuffer[n + 1].seq_no = ack_no
                  /\ pbuffer' = SubSeq(pbuffer, n + 1, Len(pbuffer))
                  /\ S_f' = (S_f + n) % (MAX_SEQ_NO + 1)

IgnoreAck ==
    /\ TakeAck
    /\ ~ IsValidAckno(Head(toSender).seq_no)
    /\ UNCHANGED <<pbuffer, S_f>>

CorruptAck == TakeAck /\ UNCHANGED <<pbuffer, S_f>>

\* Nothing has arrived: nothing was sent, or it still travels.
NoAck ==
    /\ spc = "poll"
    /\ spc' = "timer"
    /\ UNCHANGED <<msglen, next_msg_index, pbuffer, S_f, S_n, timer_running, premature,
                   receiverVars, toReceiver, toSender, conn>>

CompleteOnEmptyBuffer == IF pbuffer = <<>> THEN "done" ELSE "fill"  \* mutant of AfterTimer
AfterTimer ==
    IF pbuffer = <<>> /\ next_msg_index >= msglen THEN "done" ELSE "fill"

OnTheirWay == toReceiver # <<>> \/ toSender # <<>> \/ rpc = "ack"
Premature == pbuffer # <<>> /\ OnTheirWay

TimerNotRestarted ==                            \* mutant of Timeout
    /\ spc = "timer" /\ timer_running
    /\ Premature => premature < MaxPremature
    /\ premature' = IF Premature THEN premature + 1 ELSE premature
    /\ toReceiver' = toReceiver \o pbuffer
    /\ timer_running' = FALSE
    /\ spc' = AfterTimer
    /\ UNCHANGED <<msglen, next_msg_index, pbuffer, S_f, S_n,
                   receiverVars, toSender, conn>>

\* The timer has run out: everything in pbuffer is sent again.
Timeout ==
    /\ spc = "timer" /\ timer_running
    /\ Premature => premature < MaxPremature
    /\ premature' = IF Premature THEN premature + 1 ELSE premature
    /\ toReceiver' = toReceiver \o pbuffer
    /\ spc' = AfterTimer
    /\ UNCHANGED <<msglen, next_msg_index, pbuffer, S_f, S_n, timer_running,
                   receiverVars, toSender, conn>>

NoTimeout ==
    /\ spc = "timer" /\ timer_running
    /\ spc' = AfterTimer
    /\ UNCHANGED <<msglen, next_msg_index, pbuffer, S_f, S_n, timer_running, premature,
                   receiverVars, toReceiver, toSender, conn>>

\* has_timeout_occured subtracts None: the timer was never started.
TimerNeverStarted ==
    /\ spc = "timer" /\ ~ timer_running
    /\ spc' = "failed"
    /\ UNCHANGED <<msglen, next_msg_index, pbuffer, S_f, S_n, timer_running, premature,
                   receiverVars, toReceiver, toSender, conn>>

(***************************************************************************)
(* client.close(), or the end of the process.  Unread acknowledgements     *)
(* turn the close into a reset, at once or when they arrive.               *)
(***************************************************************************)
Close ==
    /\ spc \in {"done", "failed"} /\ conn = "open"
    /\ conn' \in IF toSender = <<>> THEN {"fin"} ELSE {"fin", "finrst", "rst"}
    /\ toSender' = <<>>
    /\ UNCHANGED <<senderVars, receiverVars, toReceiver>>

Poll == AcceptAck \/ IgnoreAck \/ CorruptAck \/ NoAck
CheckTimer == Timeout \/ NoTimeout \/ TimerNeverStarted
Sender == SendFrame \/ WindowFilled \/ Poll \/ CheckTimer \/ Close

-----------------------------------------------------------------------------
(***************************************************************************)
(* The receiver.                                                           *)
(***************************************************************************)
TakeFrame ==
    /\ rpc = "recv" /\ toReceiver # <<>>
    /\ toReceiver' = Tail(toReceiver)
    /\ UNCHANGED <<senderVars, toSender, conn>>

InOrderFrame ==
    /\ TakeFrame
    /\ Head(toReceiver).seq_no = expected_seq_no
    /\ expected_seq_no' = Succ(expected_seq_no)
    /\ data_recvd' = Append(data_recvd, Head(toReceiver).data)
    /\ rpc' = "ack"

OutOfOrderNotAcked ==                           \* mutant of OutOfOrderFrame
    /\ TakeFrame
    /\ Head(toReceiver).seq_no # expected_seq_no
    /\ UNCHANGED receiverVars

OutOfOrderFrame ==
    /\ TakeFrame
    /\ Head(toReceiver).seq_no # expected_seq_no
    /\ rpc' = "ack"
    /\ UNCHANGED <<expected_seq_no, data_recvd>>

CorruptFrame == TakeFrame /\ UNCHANGED receiverVars

(***************************************************************************)
(* send_packet(sock, ack_pkt).  What is sent after the sender has closed   *)
(* is lost; the reset it provokes makes a later write, or the second write *)
(* of the same packet, fail with a socket.error, which ends the loop.      *)
(***************************************************************************)
SendAck ==
    /\ rpc = "ack"
    /\ LET ack_pkt == [seq_no |-> expected_seq_no, upto |-> Len(data_recvd)]
       IN  \/ /\ conn = "open"
              /\ toSender' = Append(toSender, ack_pkt)
              /\ rpc' = "recv"
              /\ UNCHANGED conn
           \/ /\ conn = "fin"
              /\ conn' \in {"fin", "finrst"}
              /\ rpc' = "recv"
              /\ UNCHANGED toSender
           \/ /\ conn # "open"
              /\ conn' = IF conn = "rst" THEN "rst" ELSE "finrst"
              /\ rpc' = "left"
              /\ UNCHANGED toSender
    /\ UNCHANGED <<senderVars, expected_seq_no, data_recvd, toReceiver>>

\* recv fails with ECONNRESET, a socket.error: the loop ends.
ReadReset ==
    /\ rpc = "recv" /\ conn = "rst"
    /\ rpc' = "left"
    /\ UNCHANGED <<senderVars, expected_seq_no, data_recvd, toReceiver, toSender, conn>>

(***************************************************************************)
(* recv returns b'' at the end of the stream.  read_k_bytes still wants    *)
(* bytes and asks again, for ever.                                         *)
(***************************************************************************)
ReadEOF ==
    /\ rpc = "recv" /\ toReceiver = <<>> /\ conn \in {"fin", "finrst"}
    /\ rpc' = "eof"
    /\ UNCHANGED <<senderVars, expected_seq_no, data_recvd, toReceiver, toSender, conn>>

SpinAtEOF == rpc = "eof" /\ UNCHANGED vars

Receiver == \/ InOrderFrame \/ OutOfOrderFrame \/ CorruptFrame
            \/ SendAck \/ ReadReset \/ ReadEOF \/ SpinAtEOF

\* Both have left their loops.
Terminated == conn # "open" /\ rpc = "left" /\ UNCHANGED vars

Next == Sender \/ Receiver \/ Terminated

Spec == Init /\ [][Next]_vars

(***************************************************************************)
(* Both processes run.  The dice of is_corrupt is thrown anew for every    *)
(* packet that is read, resent ones included, so a packet that is read     *)
(* again and again is read clean in the end.  The timer runs on while the  *)
(* sender loops.  What the receiver sends arrives.                         *)
(***************************************************************************)
FairSpec ==
    /\ Spec
    /\ WF_vars(Sender) /\ WF_vars(Receiver)
    /\ SF_vars(InOrderFrame) /\ SF_vars(OutOfOrderFrame)
    /\ SF_vars(AcceptAck) /\ SF_vars(AcceptAck \/ IgnoreAck \/ CorruptAck)
    /\ SF_vars(Timeout)

-----------------------------------------------------------------------------
Frames == [seq_no : SeqNos, data : 1 .. MaxLen]
Acks == [seq_no : SeqNos, upto : 0 .. MaxLen]

\* Locals, packets on their way and the state of the connection; numbers fit the header.
TypeOK ==
    /\ msglen \in 0 .. MaxLen
    /\ next_msg_index \in 0 .. msglen
    /\ pbuffer \in Seq(Frames) /\ Len(pbuffer) <= GBN_WINDOW_SIZE
    /\ S_f \in SeqNos /\ S_n \in SeqNos
    /\ timer_running \in BOOLEAN
    /\ spc \in {"fill", "poll", "timer", "done", "failed"}
    /\ premature \in 0 .. MaxPremature
    /\ expected_seq_no \in SeqNos
    /\ data_recvd \in Seq(1 .. MaxLen)
    /\ rpc \in {"recv", "ack", "eof", "left"}
    /\ toReceiver \in Seq(Frames)
    /\ toSender \in Seq(Acks)
    /\ conn \in ConnStates

Base == next_msg_index - Len(pbuffer)

(***************************************************************************)
(* The two ends and everything on its way between them fit together: the   *)
(* sequence numbers are the positions modulo MAX_SEQ_NO + 1, the receiver  *)
(* is inside the sender's window, no frame on its way is a window older    *)
(* than what the receiver expects or than a frame before it, and           *)
(* acknowledgements, however stale, come in order and from inside the      *)
(* window.                                                                 *)
(***************************************************************************)
SeqNoOf(i) == i % (MAX_SEQ_NO + 1)

SenderWindow ==
    /\ Base >= 0
    /\ S_f = SeqNoOf(Base)
    /\ S_n = SeqNoOf(next_msg_index)
    /\ \A i \in 1 .. Len(pbuffer) :
           pbuffer[i] = [seq_no |-> SeqNoOf(Base + i - 1), data |-> Base + i]

ReceiverWindow ==
    /\ Len(data_recvd) \in Base .. next_msg_index
    /\ expected_seq_no = SeqNoOf(Len(data_recvd))
    /\ \A i \in 1 .. Len(data_recvd) : data_recvd[i] = i

FramesInWindow ==
    /\ \A i \in 1 .. Len(toReceiver) :
           /\ toReceiver[i].seq_no = SeqNoOf(toReceiver[i].data - 1)
           /\ toReceiver[i].data <= next_msg_index
           /\ Len(data_recvd) < toReceiver[i].data + GBN_WINDOW_SIZE
    /\ \A i, j \in 1 .. Len(toReceiver) :
           i < j => toReceiver[i].data < toReceiver[j].data + GBN_WINDOW_SIZE

AcksInWindow ==
    /\ \A i \in 1 .. Len(toSender) :
           /\ toSender[i].seq_no = SeqNoOf(toSender[i].upto)
           /\ toSender[i].upto \in Base .. Len(data_recvd)
    /\ \A i, j \in 1 .. Len(toSender) :
           i < j => toSender[i].upto <= toSender[j].upto

WindowsAgree == SenderWindow /\ ReceiverWindow /\ FramesInWindow /\ AcksInWindow

(***************************************************************************)
(* A frame on its way that the receiver would take for the next one is the *)
(* next one: no old copy of a frame has come round to the expected number. *)
(* This is what a window smaller than the number space is for.             *)
(***************************************************************************)
NoOldFrameTakenForNew ==
    \A i \in DOMAIN toReceiver :
        toReceiver[i].seq_no = expected_seq_no =>
            toReceiver[i].data = Len(data_recvd) + 1

(***************************************************************************)
(* However stale an acknowledgement is, the sender moves its window to     *)
(* exactly the character the receiver meant when it sent it.               *)
(***************************************************************************)
AckMovesWindowToItsMeaning ==
    [][AcceptAck => Base' = Head(toSender).upto]_vars

(***************************************************************************)
(* The sender dies in has_timeout_occured only on an empty message, and    *)
(* every frame it has not got an acknowledgement for is guarded by a       *)
(* running timer.                                                          *)
(***************************************************************************)
TimerGuardsFrames ==
    /\ spc = "failed" => msglen = 0
    /\ pbuffer # <<>> => timer_running

(***************************************************************************)
(* What the sockets of the two processes have to hold, so that neither     *)
(* sendall blocks on the other: less than two windows, and one window more *)
(* for every timeout that fired too early.                                 *)
(***************************************************************************)
BacklogBounded ==
    Len(toReceiver) + Len(toSender) <= (2 + premature) * GBN_WINDOW_SIZE - 1

(***************************************************************************)
(* The promise of ReliableTransfer.                                        *)
(***************************************************************************)
Transfer == INSTANCE ReliableTransfer
                WITH Window <- GBN_WINDOW_SIZE, length <- msglen,
                     offered <- next_msg_index, delivered <- data_recvd,
                     confirmed <- Base, finished <- spc = "done"

TransferSpec == Transfer!Spec

(***************************************************************************)
(* A message that is not empty is transferred in the end: main leaves its   *)
(* loop by its break.                                                      *)
(***************************************************************************)
Completes == msglen > 0 ~> spc = "done"
=============================================================================
