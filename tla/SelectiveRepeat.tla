--------------------------- MODULE SelectiveRepeat ---------------------------
(***************************************************************************)
(* src/4_mac/sr_sender.py and src/4_mac/sr_receiver.py over                *)
(* src/4_mac/common.py: a message is sent character by character with      *)
(* Selective Repeat over one TCP connection, a FIFO channel of packets in   *)
(* each direction.  Loss is played by Packet.is_corrupt, as in GoBackN.    *)
(*                                                                         *)
(* A timer may run out whenever its frame is unacknowledged, and resends   *)
(* the frame in one step.  The threads behind it are in SrTimers, with the *)
(* races in which they end main or mix packets: not part of this module.   *)
(* A character is represented by its position in the message.  A reply     *)
(* carries a history field that no guard reads: how many characters the    *)
(* receiver had delivered when it sent it.                                 *)
(***************************************************************************)
EXTENDS Integers, Sequences

CONSTANTS
    SRP_WINDOW_SIZE,    \* slots of both buffers: 2^2 in the program
    MaxLen,             \* bound: longest message the user may enter
    MaxPremature        \* bound: timeouts while something is on its way

ASSUME SRPAssumption ==
    /\ SRP_WINDOW_SIZE \in Nat /\ SRP_WINDOW_SIZE >= 1
    /\ MaxLen \in Nat
    /\ MaxPremature \in Nat

OneSeqNoTooFew == 2 * SRP_WINDOW_SIZE - 2       \* mutant of MAX_SEQ_NO
MAX_SEQ_NO == 2 * SRP_WINDOW_SIZE - 1
SeqNos == 0 .. MAX_SEQ_NO
SuccNotWrapped(s) == s + 1                      \* mutant of Succ
Succ(s) == (s + 1) % (MAX_SEQ_NO + 1)

SlotOf(s) == s % SRP_WINDOW_SIZE
Slots == 0 .. SRP_WINDOW_SIZE - 1

Frames == [seq_no : SeqNos, data : 1 .. MaxLen]
Replies == [ptype : {"ACK", "NACK"}, seq_no : SeqNos, upto : 0 .. MaxLen]
None == [seq_no |-> -1, data |-> 0]

VARIABLES
    \* the sender
    msglen,             \* length of the message the user has entered
    next_msg_char,      \* characters sent at least once
    pbuffer,            \* the unacknowledged frame of each slot, or None
    S_f, S_n,           \* seq_no of the first frame in pbuffer, of the next one
    outstanding_frames,
    spc,                \* where the sender is in main
    premature,          \* timeouts that came while something was on its way
    \* the receiver
    R_n,                \* seq_no of the next frame to deliver
    rbuffer,            \* pbuffer of sr_receiver.py
    nack_sent, ack_needed,
    data_recvd,
    rpc,                \* where the receiver is in main
    \* the connection
    toReceiver, toSender,
    conn                \* what the receiver's end of the connection knows

window == <<msglen, next_msg_char, pbuffer, S_f, S_n, outstanding_frames>>
senderVars == <<window, spc, premature>>
collected == <<R_n, rbuffer, ack_needed, data_recvd>>
receiverVars == <<collected, nack_sent, rpc>>
vars == <<senderVars, receiverVars, toReceiver, toSender, conn>>

\* As in GoBackN: closed in order, closed and then reset, reset.
ConnStates == {"open", "fin", "finrst", "rst"}

Init ==
    /\ msglen \in 0 .. MaxLen
    /\ next_msg_char = 0
    /\ pbuffer = [s \in Slots |-> None]
    /\ S_f = 0 /\ S_n = 0 /\ outstanding_frames = 0
    /\ spc = "send"
    /\ premature = 0
    /\ R_n = 0
    /\ rbuffer = [s \in Slots |-> None]
    /\ nack_sent = FALSE /\ ack_needed = FALSE
    /\ data_recvd = <<>>
    /\ rpc = "recv"
    /\ toReceiver = <<>> /\ toSender = <<>>
    /\ conn = "open"

-----------------------------------------------------------------------------
(***************************************************************************)
(* The sender's main loop.                                                 *)
(***************************************************************************)
MaySend == outstanding_frames < SRP_WINDOW_SIZE /\ next_msg_char < msglen

SendFrame ==
    LET pkt == [seq_no |-> S_n, data |-> next_msg_char + 1]
    IN  /\ spc = "send" /\ MaySend
        /\ next_msg_char' = next_msg_char + 1
        /\ pbuffer' = [pbuffer EXCEPT ![SlotOf(S_n)] = pkt]
        /\ toReceiver' = Append(toReceiver, pkt)
        /\ S_n' = Succ(S_n)
        /\ outstanding_frames' = outstanding_frames + 1
        /\ spc' = "poll"
        /\ UNCHANGED <<msglen, S_f, premature, receiverVars, toSender, conn>>

NothingToSend ==
    /\ spc = "send" /\ ~ MaySend
    /\ spc' = "poll"
    /\ UNCHANGED <<window, premature, receiverVars, toReceiver, toSender, conn>>

IsValidAckno(ack) ==
    /\ outstanding_frames > 0
    /\ \E k \in 0 .. (S_n - S_f - 1) % (MAX_SEQ_NO + 1) :
           ack = (S_f + 1 + k) % (MAX_SEQ_NO + 1)

BreakWhenAllSent(outstanding) ==                \* mutant of EndOfTurn
    IF next_msg_char >= msglen THEN "done" ELSE "send"

\* The end of a turn: break, or round again.
EndOfTurn(outstanding) ==
    IF outstanding = 0 /\ next_msg_char >= msglen THEN "done" ELSE "send"

\* Nothing has arrived: nothing was sent, or it still travels.
NoReply ==
    /\ spc = "poll"
    /\ spc' = EndOfTurn(outstanding_frames)
    /\ UNCHANGED <<window, premature, receiverVars, toReceiver, toSender, conn>>

\* recv_packet_nblock takes the oldest reply off the socket.
TakeReply ==
    /\ spc = "poll" /\ toSender # <<>>
    /\ toSender' = Tail(toSender)
    /\ UNCHANGED <<msglen, next_msg_char, S_n, premature, receiverVars, conn>>

(***************************************************************************)
(* acknowledge_frames: n frames, from S_f to the one before the number     *)
(* acknowledged, leave their slots.                                        *)
(***************************************************************************)
AcceptAck ==
    /\ TakeReply
    /\ LET ack == Head(toSender).seq_no
           n   == (ack - S_f) % (MAX_SEQ_NO + 1)
           Acknowledged(s) ==
               \E k \in 0 .. n - 1 : s = SlotOf((S_f + k) % (MAX_SEQ_NO + 1))
       IN  /\ Head(toSender).ptype = "ACK" /\ IsValidAckno(ack)
           /\ pbuffer' = [s \in Slots |-> IF Acknowledged(s) THEN None ELSE pbuffer[s]]
           /\ S_f' = ack
           /\ outstanding_frames' = outstanding_frames - n
           /\ spc' = EndOfTurn(outstanding_frames - n)
    /\ UNCHANGED toReceiver

FrameAskedFor == pbuffer[SlotOf(Head(toSender).seq_no)]
InTheSlot == FrameAskedFor # None               \* mutant of NackMeansFrame
NackMeansFrame == FrameAskedFor # None /\ FrameAskedFor.seq_no = Head(toSender).seq_no

ResendOnNack ==
    /\ TakeReply
    /\ Head(toSender).ptype = "NACK"
    /\ NackMeansFrame
    /\ toReceiver' = Append(toReceiver, FrameAskedFor)
    /\ spc' = EndOfTurn(outstanding_frames)
    /\ UNCHANGED <<pbuffer, S_f, outstanding_frames>>

IgnoreReply ==
    /\ TakeReply
    /\ LET reply == Head(toSender)
       IN  \/ reply.ptype = "ACK" /\ ~ IsValidAckno(reply.seq_no)
           \/ reply.ptype = "NACK" /\ ~ NackMeansFrame
    /\ spc' = EndOfTurn(outstanding_frames)
    /\ UNCHANGED <<pbuffer, S_f, outstanding_frames, toReceiver>>

CorruptReply ==
    /\ TakeReply
    /\ spc' = EndOfTurn(outstanding_frames)
    /\ UNCHANGED <<pbuffer, S_f, outstanding_frames, toReceiver>>

Poll == NoReply \/ AcceptAck \/ ResendOnNack \/ IgnoreReply \/ CorruptReply

(***************************************************************************)
(* callback_timeout on a timer thread, at any time while main runs.        *)
(***************************************************************************)
OnTheirWay == toReceiver # <<>> \/ toSender # <<>> \/ rpc = "drain"

Timeout(s) ==
    /\ pbuffer[s] # None
    /\ OnTheirWay => premature < MaxPremature
    /\ premature' = IF OnTheirWay THEN premature + 1 ELSE premature
    /\ toReceiver' = Append(toReceiver, pbuffer[s])
    /\ UNCHANGED <<window, spc, receiverVars, toSender, conn>>

\* client.close(); unread replies turn the close into a reset.
Close ==
    /\ spc = "done" /\ conn = "open"
    /\ conn' \in IF toSender = <<>> THEN {"fin"} ELSE {"fin", "finrst", "rst"}
    /\ toSender' = <<>>
    /\ UNCHANGED <<senderVars, receiverVars, toReceiver>>

Sender == SendFrame \/ NothingToSend \/ Poll \/ Close

-----------------------------------------------------------------------------
(***************************************************************************)
(* The receiver.                                                           *)
(***************************************************************************)
Reply(ptype) == [ptype |-> ptype, seq_no |-> R_n, upto |-> Len(data_recvd)]

(***************************************************************************)
(* send_packet, for each of replies.  After the sender has closed they are *)
(* lost; the reset that answers them makes a later write fail, already the *)
(* second write of the same packet (the length goes first).  The exception *)
(* ends main: ConnectionResetError is caught ("left"), BrokenPipeError,    *)
(* after an orderly close, is not ("died").                                *)
(***************************************************************************)
SendAll(replies) ==
    /\ conn \in {"open", "fin"} \/ replies = <<>>
    /\ toSender' = IF conn = "open" THEN toSender \o replies ELSE toSender
    /\ conn' \in IF conn = "fin" /\ replies # <<>> THEN {"fin", "finrst"} ELSE {conn}

SendFails ==
    \/ conn = "rst" /\ conn' = "rst" /\ rpc' = "left"
    \/ conn \in {"fin", "finrst"} /\ conn' = "finrst" /\ rpc' = "died"

IsValidSeqno(seqno) ==
    seqno \in {(R_n + i) % (MAX_SEQ_NO + 1) : i \in 0 .. SRP_WINDOW_SIZE - 1}

TakeFrame ==
    /\ rpc = "recv" /\ toReceiver # <<>>
    /\ toReceiver' = Tail(toReceiver)
    /\ UNCHANGED senderVars

NackEachTime == ~ nack_sent \/ nack_sent        \* mutant of MayNack
MayNack == ~ nack_sent

\* The NACKs a corrupted frame, and a clean one out of order, give rise to.
NackIf(condition) == IF condition /\ MayNack THEN <<Reply("NACK")>> ELSE <<>>

CorruptFrame ==
    /\ TakeFrame
    /\ SendAll(NackIf(TRUE))
    /\ nack_sent' = TRUE
    /\ UNCHANGED <<collected, rpc>>

\* A clean frame for an empty slot of the window is stored; the loop that delivers follows.
StoreFrame(seq) ==
    /\ TakeFrame
    /\ Head(toReceiver).seq_no = seq /\ IsValidSeqno(seq)
    /\ rbuffer[SlotOf(seq)] = None
    /\ SendAll(NackIf(seq # R_n))
    /\ nack_sent' = (nack_sent \/ seq # R_n)
    /\ rbuffer' = [rbuffer EXCEPT ![SlotOf(seq)] = Head(toReceiver)]
    /\ rpc' = "drain"
    /\ UNCHANGED <<R_n, ack_needed, data_recvd>>

FrameStoredAlready ==
    /\ TakeFrame
    /\ LET seq == Head(toReceiver).seq_no
       IN  /\ IsValidSeqno(seq) /\ rbuffer[SlotOf(seq)] # None
           /\ SendAll(NackIf(seq # R_n))
           /\ nack_sent' = (nack_sent \/ seq # R_n)
    /\ UNCHANGED <<collected, rpc>>

NeverAckOld(nacked) == FALSE                    \* mutant of AckOldIf
AckOldIf(nacked) == nacked

\* A frame from outside the window: it has been delivered, its ACK may be lost.
OldFrame(seq) ==
    /\ TakeFrame
    /\ Head(toReceiver).seq_no = seq /\ ~ IsValidSeqno(seq)
    /\ nack_sent' = (nack_sent \/ seq # R_n)
    /\ SendAll(NackIf(seq # R_n) \o IF AckOldIf(nack_sent') THEN <<Reply("ACK")>> ELSE <<>>)
    /\ UNCHANGED <<collected, rpc>>

\* One turn of the loop that empties the buffer from R_n on.
Deliver ==
    /\ rpc = "drain" /\ rbuffer[SlotOf(R_n)] # None
    /\ data_recvd' = Append(data_recvd, rbuffer[SlotOf(R_n)].data)
    /\ rbuffer' = [rbuffer EXCEPT ![SlotOf(R_n)] = None]
    /\ R_n' = Succ(R_n)
    /\ ack_needed' = TRUE
    /\ UNCHANGED <<senderVars, nack_sent, rpc, toReceiver, toSender, conn>>

Drained ==
    /\ rpc = "drain" /\ rbuffer[SlotOf(R_n)] = None
    /\ SendAll(IF ack_needed THEN <<Reply("ACK")>> ELSE <<>>)
    /\ ack_needed' = FALSE
    /\ nack_sent' = (nack_sent /\ ~ ack_needed)
    /\ rpc' = "recv"
    /\ UNCHANGED <<senderVars, R_n, rbuffer, data_recvd, toReceiver>>

\* A frame that is answered on a dead connection ends main.
AnswerFails ==
    /\ TakeFrame
    /\ MayNack \/ ~ IsValidSeqno(Head(toReceiver).seq_no)
    /\ SendFails
    /\ UNCHANGED <<collected, nack_sent, toSender>>

ReadReset ==
    /\ rpc = "recv" /\ conn = "rst"
    /\ rpc' = "left"
    /\ UNCHANGED <<senderVars, collected, nack_sent, toReceiver, toSender, conn>>

\* The end of the stream: read_k_bytes asks for bytes for ever.
ReadEOF ==
    /\ rpc = "recv" /\ toReceiver = <<>> /\ conn \in {"fin", "finrst"}
    /\ rpc' = "eof"
    /\ UNCHANGED <<senderVars, collected, nack_sent, toReceiver, toSender, conn>>

SpinAtEOF == rpc = "eof" /\ UNCHANGED vars

CleanFrame ==
    \/ \E seq \in SeqNos : StoreFrame(seq) \/ OldFrame(seq)
    \/ FrameStoredAlready

Receiver == \/ CleanFrame \/ CorruptFrame \/ Deliver \/ Drained
            \/ AnswerFails \/ ReadReset \/ ReadEOF \/ SpinAtEOF

Terminated == conn # "open" /\ rpc \in {"left", "died"} /\ UNCHANGED vars

Next == Sender \/ (\E s \in Slots : Timeout(s)) \/ Receiver \/ Terminated

Spec == Init /\ [][Next]_vars

(***************************************************************************)
(* Both processes run and what is sent arrives.  The dice is thrown for    *)
(* each packet independently of its number, so no number is corrupted for  *)
(* ever.  The timer of an unacknowledged frame is started again whenever   *)
(* it has run out.                                                         *)
(***************************************************************************)
FairSpec ==
    /\ Spec
    /\ WF_vars(Sender) /\ WF_vars(Receiver)
    /\ \A seq \in SeqNos : SF_vars(StoreFrame(seq)) /\ SF_vars(OldFrame(seq))
    /\ SF_vars(AcceptAck)
    /\ SF_vars(AcceptAck \/ ResendOnNack \/ IgnoreReply \/ CorruptReply)
    /\ \A s \in Slots : SF_vars(Timeout(s))

-----------------------------------------------------------------------------
\* Locals, both buffers, packets on their way and the state of the connection.
TypeOK ==
    /\ msglen \in 0 .. MaxLen
    /\ next_msg_char \in 0 .. msglen
    /\ pbuffer \in [Slots -> Frames \cup {None}]
    /\ S_f \in SeqNos /\ S_n \in SeqNos
    /\ outstanding_frames \in 0 .. SRP_WINDOW_SIZE
    /\ spc \in {"send", "poll", "done"}
    /\ premature \in 0 .. MaxPremature
    /\ R_n \in SeqNos
    /\ rbuffer \in [Slots -> Frames \cup {None}]
    /\ nack_sent \in BOOLEAN /\ ack_needed \in BOOLEAN
    /\ data_recvd \in Seq(1 .. MaxLen)
    /\ rpc \in {"recv", "drain", "eof", "left", "died"}
    /\ toReceiver \in Seq(Frames)
    /\ toSender \in Seq(Replies)
    /\ conn \in ConnStates

SeqNoOf(i) == i % (MAX_SEQ_NO + 1)
Base == next_msg_char - outstanding_frames
Delivered == Len(data_recvd)

\* The frame for the i-th character, and the slot it belongs to.
FrameOf(i) == [seq_no |-> SeqNoOf(i - 1), data |-> i]
SlotFor(i) == (i - 1) % SRP_WINDOW_SIZE

(***************************************************************************)
(* The two ends and the packets between them fit together: a slot of the   *)
(* sender holds the frame of its position in the window exactly while it   *)
(* is unacknowledged, a slot of the receiver nothing but the frame of its  *)
(* position in the receiver's window, no packet on its way is too old.     *)
(***************************************************************************)
SenderWindow ==
    /\ Base >= 0
    /\ S_f = SeqNoOf(Base) /\ S_n = SeqNoOf(next_msg_char)
    /\ \A i \in Base + 1 .. next_msg_char : pbuffer[SlotFor(i)] = FrameOf(i)
    /\ \A i \in next_msg_char + 1 .. Base + SRP_WINDOW_SIZE : pbuffer[SlotFor(i)] = None

ReceiverWindow ==
    /\ Delivered \in Base .. next_msg_char
    /\ R_n = SeqNoOf(Delivered)
    /\ \A i \in 1 .. Delivered : data_recvd[i] = i
    /\ \A i \in Delivered + 1 .. Delivered + SRP_WINDOW_SIZE :
           /\ rbuffer[SlotFor(i)] \in {None, FrameOf(i)}
           /\ i > next_msg_char => rbuffer[SlotFor(i)] = None

FramesInWindow ==
    /\ \A i \in 1 .. Len(toReceiver) :
           /\ toReceiver[i] = FrameOf(toReceiver[i].data)
           /\ toReceiver[i].data <= next_msg_char
           /\ Delivered < toReceiver[i].data + SRP_WINDOW_SIZE
           /\ \A s \in Slots : rbuffer[s].data < toReceiver[i].data + SRP_WINDOW_SIZE
    /\ \A i, j \in 1 .. Len(toReceiver) :
           i < j => toReceiver[i].data < toReceiver[j].data + SRP_WINDOW_SIZE

RepliesInWindow ==
    /\ \A i \in 1 .. Len(toSender) :
           /\ toSender[i].seq_no = SeqNoOf(toSender[i].upto)
           /\ toSender[i].upto \in Base .. Delivered
    /\ \A i, j \in 1 .. Len(toSender) :
           i < j => toSender[i].upto <= toSender[j].upto

WindowsAgree == SenderWindow /\ ReceiverWindow /\ FramesInWindow /\ RepliesInWindow

(***************************************************************************)
(* The receiver's test of the sequence number tells the frames it waits    *)
(* for from those it has delivered, whatever copies are still on their     *)
(* way: this is what twice as many numbers as slots are for.               *)
(***************************************************************************)
NumberTellsNewFromOld ==
    \A i \in 1 .. Len(toReceiver) :
        IsValidSeqno(toReceiver[i].seq_no) <=> toReceiver[i].data > Delivered

(***************************************************************************)
(* However stale a reply is, the sender resends exactly the character the  *)
(* receiver missed when it sent the NACK, and moves its window to exactly  *)
(* what the receiver had when it sent the ACK.                             *)
(***************************************************************************)
RepliesMeanWhatTheySay ==
    [][ /\ ResendOnNack => FrameAskedFor.data = Head(toSender).upto + 1
        /\ AcceptAck => Base' = Head(toSender).upto ]_vars

(***************************************************************************)
(* nack_sent holds the receiver to one NACK for each frame that is         *)
(* missing, however many frames come behind it or arrive corrupted.        *)
(***************************************************************************)
OneNackPerGap ==
    \A i, j \in 1 .. Len(toSender) :
        toSender[i].ptype = "NACK" /\ toSender[j].ptype = "NACK" /\ i # j =>
            toSender[i].upto # toSender[j].upto

(***************************************************************************)
(* The promise of ReliableTransfer.                                        *)
(***************************************************************************)
Transfer == INSTANCE ReliableTransfer
                WITH Window <- SRP_WINDOW_SIZE, length <- msglen,
                     offered <- next_msg_char, delivered <- data_recvd,
                     confirmed <- Base, finished <- conn # "open"

TransferSpec == Transfer!Spec

(***************************************************************************)
(* Every message is transferred in the end: main leaves its loop by its    *)
(* break.                                                                  *)
(***************************************************************************)
Completes == <>(spc = "done")
=============================================================================
