--------------------------- MODULE GoBackNProofs ----------------------------
(***************************************************************************)
(* Theorems about GoBackN, for every number of sequence numbers, every     *)
(* length of message and every number of premature timeouts.               *)
(***************************************************************************)
EXTENDS GoBackN, TLAPS

-----------------------------------------------------------------------------
(***************************************************************************)
(* Facts about % that sequence numbers rest on.                            *)
(***************************************************************************)

\* Two numbers less than m apart that agree modulo m are equal.
LEMMA ModUnique ==
    ASSUME NEW m \in Nat, m > 0, NEW a \in Nat, NEW b \in Nat,
           a % m = b % m, a - b < m, b - a < m
    PROVE  a = b
<1>1. PICK q \in Int, p \in Int, r \in 0 .. m - 1 : a = m * q + r /\ b = m * p + r
  <2>1. a = m * (a \div m) + (a % m) /\ b = m * (b \div m) + (b % m)
    OBVIOUS
  <2>2. a \div m \in Int /\ b \div m \in Int /\ a % m \in 0 .. m - 1
    OBVIOUS
  <2> QED
    BY <2>1, <2>2, Zenon
<1>2. m * q - m * p = m * (q - p)
  BY <1>1
<1>3. ~ (q - p >= 1) /\ ~ (q - p <= -1)
  <2>1. ASSUME NEW d \in Int, d >= 1 PROVE m * d >= m
    BY <2>1
  <2>2. ASSUME NEW d \in Int, d <= -1 PROVE m * d <= -m
    BY <2>2
  <2> QED
    BY <2>1, <2>2, <1>1, <1>2
<1> QED
  BY <1>1, <1>3

\* Counting on from a number reduced modulo m: what S_n = (S_n + 1) % m does.
LEMMA ModShift ==
    ASSUME NEW m \in Nat, m > 0, NEW a \in Nat, NEW k \in Nat, k <= m
    PROVE  ((a % m) + k) % m = (a + k) % m
<1>1. ASSUME NEW q \in Int, NEW r \in 0 .. m - 1 PROVE (m * q + r) % m = r
  OBVIOUS
<1>2. PICK q \in Int, r \in 0 .. m - 1 : a = m * q + r /\ a % m = r
  <2>1. a = m * (a \div m) + (a % m) /\ a \div m \in Int /\ a % m \in 0 .. m - 1
    OBVIOUS
  <2> QED
    BY <2>1, Zenon
<1>3. CASE r + k < m
  BY <1>1, <1>2, <1>3
<1>4. CASE r + k >= m
  <2> DEFINE s == r + k - m
  <2>1. s \in 0 .. m - 1 /\ a + k = m * (q + 1) + s /\ r + k = m * 1 + s
    BY <1>2, <1>4
  <2> HIDE DEF s
  <2>2. q + 1 \in Int /\ 1 \in Int
    OBVIOUS
  <2>3. (m * (q + 1) + s) % m = s /\ (m * 1 + s) % m = s
    BY <2>1, <2>2, <1>1, Zenon
  <2> QED
    BY <2>1, <2>3, <1>2
<1> QED
  BY <1>2, <1>3, <1>4

-----------------------------------------------------------------------------
(***************************************************************************)
(* Numbers of frames.                                                      *)
(***************************************************************************)


M == MAX_SEQ_NO + 1

\* SeqNoOf is the remainder, Succ counts on.
LEMMA SeqNoFacts ==
    /\ M \in Nat /\ M > 1 /\ GBN_WINDOW_SIZE = M - 1
    /\ \A i \in Nat : SeqNoOf(i) \in SeqNos
    /\ \A i \in Nat : Succ(SeqNoOf(i)) = SeqNoOf(i + 1)
    /\ SeqNoOf(0) = 0
<1>1. M \in Nat /\ M > 1 /\ GBN_WINDOW_SIZE = M - 1
  BY GBNAssumption DEF M, GBN_WINDOW_SIZE
<1>2. \A i \in Nat : i % M \in 0 .. M - 1
  BY <1>1
<1>3. \A i \in Nat : ((i % M) + 1) % M = (i + 1) % M
  <2> TAKE i \in Nat
  <2>1. 1 \in Nat /\ 1 <= M /\ M > 0
    BY <1>1
  <2> QED
    BY <1>1, <2>1, ModShift, Zenon
<1>4. 0 % M = 0
  BY <1>1
<1> QED
  BY <1>1, <1>2, <1>3, <1>4, GBNAssumption DEF M, SeqNoOf, SeqNos, Succ

\* Positions of one window have different sequence numbers.
LEMMA SeqNoUnique ==
    ASSUME NEW a \in Nat, NEW b \in Nat, SeqNoOf(a) = SeqNoOf(b),
           a <= b + GBN_WINDOW_SIZE, b <= a + GBN_WINDOW_SIZE
    PROVE  a = b
<1>1. M \in Nat /\ M > 0 /\ a % M = b % M /\ a - b < M /\ b - a < M
  BY SeqNoFacts DEF SeqNoOf, M
<1> QED
  BY <1>1, ModUnique

-----------------------------------------------------------------------------
(***************************************************************************)
(* Types.                                                                  *)
(***************************************************************************)

\* The initial state has the types.
LEMMA InitTypeOK == Init => TypeOK
<1> SUFFICES ASSUME Init PROVE TypeOK
  OBVIOUS
<1>1. <<>> \in Seq(Frames) /\ <<>> \in Seq(Acks) /\ <<>> \in Seq(1 .. MaxLen)
  OBVIOUS
<1>2. msglen \in 0 .. MaxLen /\ next_msg_index \in 0 .. msglen /\ premature \in 0 .. MaxPremature
  BY GBNAssumption DEF Init
<1>3. S_f \in SeqNos /\ S_n \in SeqNos /\ expected_seq_no \in SeqNos
  BY GBNAssumption DEF Init, SeqNos
<1>4. Len(pbuffer) <= GBN_WINDOW_SIZE
  BY GBNAssumption DEF Init, GBN_WINDOW_SIZE
<1> QED
  BY <1>1, <1>2, <1>3, <1>4 DEF Init, TypeOK, ConnStates

\* Every step keeps the types.
LEMMA StepTypeOK ==
    ASSUME TypeOK, WindowsAgree, [Next]_vars
    PROVE  TypeOK'
<1> USE GBNAssumption DEF TypeOK, ConnStates
<1>1. CASE SendFrame
  <2> DEFINE pack == [seq_no |-> S_n, data |-> next_msg_index + 1]
  <2>1. pack \in Frames
    BY <1>1 DEF SendFrame, Frames
  <2>2. Succ(S_n) \in SeqNos
    BY DEF Succ, SeqNos
  <2> QED
    BY <1>1, <2>1, <2>2 DEF SendFrame, SpaceInBuffer, GBN_WINDOW_SIZE, receiverVars
<1>2. CASE WindowFilled
  BY <1>2 DEF WindowFilled, receiverVars
<1>3. CASE AcceptAck
  <2>1. PICK n \in 0 .. Len(pbuffer) :
            /\ pbuffer' = SubSeq(pbuffer, n + 1, Len(pbuffer))
            /\ S_f' = (S_f + n) % (MAX_SEQ_NO + 1)
    BY <1>3 DEF AcceptAck
  <2>2. pbuffer' \in Seq(Frames) /\ Len(pbuffer') <= GBN_WINDOW_SIZE
    BY <2>1 DEF GBN_WINDOW_SIZE
  <2>3. S_f' \in SeqNos
    BY <2>1 DEF SeqNos
  <2>4. toSender' \in Seq(Acks)
    BY <1>3 DEF AcceptAck, TakeAck
  <2> QED
    BY <1>3, <2>2, <2>3, <2>4 DEF AcceptAck, TakeAck, receiverVars
<1>4. CASE IgnoreAck \/ CorruptAck
  <2>1. TakeAck /\ UNCHANGED <<pbuffer, S_f>>
    BY <1>4 DEF IgnoreAck, CorruptAck
  <2>2. toSender' \in Seq(Acks)
    BY <2>1 DEF TakeAck
  <2> QED
    BY <2>1, <2>2 DEF TakeAck, receiverVars
<1>5. CASE NoAck
  BY <1>5 DEF NoAck, receiverVars
<1>6. CASE Timeout
  BY <1>6 DEF Timeout, AfterTimer, receiverVars
<1>7. CASE NoTimeout \/ TimerNeverStarted
  BY <1>7 DEF NoTimeout, TimerNeverStarted, AfterTimer, receiverVars
<1>8. CASE Close
  BY <1>8 DEF Close, senderVars, receiverVars
<1>9. CASE InOrderFrame
  <2>1. toReceiver # <<>> /\ Head(toReceiver) \in Frames /\ toReceiver' \in Seq(Frames)
    BY <1>9 DEF InOrderFrame, TakeFrame
  <2>2. Head(toReceiver).data \in 1 .. MaxLen
    BY <2>1 DEF Frames
  <2>3. Succ(expected_seq_no) \in SeqNos
    BY DEF Succ, SeqNos
  <2> QED
    BY <1>9, <2>1, <2>2, <2>3 DEF InOrderFrame, TakeFrame, senderVars
<1>10. CASE OutOfOrderFrame \/ CorruptFrame
  <2>1. /\ TakeFrame
        /\ UNCHANGED <<expected_seq_no, data_recvd>>
        /\ rpc' \in {rpc, "ack"}
    BY <1>10 DEF OutOfOrderFrame, CorruptFrame, receiverVars
  <2>2. toReceiver' \in Seq(Frames)
    BY <2>1 DEF TakeFrame
  <2> QED
    BY <2>1, <2>2 DEF TakeFrame, senderVars
<1>11. CASE SendAck
  <2> DEFINE ack_pkt == [seq_no |-> expected_seq_no, upto |-> Len(data_recvd)]
  <2>1. ack_pkt \in Acks
    BY DEF WindowsAgree, ReceiverWindow, Acks, Base
  <2> QED
    <3>1. toSender' \in Seq(Acks)
      <4>1. toSender' \in {toSender, Append(toSender, ack_pkt)}
        BY <1>11 DEF SendAck
      <4>2. Append(toSender, ack_pkt) \in Seq(Acks)
        BY <2>1
      <4> QED
        BY <4>1, <4>2
    <3>2. rpc' \in {"recv", "left"} /\ conn' \in ConnStates
      BY <1>11 DEF SendAck
    <3> QED
      BY <1>11, <3>1, <3>2 DEF SendAck, senderVars
<1>12. CASE ReadReset \/ ReadEOF
  BY <1>12 DEF ReadReset, ReadEOF, senderVars
<1>13. CASE UNCHANGED vars
  BY <1>13 DEF vars, senderVars, receiverVars
<1> QED
  BY <1>1, <1>2, <1>3, <1>4, <1>5, <1>6, <1>7, <1>8, <1>9, <1>10, <1>11, <1>12, <1>13
     DEF Next, Sender, Receiver, Poll, CheckTimer, SpinAtEOF, Terminated

-----------------------------------------------------------------------------
(***************************************************************************)
(* The windows of the two ends.                                            *)
(***************************************************************************)

\* Nothing is on its way in the initial state.
LEMMA InitWindows == Init => WindowsAgree
<1> SUFFICES ASSUME Init PROVE WindowsAgree
  OBVIOUS
<1>1. Base = 0 /\ Len(data_recvd) = 0 /\ Len(pbuffer) = 0
      /\ Len(toReceiver) = 0 /\ Len(toSender) = 0
  <2>1. Len(<<>>) = 0 /\ 0 - 0 = 0
    OBVIOUS
  <2> QED
    BY <2>1 DEF Init, Base
<1>2. SenderWindow
  BY <1>1, SeqNoFacts DEF Init, SenderWindow
<1>3. ReceiverWindow
  BY <1>1, SeqNoFacts DEF Init, ReceiverWindow
<1>4. FramesInWindow /\ AcksInWindow
  BY <1>1 DEF FramesInWindow, AcksInWindow
<1> QED
  BY <1>2, <1>3, <1>4 DEF WindowsAgree

\* What the lemmas below use of the types.
LEMMA Numbers ==
    ASSUME TypeOK, WindowsAgree
    PROVE  /\ next_msg_index \in Nat /\ Base \in Nat /\ Len(pbuffer) \in Nat
           /\ Len(data_recvd) \in Nat
           /\ next_msg_index = Base + Len(pbuffer)
           /\ Base <= Len(data_recvd) /\ Len(data_recvd) <= next_msg_index
           /\ next_msg_index <= Base + GBN_WINDOW_SIZE
           /\ GBN_WINDOW_SIZE \in Nat
           /\ \A i \in 1 .. Len(toReceiver) : toReceiver[i] \in Frames /\ toReceiver[i].data \in Nat \ {0}
           /\ \A i \in 1 .. Len(toSender) : toSender[i] \in Acks /\ toSender[i].upto \in Nat
<1>1. msglen \in Nat /\ next_msg_index \in Nat /\ Len(pbuffer) \in Nat /\ Len(data_recvd) \in Nat
      /\ GBN_WINDOW_SIZE \in Nat /\ Len(pbuffer) <= GBN_WINDOW_SIZE
  BY GBNAssumption DEF TypeOK, GBN_WINDOW_SIZE
<1>2. \A f \in Frames : f.data \in Nat \ {0}
  BY GBNAssumption DEF Frames
<1>3. \A a \in Acks : a.upto \in Nat
  BY GBNAssumption DEF Acks
<1>4. \A i \in 1 .. Len(toReceiver) : toReceiver[i] \in Frames
  BY DEF TypeOK
<1>5. \A i \in 1 .. Len(toSender) : toSender[i] \in Acks
  BY DEF TypeOK
<1>6. Base \in Nat /\ next_msg_index = Base + Len(pbuffer)
  BY <1>1 DEF WindowsAgree, SenderWindow, Base
<1>7. Len(data_recvd) \in Base .. next_msg_index
  BY DEF WindowsAgree, ReceiverWindow
<1> QED
  BY <1>1, <1>2, <1>3, <1>4, <1>5, <1>6, <1>7

\* Taking a frame off the channel, whatever the receiver makes of it, keeps
\* the others in the window as long as the receiver does not move.
LEMMA TailFrames ==
    ASSUME TypeOK, WindowsAgree, toReceiver # <<>>, toReceiver' = Tail(toReceiver),
           UNCHANGED <<next_msg_index, data_recvd>>
    PROVE  FramesInWindow'
<1>1. Len(toReceiver') = Len(toReceiver) - 1 /\ Len(toReceiver) \in Nat
  BY DEF TypeOK
<1>2. \A i \in 1 .. Len(toReceiver') : toReceiver'[i] = toReceiver[i + 1]
  BY <1>1 DEF TypeOK
<1>3. \A i \in 1 .. Len(toReceiver') : i + 1 \in 1 .. Len(toReceiver)
  BY <1>1
<1>4. FramesInWindow
  BY DEF WindowsAgree
<1> QED
  BY <1>1, <1>2, <1>3, <1>4 DEF FramesInWindow

\* Taking an acknowledgement off the channel, likewise.
LEMMA TailAcks ==
    ASSUME TypeOK, WindowsAgree, toSender # <<>>, toSender' = Tail(toSender),
           UNCHANGED <<next_msg_index, pbuffer, data_recvd>>
    PROVE  AcksInWindow'
<1>1. Len(toSender') = Len(toSender) - 1 /\ Len(toSender) \in Nat
  BY DEF TypeOK
<1>2. \A i \in 1 .. Len(toSender') : toSender'[i] = toSender[i + 1]
  BY <1>1 DEF TypeOK
<1>3. \A i \in 1 .. Len(toSender') : i + 1 \in 1 .. Len(toSender)
  BY <1>1
<1>4. AcksInWindow /\ Base' = Base
  BY DEF WindowsAgree, Base
<1> QED
  BY <1>1, <1>2, <1>3, <1>4 DEF AcksInWindow

\* A new frame goes out at the end of the window.
LEMMA SendFrameWindows ==
    ASSUME TypeOK, WindowsAgree, SendFrame
    PROVE  WindowsAgree'
<1> DEFINE pack == [seq_no |-> S_n, data |-> next_msg_index + 1]
<1>1. /\ toReceiver' = Append(toReceiver, pack) /\ pbuffer' = Append(pbuffer, pack)
      /\ S_n' = Succ(S_n) /\ next_msg_index' = next_msg_index + 1
      /\ UNCHANGED <<S_f, expected_seq_no, data_recvd, toSender>>
  BY DEF SendFrame, receiverVars
<1>2. pack.seq_no = SeqNoOf(next_msg_index) /\ pack.data = next_msg_index + 1
  BY DEF WindowsAgree, SenderWindow
<1> HIDE DEF pack
<1>3. /\ Len(pbuffer') = Len(pbuffer) + 1
      /\ \A i \in 1 .. Len(pbuffer') :
             pbuffer'[i] = IF i <= Len(pbuffer) THEN pbuffer[i] ELSE pack
  BY <1>1 DEF TypeOK
<1>4. /\ Len(toReceiver') = Len(toReceiver) + 1 /\ Len(toReceiver) \in Nat
      /\ \A i \in 1 .. Len(toReceiver') :
             toReceiver'[i] = IF i <= Len(toReceiver) THEN toReceiver[i] ELSE pack
  BY <1>1 DEF TypeOK
<1>5. Base' = Base
  <2>1. next_msg_index' - Len(pbuffer') = next_msg_index - Len(pbuffer)
    <3>1. next_msg_index \in Nat /\ Len(pbuffer) \in Nat
      BY Numbers
    <3>2. next_msg_index' = next_msg_index + 1 /\ Len(pbuffer') = Len(pbuffer) + 1
      BY <1>1, <1>3
    <3> QED
      BY <3>1, <3>2
  <2> QED
    BY <2>1 DEF Base
<1>6. SenderWindow'
  <2>1. S_n' = SeqNoOf(next_msg_index')
    BY <1>1, Numbers, SeqNoFacts DEF WindowsAgree, SenderWindow
  <2>2. ASSUME NEW i \in 1 .. Len(pbuffer')
        PROVE  pbuffer'[i] = [seq_no |-> SeqNoOf(Base + i - 1), data |-> Base + i]
    <3>1. CASE i <= Len(pbuffer)
      <4>1. i \in 1 .. Len(pbuffer) /\ pbuffer'[i] = pbuffer[i]
        BY <3>1, <1>3, Numbers
      <4> QED
        BY <4>1 DEF WindowsAgree, SenderWindow
    <3>2. CASE i = Len(pbuffer) + 1
      <4>1. pbuffer'[i] = pack /\ Base + i - 1 = next_msg_index /\ Base + i = next_msg_index + 1
        BY <3>2, <1>3, Numbers
      <4> QED
        BY <4>1, <1>2 DEF pack
    <3> QED
      BY <3>1, <3>2, <1>3, Numbers
  <2> QED
    BY <1>1, <1>5, <2>1, <2>2 DEF WindowsAgree, SenderWindow
<1>7. ReceiverWindow'
  BY <1>1, <1>5, Numbers DEF WindowsAgree, ReceiverWindow
<1>8. FramesInWindow'
  <2>1. ASSUME NEW i \in 1 .. Len(toReceiver')
        PROVE  /\ toReceiver'[i].seq_no = SeqNoOf(toReceiver'[i].data - 1)
               /\ toReceiver'[i].data <= next_msg_index'
               /\ Len(data_recvd) < toReceiver'[i].data + GBN_WINDOW_SIZE
    BY <1>1, <1>2, <1>4, Numbers DEF WindowsAgree, FramesInWindow
  <2>2. ASSUME NEW i \in 1 .. Len(toReceiver'), NEW j \in 1 .. Len(toReceiver'), i < j
        PROVE  toReceiver'[i].data < toReceiver'[j].data + GBN_WINDOW_SIZE
    <3>1. i \in 1 .. Len(toReceiver) /\ toReceiver'[i] = toReceiver[i]
      BY <2>2, <1>4
    <3>2. CASE j \in 1 .. Len(toReceiver)
      <4>1. toReceiver'[j] = toReceiver[j]
        BY <3>2, <1>4
      <4> QED
        BY <3>1, <3>2, <4>1, <2>2 DEF WindowsAgree, FramesInWindow
    <3>3. CASE j = Len(toReceiver) + 1
      <4>1. toReceiver'[j].data = next_msg_index + 1
        BY <3>3, <1>2, <1>4
      <4>2. toReceiver[i].data <= next_msg_index /\ toReceiver[i].data \in Nat
        BY <3>1, Numbers DEF WindowsAgree, FramesInWindow
      <4> QED
        BY <3>1, <4>1, <4>2, Numbers
    <3> QED
      BY <3>2, <3>3, <1>4
  <2> QED
    BY <1>1, <2>1, <2>2 DEF FramesInWindow
<1>9. AcksInWindow'
  BY <1>1, <1>5 DEF WindowsAgree, AcksInWindow
<1> QED
  BY <1>6, <1>7, <1>8, <1>9 DEF WindowsAgree

\* An acknowledgement moves the window to what it acknowledges, and the
\* frames that stay are the frames from there on.
LEMMA AcceptAckMoves ==
    ASSUME TypeOK, WindowsAgree, AcceptAck
    PROVE  /\ Base' = Head(toSender).upto
           /\ Head(toSender).upto \in Base .. Len(data_recvd)
           /\ SenderWindow'
<1> DEFINE u == Head(toSender).upto
           ack_no == Head(toSender).seq_no
           L == Len(pbuffer)
<1>1. toSender # <<>> /\ Head(toSender) = toSender[1] /\ 1 \in 1 .. Len(toSender)
  BY DEF AcceptAck, TakeAck, TypeOK
<1>2. /\ ack_no = SeqNoOf(u) /\ u \in Nat
      /\ Base <= u /\ u <= Len(data_recvd) /\ u <= Base + L /\ L <= GBN_WINDOW_SIZE
  <2>1. /\ toSender[1].seq_no = SeqNoOf(toSender[1].upto)
        /\ toSender[1].upto \in Base .. Len(data_recvd)
    BY <1>1 DEF WindowsAgree, AcksInWindow
  <2> QED
    BY <2>1, <1>1, Numbers
<1>3. PICK n \in 0 .. L :
        /\ \A i \in 1 .. n : pbuffer[i].seq_no # ack_no
        /\ n < L => pbuffer[n + 1].seq_no = ack_no
        /\ pbuffer' = SubSeq(pbuffer, n + 1, L)
        /\ S_f' = (S_f + n) % (MAX_SEQ_NO + 1)
  BY DEF AcceptAck
<1>4. UNCHANGED <<next_msg_index, S_n>>
  BY DEF AcceptAck, TakeAck
<1> HIDE DEF ack_no, u, L
<1>5. ASSUME NEW i \in 1 .. L
      PROVE  pbuffer[i].seq_no = SeqNoOf(Base + i - 1)
  <2>1. pbuffer[i] = [seq_no |-> SeqNoOf(Base + i - 1), data |-> Base + i]
    BY DEF WindowsAgree, SenderWindow, L
  <2> QED
    BY <2>1
<1>6. L \in Nat /\ Base \in Nat /\ GBN_WINDOW_SIZE \in Nat /\ next_msg_index = Base + L
  BY Numbers DEF L
<1>7. n = u - Base
  <2>1. CASE n < u - Base
    <3>1. n < L /\ n + 1 \in 1 .. L
      BY <2>1, <1>2, <1>6
    <3>2. SeqNoOf(Base + n) = SeqNoOf(u)
      BY <3>1, <1>2, <1>3, <1>5, <1>6
    <3>3. /\ Base + n \in Nat
          /\ Base + n <= u + GBN_WINDOW_SIZE /\ u <= (Base + n) + GBN_WINDOW_SIZE
      BY <1>2, <1>6, <2>1
    <3>4. Base + n = u
      BY <3>2, <3>3, <1>2, SeqNoUnique
    <3> QED
      BY <3>4, <2>1, <1>2, <1>6
  <2>2. CASE n > u - Base
    <3>1. u - Base + 1 \in 1 .. n /\ u - Base + 1 \in 1 .. L
      BY <2>2, <1>2, <1>6
    <3>2. pbuffer[u - Base + 1].seq_no # ack_no
      BY <3>1, <1>3
    <3>3. pbuffer[u - Base + 1].seq_no = SeqNoOf(Base + (u - Base + 1) - 1)
      BY <3>1, <1>5
    <3>4. Base + (u - Base + 1) - 1 = u
      BY <1>2, <1>6
    <3> QED
      BY <3>2, <3>3, <3>4, <1>2
  <2> QED
    BY <2>1, <2>2, <1>2, <1>6
<1>8. /\ Len(pbuffer') = L - n
      /\ \A i \in 1 .. L - n : pbuffer'[i] = pbuffer[i + n]
  <2>1. pbuffer \in Seq(Frames) /\ L = Len(pbuffer)
    BY DEF TypeOK, L
  <2> QED
    BY <2>1, <1>3, <1>6
<1>9. Base' = u
  <2>1. next_msg_index - Len(pbuffer') = u
    BY <1>2, <1>6, <1>7, <1>8
  <2> QED
    BY <2>1, <1>4 DEF Base
<1>10. SenderWindow'
  <2>1. S_f' = SeqNoOf(u)
    <3>1. S_f = Base % M /\ M \in Nat /\ M > 0 /\ n <= M /\ n \in Nat
      <4>1. S_f = Base % M
        BY DEF WindowsAgree, SenderWindow, SeqNoOf, M
      <4>2. M \in Nat /\ M > 0 /\ GBN_WINDOW_SIZE <= M
        BY SeqNoFacts
      <4> QED
        BY <4>1, <4>2, <1>2, <1>6
    <3>2. (S_f + n) % M = (Base + n) % M
      BY <3>1, <1>6, ModShift, Zenon
    <3>3. Base + n = u
      BY <1>2, <1>6, <1>7
    <3> QED
      BY <3>2, <3>3, <1>3 DEF SeqNoOf, M
  <2>2. S_n' = SeqNoOf(next_msg_index')
    BY <1>4 DEF WindowsAgree, SenderWindow
  <2>3. ASSUME NEW i \in 1 .. Len(pbuffer')
        PROVE  pbuffer'[i] = [seq_no |-> SeqNoOf(u + i - 1), data |-> u + i]
    <3>1. i + n \in 1 .. L /\ pbuffer'[i] = pbuffer[i + n] /\ i \in Nat
      BY <1>8, <1>6
    <3>2. pbuffer[i + n] = [seq_no |-> SeqNoOf(Base + (i + n) - 1), data |-> Base + (i + n)]
      BY <3>1 DEF WindowsAgree, SenderWindow, L
    <3>3. Base + (i + n) = u + i /\ Base + (i + n) - 1 = u + i - 1
      BY <3>1, <1>2, <1>6, <1>7
    <3> QED
      BY <3>1, <3>2, <3>3
  <2> QED
    BY <1>2, <1>9, <2>1, <2>2, <2>3 DEF SenderWindow
<1> QED
  BY <1>2, <1>9, <1>10 DEF u

\* Acknowledgements behind the accepted one acknowledge no less.
LEMMA AcceptAckWindows ==
    ASSUME TypeOK, WindowsAgree, AcceptAck
    PROVE  WindowsAgree'
<1>1. UNCHANGED <<next_msg_index, S_n, expected_seq_no, data_recvd, toReceiver>>
      /\ toSender # <<>> /\ toSender' = Tail(toSender)
  BY DEF AcceptAck, TakeAck, receiverVars
<1>2. ReceiverWindow'
  BY <1>1, AcceptAckMoves, Numbers DEF WindowsAgree, ReceiverWindow
<1>3. FramesInWindow'
  BY <1>1 DEF WindowsAgree, FramesInWindow
<1>4. AcksInWindow'
  <2>1. Len(toSender') = Len(toSender) - 1 /\ Len(toSender) \in Nat
    BY <1>1 DEF TypeOK
  <2>2. \A i \in 1 .. Len(toSender') : toSender'[i] = toSender[i + 1]
    BY <1>1, <2>1 DEF TypeOK
  <2>3. \A i \in 1 .. Len(toSender') : i + 1 \in 1 .. Len(toSender)
    BY <2>1
  <2>4. \A i \in 1 .. Len(toSender) : toSender[1].upto <= toSender[i].upto
    <3>1. TAKE i \in 1 .. Len(toSender)
    <3>2. toSender[1].upto \in Nat
      BY Numbers
    <3>3. CASE i = 1
      BY <3>2, <3>3
    <3>4. CASE 1 < i
      BY <3>4 DEF WindowsAgree, AcksInWindow
    <3> QED
      BY <3>3, <3>4
  <2>5. Base' = toSender[1].upto
    BY <1>1, AcceptAckMoves DEF TypeOK
  <2>6. ASSUME NEW i \in 1 .. Len(toSender')
        PROVE  /\ toSender'[i].seq_no = SeqNoOf(toSender'[i].upto)
               /\ toSender'[i].upto \in Base' .. Len(data_recvd)'
    <3>1. toSender[i + 1].upto \in Base .. Len(data_recvd)
          /\ toSender[i + 1].seq_no = SeqNoOf(toSender[i + 1].upto)
      BY <2>3 DEF WindowsAgree, AcksInWindow
    <3>2. toSender[1].upto <= toSender[i + 1].upto /\ toSender[1].upto \in Nat
      BY <2>3, <2>4, Numbers
    <3> QED
      BY <3>1, <3>2, <2>2, <2>5, <1>1, Numbers
  <2>7. \A i, j \in 1 .. Len(toSender') : i < j => toSender'[i].upto <= toSender'[j].upto
    BY <2>1, <2>2, <2>3, SMTT(30) DEF WindowsAgree, AcksInWindow
  <2> QED
    BY <2>6, <2>7 DEF AcksInWindow
<1> QED
  BY <1>2, <1>3, <1>4, AcceptAckMoves DEF WindowsAgree

\* The resent window is as old as a window can be, and no older.
LEMMA TimeoutWindows ==
    ASSUME TypeOK, WindowsAgree, Timeout
    PROVE  WindowsAgree'
<1>1. /\ toReceiver' = toReceiver \o pbuffer
      /\ UNCHANGED <<next_msg_index, pbuffer, S_f, S_n, expected_seq_no, data_recvd, toSender>>
  BY DEF Timeout, receiverVars
<1>2. Base' = Base
  BY <1>1 DEF Base
<1>3. SenderWindow' /\ ReceiverWindow' /\ AcksInWindow'
  BY <1>1, <1>2 DEF WindowsAgree, SenderWindow, ReceiverWindow, AcksInWindow
<1> DEFINE L == Len(toReceiver)
           K == Len(pbuffer)
<1>4. /\ L \in Nat /\ K \in Nat /\ Len(toReceiver') = L + K
      /\ \A i \in 1 .. L + K :
             toReceiver'[i] = IF i <= L THEN toReceiver[i] ELSE pbuffer[i - L]
  BY <1>1 DEF TypeOK
<1> HIDE DEF L, K
<1>5. ASSUME NEW i \in 1 .. L
      PROVE  /\ toReceiver[i].seq_no = SeqNoOf(toReceiver[i].data - 1)
             /\ toReceiver[i].data <= next_msg_index
             /\ Len(data_recvd) < toReceiver[i].data + GBN_WINDOW_SIZE
  BY DEF WindowsAgree, FramesInWindow, L
<1>6. ASSUME NEW i \in 1 .. K
      PROVE  /\ pbuffer[i].seq_no = SeqNoOf(pbuffer[i].data - 1)
             /\ pbuffer[i].data = Base + i
  <2>1. pbuffer[i] = [seq_no |-> SeqNoOf(Base + i - 1), data |-> Base + i]
    BY DEF WindowsAgree, SenderWindow, K
  <2>2. pbuffer[i].data = Base + i /\ pbuffer[i].seq_no = SeqNoOf(Base + i - 1)
    BY <2>1
  <2>3. Base + i - 1 = (Base + i) - 1
    BY Numbers
  <2> QED
    BY <2>2, <2>3
<1>7. K <= GBN_WINDOW_SIZE /\ next_msg_index = Base + K
      /\ Base \in Nat /\ GBN_WINDOW_SIZE \in Nat
      /\ Len(data_recvd) \in Nat /\ Len(data_recvd) <= next_msg_index
  BY Numbers DEF K
<1>8. \A i \in 1 .. L : toReceiver[i].data \in Nat
  BY Numbers DEF L
<1>9. ASSUME NEW i \in 1 .. Len(toReceiver')
      PROVE  /\ toReceiver'[i].seq_no = SeqNoOf(toReceiver'[i].data - 1)
             /\ toReceiver'[i].data <= next_msg_index
             /\ Len(data_recvd) < toReceiver'[i].data + GBN_WINDOW_SIZE
  <2>1. CASE i <= L
    BY <2>1, <1>4, <1>5
  <2>2. CASE i > L
    <3>1. i - L \in 1 .. K /\ toReceiver'[i] = pbuffer[i - L]
      BY <2>2, <1>4
    <3>2. /\ toReceiver'[i].data = Base + (i - L)
          /\ toReceiver'[i].seq_no = SeqNoOf(toReceiver'[i].data - 1)
      BY <3>1, <1>6
    <3> QED
      BY <3>1, <3>2, <1>4, <1>7
  <2> QED
    BY <2>1, <2>2, <1>4
<1>10. ASSUME NEW i \in 1 .. Len(toReceiver'), NEW j \in 1 .. Len(toReceiver'), i < j
       PROVE  toReceiver'[i].data < toReceiver'[j].data + GBN_WINDOW_SIZE
  <2>1. CASE j <= L
    <3>1. /\ i \in 1 .. L /\ j \in 1 .. L
          /\ toReceiver'[i] = toReceiver[i] /\ toReceiver'[j] = toReceiver[j]
      BY <2>1, <1>10, <1>4
    <3> QED
      BY <3>1, <1>10 DEF WindowsAgree, FramesInWindow, L
  <2>2. CASE i <= L /\ j > L
    <3>1. /\ i \in 1 .. L /\ j - L \in 1 .. K
          /\ toReceiver'[i] = toReceiver[i] /\ toReceiver'[j] = pbuffer[j - L]
      BY <2>2, <1>4
    <3>2. toReceiver'[i].data <= next_msg_index /\ toReceiver'[i].data \in Nat
      BY <3>1, <1>5, <1>8
    <3>3. toReceiver'[j].data = Base + (j - L)
      BY <3>1, <1>6
    <3> QED
      BY <3>1, <3>2, <3>3, <1>4, <1>7
  <2>3. CASE i > L
    <3>1. /\ i - L \in 1 .. K /\ j - L \in 1 .. K
          /\ toReceiver'[i] = pbuffer[i - L] /\ toReceiver'[j] = pbuffer[j - L]
      BY <2>3, <1>10, <1>4
    <3>2. toReceiver'[i].data = Base + (i - L) /\ toReceiver'[j].data = Base + (j - L)
      BY <3>1, <1>6
    <3> QED
      BY <3>1, <3>2, <1>4, <1>7, <1>10
  <2> QED
    BY <2>1, <2>2, <2>3, <1>4
<1>11. FramesInWindow'
  BY <1>1, <1>9, <1>10 DEF FramesInWindow
<1> QED
  BY <1>3, <1>11 DEF WindowsAgree

\* A frame on its way that has the expected number is the expected frame.
LEMMA ExpectedFrame ==
    ASSUME TypeOK, WindowsAgree, NEW i \in 1 .. Len(toReceiver),
           toReceiver[i].seq_no = expected_seq_no
    PROVE  toReceiver[i].data = Len(data_recvd) + 1
<1>1. /\ toReceiver[i].seq_no = SeqNoOf(toReceiver[i].data - 1)
      /\ toReceiver[i].data <= next_msg_index
      /\ Len(data_recvd) < toReceiver[i].data + GBN_WINDOW_SIZE
  BY DEF WindowsAgree, FramesInWindow
<1>2. expected_seq_no = SeqNoOf(Len(data_recvd))
  BY DEF WindowsAgree, ReceiverWindow
<1>3. /\ toReceiver[i].data - 1 \in Nat /\ Len(data_recvd) \in Nat
      /\ toReceiver[i].data - 1 <= Len(data_recvd) + GBN_WINDOW_SIZE
      /\ Len(data_recvd) <= (toReceiver[i].data - 1) + GBN_WINDOW_SIZE
  BY <1>1, Numbers
<1>4. toReceiver[i].data - 1 = Len(data_recvd)
  BY <1>1, <1>2, <1>3, SeqNoUnique
<1> QED
  BY <1>3, <1>4, Numbers, SMTT(30)

\* The receiver takes the next character and no other.
LEMMA InOrderFrameWindows ==
    ASSUME TypeOK, WindowsAgree, InOrderFrame
    PROVE  /\ WindowsAgree'
           /\ data_recvd' = Append(data_recvd, Len(data_recvd) + 1)
           /\ Len(data_recvd) < next_msg_index
<1> DEFINE D == Len(data_recvd)
<1>1. /\ toReceiver # <<>> /\ toReceiver' = Tail(toReceiver)
      /\ Head(toReceiver) = toReceiver[1] /\ 1 \in 1 .. Len(toReceiver)
      /\ toReceiver[1].seq_no = expected_seq_no
      /\ expected_seq_no' = Succ(expected_seq_no)
      /\ data_recvd' = Append(data_recvd, toReceiver[1].data)
      /\ UNCHANGED <<next_msg_index, pbuffer, S_f, S_n, toSender>>
  BY DEF InOrderFrame, TakeFrame, senderVars, TypeOK
<1>2. toReceiver[1].data = D + 1
  BY <1>1, ExpectedFrame
<1>3. D < next_msg_index /\ D \in Nat
  <2>1. toReceiver[1].data <= next_msg_index
    BY <1>1 DEF WindowsAgree, FramesInWindow
  <2> QED
    BY <2>1, <1>2, Numbers
<1>4. data_recvd' = Append(data_recvd, D + 1)
  BY <1>1, <1>2
<1>5. /\ Len(data_recvd') = D + 1
      /\ \A i \in 1 .. D + 1 : data_recvd'[i] = IF i <= D THEN data_recvd[i] ELSE D + 1
  BY <1>4, <1>3 DEF TypeOK
<1>6. Base' = Base
  BY <1>1 DEF Base
<1>7. SenderWindow'
  BY <1>1, <1>6 DEF WindowsAgree, SenderWindow
<1> HIDE DEF D
<1>8. ReceiverWindow'
  <2>1. D + 1 \in Base .. next_msg_index
    BY <1>3, Numbers DEF D
  <2>2. Succ(expected_seq_no) = SeqNoOf(D + 1)
    BY <1>3, SeqNoFacts DEF WindowsAgree, ReceiverWindow, D
  <2>3. \A i \in 1 .. D + 1 : data_recvd'[i] = i
    <3> TAKE i \in 1 .. D + 1
    <3>1. CASE i <= D
      BY <3>1, <1>5, <1>3 DEF WindowsAgree, ReceiverWindow, D
    <3>2. CASE i = D + 1
      BY <3>2, <1>5, <1>3
    <3> QED
      BY <3>1, <3>2, <1>3
  <2> QED
    BY <2>1, <2>2, <2>3, <1>1, <1>5, <1>6 DEF ReceiverWindow
<1>9. FramesInWindow'
  <2>1. Len(toReceiver') = Len(toReceiver) - 1 /\ Len(toReceiver) \in Nat
    BY <1>1 DEF TypeOK
  <2>2. \A i \in 1 .. Len(toReceiver') : toReceiver'[i] = toReceiver[i + 1]
    BY <1>1, <2>1 DEF TypeOK
  <2>3. \A i \in 1 .. Len(toReceiver') : i + 1 \in 1 .. Len(toReceiver) /\ 1 < i + 1
    BY <2>1
  <2>4. ASSUME NEW i \in 1 .. Len(toReceiver')
        PROVE  /\ toReceiver'[i].seq_no = SeqNoOf(toReceiver'[i].data - 1)
               /\ toReceiver'[i].data <= next_msg_index
               /\ D + 1 < toReceiver'[i].data + GBN_WINDOW_SIZE
    <3>1. toReceiver[1].data < toReceiver[i + 1].data + GBN_WINDOW_SIZE
      BY <1>1, <2>3 DEF WindowsAgree, FramesInWindow
    <3>2. /\ toReceiver[i + 1].seq_no = SeqNoOf(toReceiver[i + 1].data - 1)
          /\ toReceiver[i + 1].data <= next_msg_index
      BY <2>3 DEF WindowsAgree, FramesInWindow
    <3> QED
      BY <3>1, <3>2, <1>2, <2>2
  <2>5. \A i, j \in 1 .. Len(toReceiver') :
            i < j => toReceiver'[i].data < toReceiver'[j].data + GBN_WINDOW_SIZE
    BY <2>1, <2>2, <2>3 DEF WindowsAgree, FramesInWindow
  <2> QED
    BY <2>4, <2>5, <1>1, <1>5 DEF FramesInWindow
<1>10. AcksInWindow'
  BY <1>1, <1>3, <1>5, <1>6, Numbers DEF WindowsAgree, AcksInWindow, D
<1> QED
  BY <1>3, <1>4, <1>7, <1>8, <1>9, <1>10 DEF WindowsAgree, D

\* The receiver acknowledges what it has, which is no less than it ever had.
LEMMA SendAckWindows ==
    ASSUME TypeOK, WindowsAgree, SendAck
    PROVE  WindowsAgree'
<1> DEFINE ack_pkt == [seq_no |-> expected_seq_no, upto |-> Len(data_recvd)]
<1>1. /\ UNCHANGED <<next_msg_index, pbuffer, S_f, S_n, expected_seq_no, data_recvd, toReceiver>>
      /\ toSender' \in {toSender, Append(toSender, ack_pkt)}
  BY DEF SendAck, senderVars
<1>2. Base' = Base
  BY <1>1 DEF Base
<1>3. SenderWindow' /\ ReceiverWindow' /\ FramesInWindow'
  BY <1>1, <1>2 DEF WindowsAgree, SenderWindow, ReceiverWindow, FramesInWindow
<1>4. AcksInWindow
  BY DEF WindowsAgree
<1>5. CASE toSender' = toSender
  BY <1>1, <1>2, <1>3, <1>4, <1>5 DEF WindowsAgree, AcksInWindow
<1>6. CASE toSender' = Append(toSender, ack_pkt)
  <2>1. /\ ack_pkt.upto = Len(data_recvd) /\ ack_pkt.seq_no = SeqNoOf(ack_pkt.upto)
        /\ ack_pkt.upto \in Base .. Len(data_recvd)
    BY Numbers DEF WindowsAgree, ReceiverWindow
  <2> HIDE DEF ack_pkt
  <2>2. /\ Len(toSender) \in Nat /\ Len(toSender') = Len(toSender) + 1
        /\ \A i \in 1 .. Len(toSender') :
               toSender'[i] = IF i <= Len(toSender) THEN toSender[i] ELSE ack_pkt
    BY <1>6 DEF TypeOK
  <2>3. ASSUME NEW i \in 1 .. Len(toSender')
        PROVE  /\ toSender'[i].seq_no = SeqNoOf(toSender'[i].upto)
               /\ toSender'[i].upto \in Base .. Len(data_recvd)
    BY <1>4, <2>1, <2>2 DEF AcksInWindow
  <2>4. ASSUME NEW i \in 1 .. Len(toSender'), NEW j \in 1 .. Len(toSender'), i < j
        PROVE  toSender'[i].upto <= toSender'[j].upto
    <3>1. i \in 1 .. Len(toSender) /\ toSender'[i] = toSender[i]
      BY <2>4, <2>2
    <3>2. CASE j \in 1 .. Len(toSender)
      <4>1. toSender'[j] = toSender[j]
        BY <3>2, <2>2
      <4> QED
        BY <3>1, <3>2, <4>1, <2>4, <1>4 DEF AcksInWindow
    <3>3. CASE j = Len(toSender) + 1
      <4>1. toSender'[j].upto = Len(data_recvd)
        BY <3>3, <2>1, <2>2
      <4>2. toSender[i].upto <= Len(data_recvd)
        BY <3>1, <1>4, Numbers DEF AcksInWindow
      <4> QED
        BY <3>1, <4>1, <4>2
    <3> QED
      BY <3>2, <3>3, <2>2
  <2> QED
    BY <1>1, <1>2, <1>3, <2>3, <2>4 DEF WindowsAgree, AcksInWindow
<1> QED
  BY <1>1, <1>5, <1>6

\* Every step keeps the windows.
LEMMA StepWindows ==
    ASSUME TypeOK, WindowsAgree, [Next]_vars
    PROVE  WindowsAgree'
<1>1. CASE SendFrame
  BY <1>1, SendFrameWindows
<1>2. CASE AcceptAck
  BY <1>2, AcceptAckWindows
<1>3. CASE Timeout
  BY <1>3, TimeoutWindows
<1>4. CASE InOrderFrame
  BY <1>4, InOrderFrameWindows
<1>5. CASE SendAck
  BY <1>5, SendAckWindows
<1>6. CASE IgnoreAck \/ CorruptAck
  <2>1. /\ UNCHANGED <<next_msg_index, pbuffer, S_f, S_n, expected_seq_no, data_recvd, toReceiver>>
        /\ toSender # <<>> /\ toSender' = Tail(toSender)
    BY <1>6 DEF IgnoreAck, CorruptAck, TakeAck, receiverVars
  <2>2. AcksInWindow'
    BY <2>1, TailAcks
  <2>3. SenderWindow' /\ ReceiverWindow' /\ FramesInWindow'
    BY <2>1 DEF WindowsAgree, SenderWindow, ReceiverWindow, FramesInWindow, Base
  <2> QED
    BY <2>2, <2>3 DEF WindowsAgree
<1>7. CASE OutOfOrderFrame \/ CorruptFrame
  <2>1. /\ UNCHANGED <<next_msg_index, pbuffer, S_f, S_n, expected_seq_no, data_recvd, toSender>>
        /\ toReceiver # <<>> /\ toReceiver' = Tail(toReceiver)
    BY <1>7 DEF OutOfOrderFrame, CorruptFrame, TakeFrame, senderVars, receiverVars
  <2>2. FramesInWindow'
    BY <2>1, TailFrames
  <2>3. SenderWindow' /\ ReceiverWindow' /\ AcksInWindow'
    BY <2>1 DEF WindowsAgree, SenderWindow, ReceiverWindow, AcksInWindow, Base
  <2> QED
    BY <2>2, <2>3 DEF WindowsAgree
<1>8. CASE Close
  <2>1. /\ UNCHANGED <<next_msg_index, pbuffer, S_f, S_n, expected_seq_no, data_recvd, toReceiver>>
        /\ Len(toSender') = 0
    BY <1>8 DEF Close, senderVars, receiverVars
  <2> QED
    BY <2>1 DEF WindowsAgree, SenderWindow, ReceiverWindow, FramesInWindow, AcksInWindow, Base
<1>9. ASSUME UNCHANGED <<next_msg_index, pbuffer, S_f, S_n, expected_seq_no, data_recvd,
                         toReceiver, toSender>>
      PROVE  WindowsAgree'
  BY <1>9 DEF WindowsAgree, SenderWindow, ReceiverWindow, FramesInWindow, AcksInWindow, Base
<1>10. CASE WindowFilled \/ NoAck \/ NoTimeout \/ TimerNeverStarted \/ ReadReset \/ ReadEOF
  BY <1>9, <1>10
     DEF WindowFilled, NoAck, NoTimeout, TimerNeverStarted, ReadReset, ReadEOF,
         senderVars, receiverVars
<1>11. CASE UNCHANGED vars
  BY <1>9, <1>11 DEF vars, senderVars, receiverVars
<1> QED
  BY <1>1, <1>2, <1>3, <1>4, <1>5, <1>6, <1>7, <1>8, <1>10, <1>11
     DEF Next, Sender, Receiver, Poll, CheckTimer, SpinAtEOF, Terminated

-----------------------------------------------------------------------------
(***************************************************************************)
(* The timer.  Inductive: the timer runs from the first frame on, and the  *)
(* inner loop is left without a frame only when there is nothing to send;   *)
(* has_timeout_occured fails only before the first frame.                  *)
(***************************************************************************)
TimerInv ==
    /\ next_msg_index > 0 => timer_running
    /\ spc # "fill" /\ next_msg_index = 0 => msglen = 0
    /\ spc = "failed" => next_msg_index = 0

\* Every step keeps it.
LEMMA StepTimer ==
    ASSUME TypeOK, WindowsAgree, TimerInv, [Next]_vars
    PROVE  TimerInv'
<1> USE DEF TimerInv
<1>1. CASE SendFrame
  BY <1>1, Numbers DEF SendFrame
<1>2. CASE WindowFilled
  <2>1. next_msg_index = 0 => Len(pbuffer) = 0 /\ ~ (next_msg_index < msglen)
    BY <1>2, Numbers, SeqNoFacts DEF WindowFilled, SpaceInBuffer
  <2> QED
    BY <1>2, <2>1, GBNAssumption DEF WindowFilled, TypeOK
<1>3. CASE AcceptAck \/ IgnoreAck \/ CorruptAck
  BY <1>3 DEF AcceptAck, IgnoreAck, CorruptAck, TakeAck
<1>4. CASE NoAck \/ Timeout \/ NoTimeout \/ TimerNeverStarted
  BY <1>4 DEF NoAck, Timeout, NoTimeout, TimerNeverStarted, AfterTimer, TypeOK
<1>5. CASE UNCHANGED senderVars
  BY <1>5 DEF senderVars
<1>6. CASE Close \/ Receiver \/ Terminated \/ UNCHANGED vars
  BY <1>5, <1>6
     DEF Close, Receiver, InOrderFrame, OutOfOrderFrame, CorruptFrame, TakeFrame, SendAck,
         ReadReset, ReadEOF, SpinAtEOF, Terminated, vars
<1> QED
  BY <1>1, <1>2, <1>3, <1>4, <1>6 DEF Next, Sender, Poll, CheckTimer

-----------------------------------------------------------------------------
(***************************************************************************)
(* The backlog.  What travels is measured against the frames that are not  *)
(* acknowledged yet.  A new frame adds to both.  An acknowledgement of n   *)
(* frames takes n off the latter, but then the n - 1 acknowledgements      *)
(* before it have been thrown away, which were travelling too.  So the     *)
(* sum is right if the window is counted from the last acknowledgement     *)
(* taken off the connection, thrown away or not: from "last".              *)
(***************************************************************************)
InReceiver == IF rpc = "ack" THEN 1 ELSE 0
Travelling == Len(toReceiver) + Len(toSender) + InReceiver

UptoFrom(last, i) == IF i = 0 THEN last ELSE toSender[i].upto

\* Each acknowledgement is for at most one frame more than the one before it.
AckChain(last) ==
    /\ \A i \in 1 .. Len(toSender) :
           UptoFrom(last, i) \in UptoFrom(last, i - 1) .. UptoFrom(last, i - 1) + 1
    /\ LET newest == UptoFrom(last, Len(toSender))
       IN  Len(data_recvd) \in newest .. newest + InReceiver

(***************************************************************************)
(* What travels beyond the frames from last on is less than a window for   *)
(* the first timeout and one for each that came too early.  It is all of   *)
(* that only while a whole window, which the receiver has, waits for its   *)
(* acknowledgement to get through.                                         *)
(***************************************************************************)
Surplus(last) == Travelling - (next_msg_index - last)
Windows == (1 + premature) * GBN_WINDOW_SIZE
PaidFor(last) ==
    \/ Surplus(last) <= Windows - 1
    \/ /\ Surplus(last) = Windows
       /\ last = next_msg_index /\ Len(pbuffer) = GBN_WINDOW_SIZE

AllPaidFor == \E last \in Base .. Len(data_recvd) : AckChain(last) /\ PaidFor(last)

BacklogInv ==
    /\ conn = "open" => rpc \in {"recv", "ack"} /\ AllPaidFor
    /\ conn # "open" => /\ spc \in {"done", "failed"}
                        /\ Travelling <= (2 + premature) * GBN_WINDOW_SIZE - 1

\* The numbers in these definitions.
LEMMA BacklogNumbers ==
    ASSUME TypeOK
    PROVE  /\ GBN_WINDOW_SIZE \in Nat /\ GBN_WINDOW_SIZE >= 1 /\ premature \in Nat
           /\ Windows \in Nat /\ Windows >= GBN_WINDOW_SIZE
           /\ (2 + premature) * GBN_WINDOW_SIZE = Windows + GBN_WINDOW_SIZE
           /\ Len(toReceiver) \in Nat /\ Len(toSender) \in Nat /\ InReceiver \in {0, 1}
           /\ Travelling \in Nat
<1>1. GBN_WINDOW_SIZE \in Nat /\ GBN_WINDOW_SIZE >= 1 /\ premature \in Nat
  BY GBNAssumption DEF TypeOK, GBN_WINDOW_SIZE
<1>2. ASSUME NEW g \in Nat, NEW p \in Nat
      PROVE  /\ (1 + p) * g \in Nat /\ (1 + p) * g >= g
             /\ (2 + p) * g = (1 + p) * g + g
  <2>1. (1 + p) * g = g + p * g /\ (2 + p) * g = 2 * g + p * g /\ p * g \in Nat
    OBVIOUS
  <2> QED
    BY <2>1
<1>3. Len(toReceiver) \in Nat /\ Len(toSender) \in Nat /\ InReceiver \in {0, 1}
  BY DEF TypeOK, InReceiver
<1> QED
  BY <1>1, <1>2, <1>3 DEF Windows, Travelling

\* It means the bound.
LEMMA PaidForBounds ==
    ASSUME TypeOK, WindowsAgree, AllPaidFor
    PROVE  Travelling <= (2 + premature) * GBN_WINDOW_SIZE - 1
<1>1. PICK last \in Base .. Len(data_recvd) : PaidFor(last)
  BY DEF AllPaidFor
<1>2. last \in Nat /\ last <= next_msg_index /\ next_msg_index - last <= GBN_WINDOW_SIZE
  BY Numbers
<1>3. PICK g \in Nat, w \in Nat, t \in Nat :
          /\ g = GBN_WINDOW_SIZE /\ w = Windows /\ t = Travelling /\ g >= 1
          /\ (2 + premature) * GBN_WINDOW_SIZE = w + g
  BY BacklogNumbers
<1>4. t - (next_msg_index - last) <= w /\ (t - (next_msg_index - last) = w => last = next_msg_index)
  BY <1>1, <1>2, <1>3, Numbers, SMTT(30) DEF PaidFor, Surplus
<1>5. t <= w + g - 1
  BY <1>2, <1>3, <1>4, Numbers
<1> QED
  BY <1>3, <1>5

\* A step that neither adds nor takes an acknowledgement keeps the chain.
LEMMA ChainKept ==
    ASSUME NEW last, AckChain(last), UNCHANGED <<toSender, data_recvd, rpc>>
    PROVE  AckChain(last)'
  BY DEF AckChain, UptoFrom, InReceiver

\* Taking an acknowledgement off the connection, whatever the sender makes of it.
LEMMA ChainTail ==
    ASSUME TypeOK, WindowsAgree, NEW last \in Base .. Len(data_recvd), AckChain(last),
           toSender # <<>>, toSender' = Tail(toSender), UNCHANGED <<data_recvd, rpc>>,
           NEW u, u = Head(toSender).upto
    PROVE  /\ u \in last .. last + 1 /\ u <= Len(data_recvd)
           /\ AckChain(u)'
<1>0. PICK k \in Nat : k = Len(toSender)
  BY DEF TypeOK
<1>1. /\ k = Len(toSender) /\ k >= 1 /\ Len(toSender') = k - 1 /\ u = toSender[1].upto
      /\ \A i \in 1 .. k - 1 : toSender'[i] = toSender[i + 1]
  BY <1>0 DEF TypeOK
<1>2. u \in last .. last + 1
  <2>1. 1 \in 1 .. k /\ UptoFrom(last, 1) = toSender[1].upto /\ UptoFrom(last, 1 - 1) = last
    BY <1>1 DEF UptoFrom
  <2> QED
    BY <1>1, <2>1 DEF AckChain
<1>3. u <= Len(data_recvd)
  BY <1>1, Numbers DEF WindowsAgree, AcksInWindow
<1>4. \A i \in 0 .. k - 1 : UptoFrom(u, i)' = UptoFrom(last, i + 1)
  <2> TAKE i \in 0 .. k - 1
  <2>1. i = 0 => UptoFrom(u, i)' = u /\ UptoFrom(last, i + 1) = u
    BY <1>1 DEF UptoFrom
  <2>2. i # 0 => i \in 1 .. k - 1 /\ i + 1 # 0
    BY <1>0
  <2>3. i # 0 => UptoFrom(u, i)' = toSender[i + 1].upto
                 /\ UptoFrom(last, i + 1) = toSender[i + 1].upto
    BY <1>1, <2>2 DEF UptoFrom
  <2> QED
    BY <2>1, <2>3
<1>5. ASSUME NEW i \in 1 .. k - 1
      PROVE  UptoFrom(u, i)' \in UptoFrom(u, i - 1)' .. UptoFrom(u, i - 1)' + 1
  <2>1. i + 1 \in 1 .. k /\ i - 1 \in 0 .. k - 1 /\ i \in 0 .. k - 1
        /\ (i + 1) - 1 = i /\ (i - 1) + 1 = i
    BY <1>1
  <2>2. UptoFrom(last, i + 1) \in UptoFrom(last, i) .. UptoFrom(last, i) + 1
    BY <1>1, <2>1 DEF AckChain
  <2>3. UptoFrom(u, i)' = UptoFrom(last, i + 1) /\ UptoFrom(u, i - 1)' = UptoFrom(last, i)
    BY <1>4, <2>1
  <2> QED
    BY <2>2, <2>3
<1>6. UptoFrom(u, k - 1)' = UptoFrom(last, k)
  <2>1. k - 1 \in 0 .. k - 1 /\ (k - 1) + 1 = k
    BY <1>1
  <2> QED
    BY <1>4, <2>1
<1>7. /\ Len(data_recvd)' = Len(data_recvd) /\ InReceiver' = InReceiver
      /\ Len(data_recvd) \in UptoFrom(last, k) .. UptoFrom(last, k) + InReceiver
  BY <1>1 DEF AckChain, InReceiver
<1>8. AckChain(u)'
  BY <1>1, <1>5, <1>6, <1>7 DEF AckChain
<1> QED
  BY <1>2, <1>3, <1>8

\* The steps of the sender while the connection is open.
LEMMA SenderPaid ==
    ASSUME TypeOK, WindowsAgree, AllPaidFor, conn = "open", conn' = "open", Sender
    PROVE  AllPaidFor'
<1>1. PICK last \in Base .. Len(data_recvd) : AckChain(last) /\ PaidFor(last)
  BY DEF AllPaidFor
<1> PICK g \in Nat, w \in Nat, p \in Nat, n \in Nat, b \in Nat, d \in Nat :
        /\ g = GBN_WINDOW_SIZE /\ w = Windows /\ p = Len(pbuffer)
        /\ n = next_msg_index /\ b = Base /\ d = Len(data_recvd)
  BY Numbers, BacklogNumbers
<1> PICK r \in Nat, s \in Nat, c \in {0, 1} :
        r = Len(toReceiver) /\ s = Len(toSender) /\ c = InReceiver
  BY BacklogNumbers
<1>2. /\ g = GBN_WINDOW_SIZE /\ w = Windows /\ p = Len(pbuffer) /\ r = Len(toReceiver)
      /\ s = Len(toSender) /\ n = next_msg_index /\ b = Base /\ d = Len(data_recvd)
      /\ c = InReceiver /\ g >= 1 /\ w >= g /\ n = b + p /\ d <= n /\ p <= g
  <2>1. n <= b + g /\ n = b + p
    BY Numbers
  <2>2. p <= g
    BY <2>1
  <2> QED
    BY <2>1, <2>2, Numbers, BacklogNumbers
<1>3. /\ last \in Nat /\ b <= last /\ last <= d
      /\ \/ r + s + c - (n - last) <= w - 1
         \/ r + s + c - (n - last) = w /\ last = n /\ p = g
  BY <1>1, <1>2 DEF PaidFor, Surplus, Travelling
<1>4. rpc' = rpc /\ data_recvd' = data_recvd /\ InReceiver' = c
  BY <1>2 DEF Sender, SendFrame, WindowFilled, Poll, AcceptAck, IgnoreAck, CorruptAck, TakeAck,
         NoAck, CheckTimer, Timeout, NoTimeout, TimerNeverStarted, Close, receiverVars,
         InReceiver
<1>5. ASSUME UNCHANGED <<toSender, toReceiver, next_msg_index, pbuffer, premature>>
      PROVE  AllPaidFor'
  <2>1. AckChain(last)' /\ Base' = Base
    BY <1>1, <1>4, <1>5, ChainKept DEF Base
  <2>2. PaidFor(last)'
    BY <1>1, <1>2, <1>4, <1>5 DEF PaidFor, Surplus, Travelling, Windows
  <2> QED
    BY <1>4, <2>1, <2>2 DEF AllPaidFor
<1>6. CASE SendFrame
  <2>1. /\ UNCHANGED <<toSender, premature>> /\ next_msg_index' = n + 1
        /\ Len(toReceiver') = r + 1 /\ Len(pbuffer') = p + 1 /\ p < g
    <3>1. PICK f : toReceiver' = Append(toReceiver, f) /\ pbuffer' = Append(pbuffer, f)
      BY <1>6 DEF SendFrame
    <3>2. Len(toReceiver') = Len(toReceiver) + 1 /\ Len(pbuffer') = Len(pbuffer) + 1
      BY <3>1 DEF TypeOK
    <3> QED
      BY <1>2, <1>6, <3>2 DEF SendFrame, SpaceInBuffer
  <2>2. AckChain(last)' /\ Base' = b /\ Windows' = w
    BY <1>1, <1>2, <1>4, <2>1, ChainKept DEF Base, Windows
  <2>3. Travelling' = r + 1 + s + c
    BY <1>2, <1>4, <2>1 DEF Travelling
  <2>4. Surplus(last)' = r + 1 + s + c - (n + 1 - last)
    BY <2>1, <2>3 DEF Surplus
  <2>5. r + 1 + s + c - (n + 1 - last) <= w - 1
    BY <1>2, <1>3, <2>1
  <2>6. PaidFor(last)'
    BY <2>2, <2>4, <2>5 DEF PaidFor
  <2> QED
    BY <1>1, <1>2, <1>4, <2>2, <2>6 DEF AllPaidFor
<1>7. CASE AcceptAck \/ IgnoreAck \/ CorruptAck
  <2>1. PICK u : u = Head(toSender).upto
    OBVIOUS
  <2>2. /\ toSender # <<>> /\ toSender' = Tail(toSender)
        /\ UNCHANGED <<next_msg_index, toReceiver, premature>>
    BY <1>7 DEF AcceptAck, IgnoreAck, CorruptAck, TakeAck
  <2>3. u \in last .. last + 1 /\ u <= d /\ AckChain(u)'
    BY <1>1, <1>2, <1>4, <2>1, <2>2, ChainTail
  <2>4. s >= 1 /\ Len(toSender') = s - 1
    BY <1>2, <2>2 DEF TypeOK
  <2>5. Base' \in Nat /\ Base' <= u
    <3>1. CASE AcceptAck
      BY <1>2, <1>3, <2>1, <2>3, <3>1, AcceptAckMoves
    <3>2. CASE IgnoreAck \/ CorruptAck
      BY <1>2, <1>3, <2>3, <3>2 DEF IgnoreAck, CorruptAck, TakeAck, Base
    <3> QED
      BY <1>7, <3>1, <3>2
  <2>6. Surplus(u)' = r + (s - 1) + c - (n - u) /\ Windows' = w
    <3>1. Travelling' = r + (s - 1) + c
      BY <1>2, <1>4, <2>2, <2>4 DEF Travelling
    <3>2. next_msg_index' = n
      BY <1>2, <2>2
    <3>3. Surplus(u)' = r + (s - 1) + c - (n - u)
      <4>1. u \in Nat
        BY <1>3, <2>3
      <4> QED
        BY <3>1, <3>2, <4>1 DEF Surplus
    <3>4. Windows' = w
      BY <1>2, <2>2 DEF Windows
    <3> QED
      BY <3>3, <3>4
  <2>7. r + (s - 1) + c - (n - u) <= w - 1
    BY <1>2, <1>3, <2>3
  <2>8. PaidFor(u)'
    BY <2>6, <2>7 DEF PaidFor
  <2>9. u \in Base' .. Len(data_recvd')
    BY <1>2, <1>3, <1>4, <2>3, <2>5
  <2> QED
    BY <2>3, <2>8, <2>9 DEF AllPaidFor
<1>8. CASE Timeout
  <2>1. /\ UNCHANGED <<toSender, next_msg_index, pbuffer>>
        /\ Len(toReceiver') = r + p
    <3>1. /\ UNCHANGED <<toSender, next_msg_index, pbuffer>>
          /\ toReceiver' = toReceiver \o pbuffer
      BY <1>8 DEF Timeout
    <3>2. Len(toReceiver') = Len(toReceiver) + Len(pbuffer)
      BY <3>1 DEF TypeOK
    <3> QED
      BY <1>2, <3>1, <3>2
  <2>2. AckChain(last)' /\ Base' = b
    BY <1>1, <1>2, <1>4, <2>1, ChainKept DEF Base
  <2>3. Surplus(last)' = r + p + s + c - (n - last)
    <3>1. Travelling' = r + p + s + c
      BY <1>2, <1>4, <2>1 DEF Travelling
    <3>2. next_msg_index' = n
      BY <1>2, <2>1
    <3> QED
      BY <3>1, <3>2 DEF Surplus
  <2>4. CASE Premature
    <3>1. Windows' = w + g
      <4>1. premature' = premature + 1 /\ premature \in Nat /\ Windows = (1 + premature) * g
        BY <1>2, <1>8, <2>4, BacklogNumbers DEF Timeout, Windows
      <4>2. (1 + (premature + 1)) * g = (1 + premature) * g + g
        BY <4>1
      <4> QED
        BY <1>2, <4>1, <4>2 DEF Windows
    <3>2. \/ r + p + s + c - (n - last) <= w + g - 1
          \/ r + p + s + c - (n - last) = w + g /\ last = n /\ p = g
      BY <1>2, <1>3
    <3>3. next_msg_index' = n /\ Len(pbuffer') = p
      BY <1>2, <2>1
    <3>4. PaidFor(last)'
      BY <1>2, <2>3, <3>1, <3>2, <3>3 DEF PaidFor
    <3> QED
      BY <1>1, <1>2, <1>4, <2>2, <3>4 DEF AllPaidFor
  <2>5. CASE pbuffer # <<>> /\ ~ OnTheirWay
    <3>1. r = 0 /\ s = 0 /\ c = 0
      BY <1>2, <2>5 DEF OnTheirWay, InReceiver
    <3>2. Windows' = w
      BY <1>2, <1>8, <2>5 DEF Timeout, Premature, Windows
    <3>3. \/ r + p + s + c - (n - last) <= w - 1
          \/ r + p + s + c - (n - last) = w /\ last = n /\ p = g
      BY <1>2, <1>3, <3>1
    <3>4. PaidFor(last)'
      BY <1>2, <2>1, <2>3, <3>2, <3>3 DEF PaidFor
    <3> QED
      BY <1>1, <1>2, <1>4, <2>2, <3>4 DEF AllPaidFor
  <2>6. CASE pbuffer = <<>>
    <3>1. p = 0 /\ Windows' = w
      BY <1>2, <1>8, <2>6 DEF Timeout, Premature, Windows
    <3>2. PaidFor(last)'
      BY <1>2, <1>3, <2>1, <2>3, <3>1 DEF PaidFor
    <3> QED
      BY <1>1, <1>2, <1>4, <2>2, <3>2 DEF AllPaidFor
  <2> QED
    BY <2>4, <2>5, <2>6 DEF Premature
<1>9. CASE WindowFilled \/ NoAck \/ NoTimeout \/ TimerNeverStarted
  BY <1>5, <1>9 DEF WindowFilled, NoAck, NoTimeout, TimerNeverStarted
<1>10. CASE Close
  BY <1>10 DEF Close
<1> QED
  BY <1>6, <1>7, <1>8, <1>9, <1>10 DEF Sender, Poll, CheckTimer

\* The steps of the receiver while the connection is open.
LEMMA ReceiverPaid ==
    ASSUME TypeOK, WindowsAgree, AllPaidFor, conn = "open", conn' = "open", Receiver
    PROVE  AllPaidFor'
<1>1. PICK last \in Base .. Len(data_recvd) : AckChain(last) /\ PaidFor(last)
  BY DEF AllPaidFor
<1>2. PICK g \in Nat, w \in Nat, r \in Nat, s \in Nat, n \in Nat, b \in Nat, d \in Nat,
           c \in {0, 1} :
        /\ g = GBN_WINDOW_SIZE /\ w = Windows /\ r = Len(toReceiver)
        /\ s = Len(toSender) /\ n = next_msg_index /\ b = Base /\ d = Len(data_recvd)
        /\ c = InReceiver
  BY Numbers, BacklogNumbers
<1>3. /\ b <= last /\ last <= d /\ last \in Nat
      /\ \/ r + s + c - (n - last) <= w - 1
         \/ r + s + c - (n - last) = w /\ last = n /\ Len(pbuffer) = g
  BY <1>1, <1>2 DEF PaidFor, Surplus, Travelling
<1>4. Windows' = w /\ Base' = b /\ UNCHANGED <<next_msg_index, pbuffer>>
  BY <1>2 DEF Receiver, InOrderFrame, OutOfOrderFrame, CorruptFrame, TakeFrame, SendAck,
         ReadReset, ReadEOF, SpinAtEOF, senderVars, vars, Windows, Base
<1>5. ASSUME NEW t \in Int, Travelling' = t, t <= r + s + c
      PROVE  PaidFor(last)'
  <2>1. Surplus(last)' = t - (n - last)
    BY <1>2, <1>4, <1>5 DEF Surplus
  <2>2. \/ t - (n - last) <= w - 1
        \/ t - (n - last) = w /\ last = n /\ Len(pbuffer) = g
    BY <1>2, <1>3, <1>5
  <2> QED
    BY <1>2, <1>4, <2>1, <2>2 DEF PaidFor
<1>6. CASE InOrderFrame \/ OutOfOrderFrame
  <2>1. /\ rpc = "recv" /\ rpc' = "ack" /\ toSender' = toSender
        /\ r >= 1 /\ Len(toReceiver') = r - 1
    BY <1>2, <1>6 DEF InOrderFrame, OutOfOrderFrame, TakeFrame, TypeOK
  <2>2. Len(data_recvd') \in d .. d + 1
    BY <1>2, <1>6 DEF InOrderFrame, OutOfOrderFrame, TypeOK
  <2>3. c = 0 /\ InReceiver' = 1
    BY <1>2, <2>1 DEF InReceiver
  <2>4. AckChain(last)'
    <3>1. \A i : UptoFrom(last, i)' = UptoFrom(last, i)
      BY <2>1 DEF UptoFrom
    <3>2. UptoFrom(last, s) \in Nat
      BY <1>2, <1>3, Numbers DEF UptoFrom
    <3>3. d = UptoFrom(last, s)
      BY <1>1, <1>2, <2>3, <3>2 DEF AckChain
    <3> QED
      BY <1>1, <1>2, <2>1, <2>2, <2>3, <3>1, <3>3 DEF AckChain
  <2>5. PaidFor(last)'
    BY <1>2, <1>5, <2>1, <2>3 DEF Travelling
  <2>6. last \in Base' .. Len(data_recvd')
    BY <1>2, <1>3, <1>4, <2>2
  <2> QED
    BY <2>4, <2>5, <2>6 DEF AllPaidFor
<1>7. CASE CorruptFrame
  <2>1. /\ UNCHANGED <<rpc, toSender, data_recvd>>
        /\ r >= 1 /\ Len(toReceiver') = r - 1
    BY <1>2, <1>7 DEF CorruptFrame, TakeFrame, TypeOK, receiverVars
  <2>2. AckChain(last)'
    BY <1>1, <2>1, ChainKept
  <2>3. Travelling' = (r - 1) + s + c
    BY <1>2, <2>1 DEF Travelling, InReceiver
  <2>4. (r - 1) + s + c \in Int /\ (r - 1) + s + c <= r + s + c
    OBVIOUS
  <2>5. PaidFor(last)'
    BY <1>5, <2>3, <2>4
  <2> QED
    BY <1>1, <1>2, <1>4, <2>1, <2>2, <2>5 DEF AllPaidFor
<1>8. CASE SendAck
  <2> DEFINE ack_pkt == [seq_no |-> expected_seq_no, upto |-> Len(data_recvd)]
  <2>1. /\ rpc = "ack" /\ rpc' = "recv" /\ UNCHANGED <<toReceiver, data_recvd>>
        /\ toSender' = Append(toSender, ack_pkt)
    BY <1>8 DEF SendAck
  <2>2. ack_pkt.upto = d
    BY <1>2
  <2> HIDE DEF ack_pkt
  <2>3. /\ Len(toSender') = s + 1 /\ toSender'[s + 1] = ack_pkt
        /\ \A i \in 1 .. s : toSender'[i] = toSender[i]
    BY <1>2, <2>1 DEF TypeOK
  <2>4. c = 1 /\ InReceiver' = 0
    BY <1>2, <2>1 DEF InReceiver
  <2>5. /\ \A i \in 0 .. s : UptoFrom(last, i)' = UptoFrom(last, i)
        /\ UptoFrom(last, s + 1)' = d
    BY <1>2, <2>2, <2>3 DEF UptoFrom
  <2>6. d \in UptoFrom(last, s) .. UptoFrom(last, s) + 1
    BY <1>1, <1>2, <2>4 DEF AckChain
  <2>7. \A i \in 1 .. s : UptoFrom(last, i) \in UptoFrom(last, i - 1) .. UptoFrom(last, i - 1) + 1
    BY <1>1, <1>2 DEF AckChain
  <2>8. ASSUME NEW i \in 1 .. s + 1
        PROVE  UptoFrom(last, i)' \in UptoFrom(last, i - 1)' .. UptoFrom(last, i - 1)' + 1
    <3>1. CASE i = s + 1
      <4>1. i - 1 = s /\ s \in 0 .. s
        BY <1>2, <3>1
      <4> QED
        BY <2>5, <2>6, <3>1, <4>1
    <3>2. CASE i \in 1 .. s
      <4>1. i \in 0 .. s /\ i - 1 \in 0 .. s
        BY <1>2, <3>2
      <4> QED
        BY <2>5, <2>7, <3>2, <4>1
    <3> QED
      BY <1>2, <3>1, <3>2
  <2>9. AckChain(last)'
    <3>1. Len(data_recvd') = d /\ d \in d .. d + 0
      BY <1>2, <2>1
    <3> QED
      BY <2>3, <2>4, <2>5, <2>8, <3>1 DEF AckChain
  <2>10. PaidFor(last)'
    BY <1>2, <1>5, <2>1, <2>3, <2>4 DEF Travelling
  <2> QED
    BY <1>1, <1>2, <1>4, <2>1, <2>9, <2>10 DEF AllPaidFor
<1>9. CASE ReadReset \/ ReadEOF \/ SpinAtEOF
  <2>1. UNCHANGED <<toReceiver, toSender, data_recvd, rpc>>
    BY <1>9 DEF ReadReset, ReadEOF, SpinAtEOF, vars, receiverVars
  <2>2. AckChain(last)'
    BY <1>1, <2>1, ChainKept
  <2>3. PaidFor(last)'
    BY <1>2, <1>5, <2>1 DEF Travelling, InReceiver
  <2> QED
    BY <1>1, <1>2, <1>4, <2>1, <2>2, <2>3 DEF AllPaidFor
<1> QED
  BY <1>6, <1>7, <1>8, <1>9 DEF Receiver

\* Every step keeps the account of what is on its way.
LEMMA StepBacklog ==
    ASSUME TypeOK, WindowsAgree, BacklogInv, [Next]_vars
    PROVE  BacklogInv'
<1> USE DEF BacklogInv
<1>0. Travelling <= (2 + premature) * GBN_WINDOW_SIZE - 1
  BY PaidForBounds
<1>1. CASE conn = "open" /\ conn' = "open"
  <2>1. rpc' \in {"recv", "ack"}
    BY <1>1 DEF Next, Sender, SendFrame, WindowFilled, Poll, AcceptAck, IgnoreAck, CorruptAck,
         TakeAck, NoAck, CheckTimer, Timeout, NoTimeout, TimerNeverStarted, Close, Receiver,
         InOrderFrame, OutOfOrderFrame, CorruptFrame, TakeFrame, SendAck, ReadReset, ReadEOF,
         SpinAtEOF, Terminated, receiverVars, vars
  <2>2. AllPaidFor'
    <3>1. CASE UNCHANGED vars
      BY <1>1, <3>1 DEF AllPaidFor, AckChain, PaidFor, UptoFrom, Surplus, Travelling,
         InReceiver, Windows, Base, vars, senderVars, receiverVars
    <3>2. CASE Next
      BY <1>1, <3>1, <3>2, SenderPaid, ReceiverPaid DEF Next, Terminated
    <3> QED
      BY <3>1, <3>2
  <2> QED
    BY <1>1, <2>1, <2>2
<1>2. CASE conn = "open" /\ conn' # "open"
  <2>1. Close
    BY <1>2 DEF Next, Sender, SendFrame, WindowFilled, Poll, AcceptAck, IgnoreAck, CorruptAck,
         TakeAck, NoAck, CheckTimer, Timeout, NoTimeout, TimerNeverStarted, Receiver,
         InOrderFrame, OutOfOrderFrame, CorruptFrame, TakeFrame, SendAck, ReadReset, ReadEOF,
         SpinAtEOF, Terminated, vars
  <2>2. /\ UNCHANGED <<toReceiver, rpc, premature>> /\ Len(toSender') = 0
        /\ spc' \in {"done", "failed"}
    BY <2>1 DEF Close, senderVars, receiverVars
  <2>3. InReceiver' = InReceiver
    BY <2>2 DEF InReceiver
  <2>4. Travelling' <= Travelling
    BY <2>2, <2>3, BacklogNumbers DEF Travelling
  <2>5. Travelling' \in Nat /\ Travelling \in Nat
        /\ (2 + premature) * GBN_WINDOW_SIZE \in Nat
    BY <2>2, <2>3, BacklogNumbers DEF Travelling
  <2> QED
    BY <1>0, <1>2, <2>2, <2>4, <2>5
<1>3. CASE conn # "open"
  <2>1. spc \in {"done", "failed"}
    BY <1>3
  <2>2. conn' # "open" /\ UNCHANGED <<spc, premature>>
    BY <1>3, <2>1 DEF Next, Sender, SendFrame, WindowFilled, Poll, AcceptAck, IgnoreAck,
         CorruptAck, TakeAck, NoAck, CheckTimer, Timeout, NoTimeout, TimerNeverStarted, Close,
         Receiver, InOrderFrame, OutOfOrderFrame, CorruptFrame, TakeFrame, SendAck, ReadReset,
         ReadEOF, SpinAtEOF, Terminated, vars, senderVars
  <2>3. Travelling' \in Nat /\ Travelling' <= Travelling
    <3>1. CASE InOrderFrame \/ OutOfOrderFrame
      <4>1. /\ rpc = "recv" /\ rpc' = "ack" /\ toSender' = toSender
            /\ Len(toReceiver') = Len(toReceiver) - 1 /\ Len(toReceiver) >= 1
        BY <3>1 DEF InOrderFrame, OutOfOrderFrame, TakeFrame, TypeOK
      <4> QED
        BY <4>1, BacklogNumbers DEF Travelling, InReceiver
    <3>2. CASE CorruptFrame
      <4>1. /\ UNCHANGED <<rpc, toSender>>
            /\ Len(toReceiver') = Len(toReceiver) - 1 /\ Len(toReceiver) >= 1
        BY <3>2 DEF CorruptFrame, TakeFrame, TypeOK, receiverVars
      <4> QED
        BY <4>1, BacklogNumbers DEF Travelling, InReceiver
    <3>3. CASE SendAck
      <4>1. UNCHANGED <<toReceiver, toSender>> /\ rpc' # "ack"
        BY <1>3, <3>3 DEF SendAck
      <4> QED
        BY <4>1, BacklogNumbers DEF Travelling, InReceiver
    <3>4. CASE UNCHANGED <<toReceiver, toSender>> /\ (rpc' = rpc \/ rpc' # "ack")
      BY <3>4, BacklogNumbers DEF Travelling, InReceiver
    <3>5. CASE ReadReset \/ ReadEOF \/ SpinAtEOF \/ Terminated \/ UNCHANGED vars
      BY <3>4, <3>5 DEF ReadReset, ReadEOF, SpinAtEOF, Terminated, vars, receiverVars
    <3>6. ~ Sender
      BY <1>3, <2>1 DEF Sender, SendFrame, WindowFilled, Poll, AcceptAck, IgnoreAck,
         CorruptAck, TakeAck, NoAck, CheckTimer, Timeout, NoTimeout, TimerNeverStarted, Close
    <3> QED
      BY <3>1, <3>2, <3>3, <3>5, <3>6 DEF Next, Receiver
  <2>4. Travelling \in Nat /\ (2 + premature) * GBN_WINDOW_SIZE \in Nat
    BY BacklogNumbers
  <2> QED
    BY <1>0, <2>1, <2>2, <2>3, <2>4
<1> QED
  BY <1>1, <1>2, <1>3

-----------------------------------------------------------------------------
(***************************************************************************)
(* Theorems.                                                               *)
(***************************************************************************)

(***************************************************************************)
(* Type correctness, and the windows of sender and receiver and everything *)
(* between them agree, for any number space and any schedule.              *)
(***************************************************************************)
THEOREM WindowSafety == Spec => [](TypeOK /\ WindowsAgree)
<1>1. Init => TypeOK /\ WindowsAgree
  BY InitTypeOK, InitWindows
<1>2. TypeOK /\ WindowsAgree /\ [Next]_vars => (TypeOK /\ WindowsAgree)'
  BY StepTypeOK, StepWindows
<1> QED
  BY <1>1, <1>2, PTL DEF Spec

(***************************************************************************)
(* The receiver never takes an old copy of a frame for a new frame: the    *)
(* window of the program is small enough for its sequence numbers.         *)
(***************************************************************************)
THEOREM NoSeqNoConfusion == Spec => []NoOldFrameTakenForNew
<1>1. TypeOK /\ WindowsAgree => NoOldFrameTakenForNew
  <2> SUFFICES ASSUME TypeOK, WindowsAgree, NEW i \in DOMAIN toReceiver,
                      toReceiver[i].seq_no = expected_seq_no
               PROVE  toReceiver[i].data = Len(data_recvd) + 1
    BY DEF NoOldFrameTakenForNew
  <2>1. i \in 1 .. Len(toReceiver)
    BY DEF TypeOK
  <2> QED
    BY <2>1, ExpectedFrame
<1> QED
  BY <1>1, WindowSafety, PTL

(***************************************************************************)
(* A stale acknowledgement means to the sender what it meant to the        *)
(* receiver when it was sent.                                              *)
(***************************************************************************)
THEOREM AckMeaning == Spec => AckMovesWindowToItsMeaning
<1>1. TypeOK /\ WindowsAgree => [AcceptAck => Base' = Head(toSender).upto]_vars
  BY AcceptAckMoves
<1> QED
  BY <1>1, WindowSafety, PTL DEF AckMovesWindowToItsMeaning

(***************************************************************************)
(* The sender fails on an empty message only, and no frame waits for an    *)
(* acknowledgement without a running timer.                                *)
(***************************************************************************)
THEOREM TimerSafety == Spec => []TimerGuardsFrames
<1> DEFINE Inv == TypeOK /\ WindowsAgree /\ TimerInv
<1>1. Init => Inv
  BY InitTypeOK, InitWindows DEF Init, TimerInv
<1>2. Inv /\ [Next]_vars => Inv'
  BY StepTypeOK, StepWindows, StepTimer
<1>3. Inv => TimerGuardsFrames
  <2> SUFFICES ASSUME Inv PROVE TimerGuardsFrames
    OBVIOUS
  <2>1. pbuffer # <<>> => next_msg_index > 0
    <3>1. pbuffer # <<>> => Len(pbuffer) > 0
      BY DEF TypeOK
    <3> QED
      BY <3>1, Numbers
  <2> QED
    BY <2>1 DEF TimerGuardsFrames, TimerInv
<1> QED
  BY <1>1, <1>2, <1>3, PTL DEF Spec

(***************************************************************************)
(* The sockets of the two processes never have to hold more than two       *)
(* windows, and one window more for each timeout that fired while          *)
(* something was on its way: neither sendall can block on the other.       *)
(***************************************************************************)
THEOREM BacklogSafety == Spec => []BacklogBounded
<1> DEFINE Inv == TypeOK /\ WindowsAgree /\ BacklogInv
<1>1. Init => Inv
  <2> SUFFICES ASSUME Init PROVE BacklogInv
    BY InitTypeOK, InitWindows
  <2>1. TypeOK /\ WindowsAgree
    BY InitTypeOK, InitWindows
  <2>2. /\ Len(toReceiver) = 0 /\ Len(toSender) = 0 /\ Len(data_recvd) = 0 /\ InReceiver = 0
        /\ next_msg_index = 0 /\ conn = "open" /\ rpc = "recv"
    BY DEF Init, InReceiver
  <2>3. Base = 0 /\ 0 \in Base .. Len(data_recvd)
    BY <2>1, <2>2, Numbers
  <2>4. AckChain(0)
    BY <2>2 DEF AckChain, UptoFrom
  <2>5. PaidFor(0)
    <3>1. Surplus(0) = 0
      BY <2>2 DEF Surplus, Travelling
    <3> QED
      BY <2>1, <3>1, BacklogNumbers DEF PaidFor
  <2>6. AllPaidFor
    BY <2>3, <2>4, <2>5 DEF AllPaidFor
  <2> QED
    BY <2>1, <2>2, <2>6 DEF BacklogInv
<1>2. Inv /\ [Next]_vars => Inv'
  BY StepTypeOK, StepWindows, StepBacklog
<1>3. Inv => BacklogBounded
  <2> SUFFICES ASSUME Inv PROVE BacklogBounded
    OBVIOUS
  <2>1. /\ Len(toReceiver) + Len(toSender) <= Travelling
        /\ Len(toReceiver) + Len(toSender) \in Nat /\ Travelling \in Nat
        /\ (2 + premature) * GBN_WINDOW_SIZE \in Nat
    BY BacklogNumbers DEF Travelling
  <2> QED
    BY <2>1, PaidForBounds DEF BacklogInv, BacklogBounded
<1> QED
  BY <1>1, <1>2, <1>3, PTL DEF Spec

\* The initial states correspond.
LEMMA InitTransfer == Init => Transfer!Init
<1> SUFFICES ASSUME Init PROVE Transfer!Init
  OBVIOUS
<1>1. Base = 0
  <2>1. Len(<<>>) = 0 /\ 0 - 0 = 0
    OBVIOUS
  <2> QED
    BY <2>1 DEF Init, Base
<1> QED
  BY <1>1 DEF Init, Transfer!Init

\* A step of the program is a step of the transfer, or none.
LEMMA StepTransfer ==
    ASSUME TypeOK, WindowsAgree, [Next]_vars
    PROVE  [Transfer!Next]_Transfer!vars
<1> USE DEF Transfer!Next, Transfer!vars
<1>1. CASE SendFrame
  <2>1. Base' = Base
    <3>1. next_msg_index \in Nat /\ Len(pbuffer) \in Nat
      BY Numbers
    <3>2. next_msg_index' = next_msg_index + 1 /\ Len(pbuffer') = Len(pbuffer) + 1
      BY <1>1 DEF SendFrame, TypeOK
    <3> QED
      BY <3>1, <3>2 DEF Base
  <2>2. next_msg_index - Base < GBN_WINDOW_SIZE
    BY <1>1, Numbers DEF SendFrame, SpaceInBuffer
  <2>3. Transfer!Offer
    BY <1>1, <2>1, <2>2 DEF SendFrame, Transfer!Offer, receiverVars
  <2> QED
    BY <2>3
<1>2. CASE InOrderFrame
  <2>1. /\ data_recvd' = Append(data_recvd, Len(data_recvd) + 1)
        /\ Len(data_recvd) < next_msg_index
    BY <1>2, InOrderFrameWindows
  <2>2. Transfer!Deliver
    BY <1>2, <2>1 DEF InOrderFrame, TakeFrame, senderVars, Transfer!Deliver, Base
  <2> QED
    BY <2>2
<1>3. CASE AcceptAck
  <2>1. Base' \in Base .. Len(data_recvd)
    BY <1>3, AcceptAckMoves
  <2>2. /\ spc = "poll" /\ spc' = "timer"
        /\ UNCHANGED <<msglen, next_msg_index, data_recvd>>
    BY <1>3 DEF AcceptAck, TakeAck, receiverVars
  <2>3. CASE Base' = Base
    BY <2>2, <2>3
  <2>4. CASE Base' # Base
    <3>1. Base' \in Base + 1 .. Len(data_recvd) /\ Base' \in 1 .. MaxLen
      <4>1. Len(data_recvd) <= msglen /\ msglen \in Nat /\ msglen <= MaxLen
        BY Numbers, GBNAssumption DEF TypeOK
      <4> QED
        BY <4>1, <2>1, <2>4, Numbers, GBNAssumption
    <3>2. Transfer!Confirm(Base')
      BY <2>2, <3>1 DEF Transfer!Confirm
    <3> QED
      BY <3>1, <3>2
  <2> QED
    BY <2>3, <2>4
<1>4. CASE Timeout \/ NoTimeout
  <2>1. /\ spc = "timer" /\ spc' = AfterTimer
        /\ UNCHANGED <<msglen, next_msg_index, pbuffer, data_recvd>>
    BY <1>4 DEF Timeout, NoTimeout, receiverVars
  <2>2. Base' = Base
    BY <2>1 DEF Base
  <2>3. CASE spc' = "done"
    <3>1. pbuffer = <<>> /\ next_msg_index >= msglen
      BY <2>1, <2>3 DEF AfterTimer
    <3>2. Base = msglen
      <4>1. Len(pbuffer) = 0
        BY <3>1
      <4> QED
        BY <3>1, <4>1, Numbers, GBNAssumption DEF TypeOK
    <3>3. Transfer!Finish
      BY <2>1, <2>2, <2>3, <3>2 DEF Transfer!Finish
    <3> QED
      BY <3>3
  <2>4. CASE spc' # "done"
    BY <2>1, <2>2, <2>4
  <2> QED
    BY <2>3, <2>4
<1>5. ASSUME UNCHANGED <<msglen, next_msg_index, pbuffer, data_recvd>>,
             (spc = "done")' = (spc = "done")
      PROVE  UNCHANGED Transfer!vars
  BY <1>5 DEF Base
<1>6. CASE WindowFilled \/ IgnoreAck \/ CorruptAck \/ NoAck \/ TimerNeverStarted
  BY <1>5, <1>6
     DEF WindowFilled, IgnoreAck, CorruptAck, TakeAck, NoAck, TimerNeverStarted, receiverVars
<1>7. CASE Close \/ OutOfOrderFrame \/ CorruptFrame \/ SendAck \/ ReadReset \/ ReadEOF
  BY <1>5, <1>7
     DEF Close, OutOfOrderFrame, CorruptFrame, TakeFrame, SendAck, ReadReset, ReadEOF,
         senderVars, receiverVars
<1>8. CASE UNCHANGED vars
  BY <1>5, <1>8 DEF vars, senderVars, receiverVars
<1> QED
  BY <1>1, <1>2, <1>3, <1>4, <1>6, <1>7, <1>8
     DEF Next, Sender, Receiver, Poll, CheckTimer, SpinAtEOF, Terminated

(***************************************************************************)
(* Go-Back-N, as the program runs it, keeps the promise of ReliableTransfer:*)
(* every character is delivered once and in order, whatever is corrupted,  *)
(* delayed or sent again, and the sender finishes no earlier than the      *)
(* receiver has them all.                                                  *)
(***************************************************************************)
THEOREM ImplementsTransfer == Spec => TransferSpec
<1>1. Init => Transfer!Init
  BY InitTransfer
<1>2. TypeOK /\ WindowsAgree /\ [Next]_vars => [Transfer!Next]_Transfer!vars
  BY StepTransfer
<1> QED
  BY <1>1, <1>2, WindowSafety, PTL DEF Spec, TransferSpec, Transfer!Spec
=============================================================================
