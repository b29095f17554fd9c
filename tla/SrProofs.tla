------------------------------ MODULE SrProofs ------------------------------
(***************************************************************************)
(* Theorems about SelectiveRepeat, for every number of slots, every length *)
(* of message and every number of premature timeouts.                      *)
(***************************************************************************)
EXTENDS SelectiveRepeat, TLAPS

-----------------------------------------------------------------------------
(***************************************************************************)
(* Facts about % that sequence numbers and slots rest on.                  *)
(***************************************************************************)

\* Division with remainder.
LEMMA ModDecompose ==
    ASSUME NEW m \in Nat, m > 0, NEW a \in Nat
    PROVE  \E q \in Nat, r \in 0 .. m - 1 : a = q * m + r /\ a % m = r
<1> DEFINE q == a \div m
           r == a % m
<1>1. q \in Int /\ r \in 0 .. m - 1 /\ a = m * q + r
  OBVIOUS
<1>2. q >= 0
  <2> SUFFICES ASSUME q <= -1 PROVE FALSE
    BY <1>1
  <2> HIDE DEF q, r
  <2>1. m * q <= -m
    BY <1>1
  <2> QED
    BY <1>1, <2>1
<1> HIDE DEF q
<1>3. m * q = q * m
  BY <1>1
<1> QED
  BY <1>1, <1>2, <1>3

\* A remainder is what it looks like.
LEMMA ModCompose ==
    ASSUME NEW m \in Nat, m > 0, NEW q \in Nat, NEW r \in 0 .. m - 1
    PROVE  (q * m + r) % m = r
  OBVIOUS

\* Two numbers less than m apart that agree modulo m are equal.
LEMMA ModUnique ==
    ASSUME NEW m \in Nat, m > 0, NEW a \in Nat, NEW b \in Nat,
           a % m = b % m, a - b < m, b - a < m
    PROVE  a = b
<1>1. PICK q \in Int, p \in Int, r \in 0 .. m - 1 : a = m * q + r /\ b = m * p + r
  <2>1. a = m * (a \div m) + (a % m) /\ b = m * (b \div m) + (b % m)
    OBVIOUS
  <2>2. a \div m \in Int /\ b \div m \in Int /\ a % m \in 0 .. m - 1
    OBVIOUS
  <2> QED
    BY <2>1, <2>2, Zenon
<1>2. m * q - m * p = m * (q - p)
  BY <1>1
<1>3. ~ (q - p >= 1) /\ ~ (q - p <= -1)
  <2>1. ASSUME NEW d \in Int, d >= 1 PROVE m * d >= m
    BY <2>1
  <2>2. ASSUME NEW d \in Int, d <= -1 PROVE m * d <= -m
    BY <2>2
  <2> QED
    BY <2>1, <2>2, <1>1, <1>2
<1> QED
  BY <1>1, <1>3

\* Counting on from a number reduced modulo m: what S_n = (S_n + 1) % m does.
LEMMA ModShift ==
    ASSUME NEW m \in Nat, m > 0, NEW a \in Nat, NEW k \in Nat, k <= m
    PROVE  ((a % m) + k) % m = (a + k) % m
<1>1. ASSUME NEW q \in Int, NEW r \in 0 .. m - 1 PROVE (m * q + r) % m = r
  OBVIOUS
<1>2. PICK q \in Int, r \in 0 .. m - 1 : a = m * q + r /\ a % m = r
  <2>1. a = m * (a \div m) + (a % m) /\ a \div m \in Int /\ a % m \in 0 .. m - 1
    OBVIOUS
  <2> QED
    BY <2>1, Zenon
<1>3. CASE r + k < m
  BY <1>1, <1>2, <1>3
<1>4. CASE r + k >= m
  <2> DEFINE s == r + k - m
  <2>1. s \in 0 .. m - 1 /\ a + k = m * (q + 1) + s /\ r + k = m * 1 + s
    BY <1>2, <1>4
  <2> HIDE DEF s
  <2>2. q + 1 \in Int /\ 1 \in Int
    OBVIOUS
  <2>3. (m * (q + 1) + s) % m = s /\ (m * 1 + s) % m = s
    BY <2>1, <2>2, <1>1, Zenon
  <2> QED
    BY <2>1, <2>3, <1>2
<1> QED
  BY <1>2, <1>3, <1>4

\* A full turn round the modulus changes nothing.
LEMMA ModTurn ==
    ASSUME NEW m \in Nat, m > 0, NEW a \in Nat
    PROVE  (a + m) % m = a % m
<1>1. PICK q \in Nat, r \in 0 .. m - 1 : a = q * m + r /\ a % m = r
  BY ModDecompose
<1>2. a + m = (q + 1) * m + r /\ q + 1 \in Nat
  BY <1>1
<1>3. ((q + 1) * m + r) % m = r
  BY <1>2, ModCompose
<1> QED
  BY <1>1, <1>2, <1>3

\* The way from one number to a later one, less than m ahead.
LEMMA ModDifference ==
    ASSUME NEW m \in Nat, m > 0, NEW a \in Nat, NEW b \in Nat, b <= a, a - b < m
    PROVE  ((a % m) - (b % m)) % m = a - b
<1>1. PICK q \in Nat, r \in 0 .. m - 1 : a = q * m + r /\ a % m = r
  BY ModDecompose
<1>2. PICK p \in Nat, s \in 0 .. m - 1 : b = p * m + s /\ b % m = s
  BY ModDecompose
<1>3. CASE q = p
  <2>1. r - s = a - b /\ r - s \in 0 .. m - 1
    BY <1>1, <1>2, <1>3
  <2>2. (r - s) % m = r - s
    BY <2>1
  <2> QED
    BY <1>1, <1>2, <2>1, <2>2
<1>4. CASE q = p + 1
  <2>1. (p + 1) * m = p * m + m
    BY <1>2
  <2>2. a - b = r - s + m /\ a - b \in 0 .. m - 1
    BY <2>1, <1>1, <1>2, <1>4
  <2>3. ASSUME NEW x \in Int, x + m \in 0 .. m - 1 PROVE x % m = x + m
    BY <2>3
  <2> QED
    BY <1>1, <1>2, <2>2, <2>3
<1>5. CASE q > p + 1
  <2>1. q * m >= (p + 2) * m
    BY <1>1, <1>2, <1>5
  <2>2. (p + 2) * m = p * m + 2 * m
    BY <1>2
  <2> QED
    BY <2>1, <2>2, <1>1, <1>2
<1>6. CASE q < p
  <2>1. p * m >= (q + 1) * m
    BY <1>1, <1>2, <1>6
  <2>2. (q + 1) * m = q * m + m
    BY <1>1
  <2> QED
    BY <2>1, <2>2, <1>1, <1>2
<1> QED
  BY <1>1, <1>2, <1>3, <1>4, <1>5, <1>6

\* Reducing modulo twice m first makes no difference modulo m.
LEMMA ModOfTwice ==
    ASSUME NEW m \in Nat, m > 0, NEW a \in Nat
    PROVE  (a % (2 * m)) % m = a % m
<1>1. PICK q \in Nat, r \in 0 .. (2 * m) - 1 : a = q * (2 * m) + r /\ a % (2 * m) = r
  <2>1. 2 * m \in Nat /\ 2 * m > 0
    OBVIOUS
  <2> QED
    BY <2>1, ModDecompose
<1>2. PICK p \in Nat, s \in 0 .. m - 1 : r = p * m + s /\ r % m = s
  <2>1. r \in Nat
    BY <1>1
  <2> QED
    BY <2>1, ModDecompose
<1>3. a = (2 * q + p) * m + s /\ 2 * q + p \in Nat
  <2>1. q * (2 * m) = (2 * q) * m
    BY <1>1
  <2>2. (2 * q + p) * m = (2 * q) * m + p * m
    BY <1>1, <1>2
  <2> QED
    BY <2>1, <2>2, <1>1, <1>2
<1>4. ((2 * q + p) * m + s) % m = s
  BY <1>3, ModCompose
<1> QED
  BY <1>1, <1>2, <1>3, <1>4

\* A stretch of m numbers has one for every remainder.
LEMMA ModCovers ==
    ASSUME NEW m \in Nat, m > 0, NEW a \in Nat, NEW r \in 0 .. m - 1
    PROVE  \E k \in 0 .. m - 1 : (a + k) % m = r
<1>1. PICK q \in Nat, s \in 0 .. m - 1 : a = q * m + s /\ a % m = s
  BY ModDecompose
<1>2. CASE s <= r
  <2>1. a + (r - s) = q * m + r /\ r - s \in 0 .. m - 1
    BY <1>1, <1>2
  <2>2. (q * m + r) % m = r
    BY <1>1, ModCompose
  <2> QED
    BY <2>1, <2>2
<1>3. CASE r < s
  <2>1. (q + 1) * m = q * m + m
    BY <1>1
  <2>2. a + (m + r - s) = (q + 1) * m + r /\ m + r - s \in 0 .. m - 1
    BY <1>1, <1>3, <2>1
  <2>3. ((q + 1) * m + r) % m = r
    BY <1>1, ModCompose
  <2> QED
    BY <2>2, <2>3
<1> QED
  BY <1>2, <1>3, <1>1

W == SRP_WINDOW_SIZE

-----------------------------------------------------------------------------
(***************************************************************************)
(* Numbers and slots.                                                      *)
(***************************************************************************)

\* SeqNoOf is the remainder, Succ counts on, SlotOf finds the slot of a number.
LEMMA SeqNoFacts ==
    /\ W \in Nat /\ W > 0 /\ MAX_SEQ_NO + 1 = 2 * W
    /\ \A i \in Nat : SeqNoOf(i) \in SeqNos
    /\ \A i \in Nat : Succ(SeqNoOf(i)) = SeqNoOf(i + 1)
    /\ \A i \in Nat : SlotOf(SeqNoOf(i)) = i % W
    /\ SeqNoOf(0) = 0
<1>1. W \in Nat /\ W > 0 /\ MAX_SEQ_NO + 1 = 2 * W /\ MAX_SEQ_NO = 2 * W - 1
  BY SRPAssumption DEF W, MAX_SEQ_NO
<1>2. \A i \in Nat : i % (2 * W) \in 0 .. (2 * W) - 1
  BY <1>1
<1>3. \A i \in Nat : ((i % (2 * W)) + 1) % (2 * W) = (i + 1) % (2 * W)
  <2> TAKE i \in Nat
  <2>1. 2 * W \in Nat /\ 2 * W > 0 /\ 1 \in Nat /\ 1 <= 2 * W
    BY <1>1
  <2> QED
    BY <2>1, ModShift, Zenon
<1>4. \A i \in Nat : (i % (2 * W)) % W = i % W
  BY <1>1, ModOfTwice
<1>5. 0 % (2 * W) = 0
  BY <1>1
<1> QED
  BY <1>1, <1>2, <1>3, <1>4, <1>5 DEF SeqNoOf, SeqNos, Succ, SlotOf, W

\* Positions less than two windows apart have different numbers.
LEMMA SeqNoUnique ==
    ASSUME NEW a \in Nat, NEW b \in Nat, SeqNoOf(a) = SeqNoOf(b),
           a < b + 2 * W, b < a + 2 * W
    PROVE  a = b
<1>1. 2 * W \in Nat /\ 2 * W > 0 /\ a % (2 * W) = b % (2 * W)
  BY SeqNoFacts DEF SeqNoOf
<1>2. a - b < 2 * W /\ b - a < 2 * W
  BY <1>1
<1> QED
  BY <1>1, <1>2, ModUnique

\* The slots go round: the characters of a window have one each.
LEMMA SlotFacts ==
    /\ \A i \in Nat \ {0} : SlotFor(i) \in Slots
    /\ \A i \in Nat \ {0} : SlotFor(i + W) = SlotFor(i)
    /\ \A i \in Nat : SlotOf(SeqNoOf(i)) = SlotFor(i + 1)
<1>1. W \in Nat /\ W > 0
  BY SeqNoFacts
<1>2. ASSUME NEW i \in Nat \ {0}
      PROVE  SlotFor(i) \in Slots /\ SlotFor(i + W) = SlotFor(i)
  <2>1. i - 1 \in Nat /\ (i + W) - 1 = (i - 1) + W
    BY <1>1
  <2>2. ((i - 1) + W) % W = (i - 1) % W
    BY <1>1, <2>1, ModTurn
  <2>3. (i - 1) % W \in 0 .. W - 1
    BY <1>1, <2>1
  <2> QED
    BY <2>1, <2>2, <2>3 DEF SlotFor, Slots, W
<1>3. ASSUME NEW i \in Nat PROVE SlotOf(SeqNoOf(i)) = SlotFor(i + 1)
  <2>1. (i + 1) - 1 = i
    OBVIOUS
  <2>2. SlotOf(SeqNoOf(i)) = i % W
    BY SeqNoFacts
  <2> QED
    BY <2>1, <2>2 DEF SlotFor, W
<1> QED
  BY <1>2, <1>3

\* No two characters less than a window apart share a slot.
LEMMA SlotUnique ==
    ASSUME NEW i \in Nat \ {0}, NEW j \in Nat \ {0}, SlotFor(i) = SlotFor(j),
           i < j + W, j < i + W
    PROVE  i = j
<1>1. /\ W \in Nat /\ W > 0 /\ i - 1 \in Nat /\ j - 1 \in Nat
      /\ (i - 1) - (j - 1) < W /\ (j - 1) - (i - 1) < W
  BY SeqNoFacts
<1>2. (i - 1) % W = (j - 1) % W
  BY DEF SlotFor, W
<1>3. i - 1 = j - 1
  BY <1>1, <1>2, ModUnique
<1> QED
  BY <1>3

\* Every slot has a character in a window.
LEMMA SlotCovered ==
    ASSUME NEW b \in Nat, NEW s \in Slots
    PROVE  \E i \in b + 1 .. b + W : SlotFor(i) = s
<1>1. W \in Nat /\ W > 0 /\ s \in 0 .. W - 1
  BY SeqNoFacts DEF Slots, W
<1>2. PICK k \in 0 .. W - 1 : (b + k) % W = s
  BY <1>1, ModCovers
<1>3. (b + k + 1) - 1 = b + k /\ b + k + 1 \in b + 1 .. b + W
  BY <1>1, <1>2
<1>4. SlotFor(b + k + 1) = s
  BY <1>2, <1>3 DEF SlotFor, W
<1> QED
  BY <1>3, <1>4

\* A frame carries its character.
LEMMA FrameFacts ==
    ASSUME NEW i \in Nat \ {0}
    PROVE  /\ FrameOf(i).data = i /\ FrameOf(i).seq_no = SeqNoOf(i - 1)
           /\ FrameOf(i) # None /\ i - 1 \in Nat
           /\ i <= MaxLen => FrameOf(i) \in Frames
<1>1. i - 1 \in Nat /\ SeqNoOf(i - 1) \in SeqNos
  BY SeqNoFacts
<1>2. FrameOf(i).data = i /\ FrameOf(i).seq_no = SeqNoOf(i - 1)
  BY DEF FrameOf
<1>3. FrameOf(i) # None
  <2>1. None.data = 0 /\ i # 0
    BY DEF None
  <2> QED
    BY <1>2, <2>1
<1>4. i <= MaxLen => FrameOf(i) \in Frames
  BY <1>1, SRPAssumption DEF FrameOf, Frames
<1> QED
  BY <1>1, <1>2, <1>3, <1>4

-----------------------------------------------------------------------------
(***************************************************************************)
(* What the lemmas below use of the types and of the windows.              *)
(***************************************************************************)

\* The counters of both ends, and how they lie.
LEMMA Numbers ==
    ASSUME TypeOK, WindowsAgree
    PROVE  /\ next_msg_char \in Nat /\ outstanding_frames \in Nat /\ Base \in Nat
           /\ Delivered \in Nat /\ W \in Nat /\ W > 0
           /\ next_msg_char = Base + outstanding_frames
           /\ Base <= Delivered /\ Delivered <= next_msg_char
           /\ next_msg_char <= Base + W /\ next_msg_char <= MaxLen
           /\ Delivered = Len(data_recvd)
           /\ S_f = SeqNoOf(Base) /\ S_n = SeqNoOf(next_msg_char) /\ R_n = SeqNoOf(Delivered)
<1>1. /\ next_msg_char \in Nat /\ next_msg_char <= MaxLen
      /\ outstanding_frames \in Nat /\ outstanding_frames <= W
      /\ Len(data_recvd) \in Nat
  BY SRPAssumption DEF TypeOK, W
<1>2. Base \in Nat /\ next_msg_char = Base + outstanding_frames
  BY <1>1 DEF WindowsAgree, SenderWindow, Base
<1>3. Delivered \in Base .. next_msg_char
  BY DEF WindowsAgree, ReceiverWindow
<1> QED
  BY <1>1, <1>2, <1>3, SeqNoFacts DEF Delivered, WindowsAgree, SenderWindow, ReceiverWindow

\* A slot of the sender is empty or holds an unacknowledged frame.
LEMMA SenderSlot ==
    ASSUME TypeOK, WindowsAgree, NEW s \in Slots
    PROVE  \/ pbuffer[s] = None
           \/ \E i \in Base + 1 .. next_msg_char : s = SlotFor(i) /\ pbuffer[s] = FrameOf(i)
<1>1. PICK i \in Base + 1 .. Base + W : SlotFor(i) = s
  BY Numbers, SlotCovered
<1>2. CASE i <= next_msg_char
  <2>1. i \in Base + 1 .. next_msg_char
    BY <1>2, Numbers
  <2>2. pbuffer[SlotFor(i)] = FrameOf(i)
    BY <2>1 DEF WindowsAgree, SenderWindow
  <2> QED
    BY <2>1, <2>2, <1>1
<1>3. CASE i > next_msg_char
  <2>1. i \in next_msg_char + 1 .. Base + W
    BY <1>3, Numbers
  <2>2. pbuffer[SlotFor(i)] = None
    BY <2>1 DEF WindowsAgree, SenderWindow, W
  <2> QED
    BY <2>2, <1>1
<1> QED
  BY <1>2, <1>3, Numbers

\* A slot of the receiver is empty or holds a frame it has not delivered.
LEMMA ReceiverSlot ==
    ASSUME TypeOK, WindowsAgree, NEW s \in Slots
    PROVE  \/ rbuffer[s] = None
           \/ \E i \in Delivered + 1 .. next_msg_char : s = SlotFor(i) /\ rbuffer[s] = FrameOf(i)
<1>1. PICK i \in Delivered + 1 .. Delivered + W : SlotFor(i) = s
  BY Numbers, SlotCovered
<1>2. /\ rbuffer[SlotFor(i)] \in {None, FrameOf(i)}
      /\ i > next_msg_char => rbuffer[SlotFor(i)] = None
  BY <1>1 DEF WindowsAgree, ReceiverWindow, W
<1>3. i <= next_msg_char => i \in Delivered + 1 .. next_msg_char
  BY Numbers
<1> QED
  BY <1>1, <1>2, <1>3, Numbers

\* A frame on its way, with bounds for the arithmetic.
LEMMA FrameOnItsWay ==
    ASSUME TypeOK, WindowsAgree, NEW i \in 1 .. Len(toReceiver)
    PROVE  /\ toReceiver[i] \in Frames
           /\ toReceiver[i].data \in Nat \ {0} /\ toReceiver[i].data - 1 \in Nat
           /\ toReceiver[i] = FrameOf(toReceiver[i].data)
           /\ toReceiver[i].seq_no = SeqNoOf(toReceiver[i].data - 1)
           /\ toReceiver[i].data <= next_msg_char
           /\ Delivered < toReceiver[i].data + W /\ toReceiver[i].data <= Delivered + W
<1>1. toReceiver[i] \in Frames
  BY DEF TypeOK
<1>2. toReceiver[i].data \in Nat \ {0}
  BY <1>1, SRPAssumption DEF Frames
<1>3. /\ toReceiver[i] = FrameOf(toReceiver[i].data)
      /\ toReceiver[i].data <= next_msg_char
      /\ Delivered < toReceiver[i].data + W
  BY DEF WindowsAgree, FramesInWindow, W
<1>4. toReceiver[i].seq_no = SeqNoOf(toReceiver[i].data - 1)
  BY <1>2, <1>3, FrameFacts
<1>5. toReceiver[i].data <= Delivered + W
  BY <1>2, <1>3, Numbers
<1> QED
  BY <1>1, <1>2, <1>3, <1>4, <1>5

\* A reply on its way, likewise.
LEMMA ReplyOnItsWay ==
    ASSUME TypeOK, WindowsAgree, NEW i \in 1 .. Len(toSender)
    PROVE  /\ toSender[i] \in Replies /\ toSender[i].upto \in Nat
           /\ toSender[i].seq_no = SeqNoOf(toSender[i].upto)
           /\ Base <= toSender[i].upto /\ toSender[i].upto <= Delivered
<1>1. toSender[i] \in Replies
  BY DEF TypeOK
<1>2. toSender[i].upto \in Nat
  BY <1>1, SRPAssumption DEF Replies
<1> QED
  BY <1>1, <1>2, Numbers DEF WindowsAgree, RepliesInWindow

\* The number of a frame on its way is valid exactly if its character is missing,
\* and then the character is in the receiver's window.
LEMMA ValidMeansNew ==
    ASSUME TypeOK, WindowsAgree, NEW i \in 1 .. Len(toReceiver)
    PROVE  IsValidSeqno(toReceiver[i].seq_no) <=> toReceiver[i].data > Delivered
<1> DEFINE d == toReceiver[i].data
<1>1. /\ d \in Nat \ {0} /\ d - 1 \in Nat /\ toReceiver[i].seq_no = SeqNoOf(d - 1)
      /\ Delivered < d + W /\ d <= Delivered + W
  BY FrameOnItsWay
<1>2. Delivered \in Nat /\ W \in Nat /\ W > 0 /\ R_n = SeqNoOf(Delivered)
  BY Numbers
<1> HIDE DEF d
<1>3. ASSUME NEW k \in 0 .. W - 1
      PROVE  (R_n + k) % (MAX_SEQ_NO + 1) = SeqNoOf(Delivered + k)
  <2>1. 2 * W \in Nat /\ 2 * W > 0 /\ k \in Nat /\ k <= 2 * W
    BY <1>2
  <2>2. ((Delivered % (2 * W)) + k) % (2 * W) = (Delivered + k) % (2 * W)
    BY <2>1, <1>2, ModShift, Zenon
  <2> QED
    BY <2>2, <1>2, SeqNoFacts DEF SeqNoOf
<1>4. ASSUME d > Delivered PROVE IsValidSeqno(toReceiver[i].seq_no)
  <2>1. (d - 1) - Delivered \in 0 .. W - 1 /\ Delivered + ((d - 1) - Delivered) = d - 1
    BY <1>1, <1>2, <1>4
  <2>2. toReceiver[i].seq_no = (R_n + ((d - 1) - Delivered)) % (MAX_SEQ_NO + 1)
    BY <1>1, <1>3, <2>1
  <2> QED
    BY <2>1, <2>2 DEF IsValidSeqno, W
<1>5. ASSUME IsValidSeqno(toReceiver[i].seq_no) PROVE d > Delivered
  <2>1. PICK k \in 0 .. W - 1 : toReceiver[i].seq_no = (R_n + k) % (MAX_SEQ_NO + 1)
    BY <1>5 DEF IsValidSeqno, W
  <2>2. SeqNoOf(d - 1) = SeqNoOf(Delivered + k)
    BY <2>1, <1>1, <1>3
  <2>3. Delivered + k \in Nat /\ d - 1 < (Delivered + k) + 2 * W /\ Delivered + k < (d - 1) + 2 * W
    BY <1>1, <1>2
  <2>4. d - 1 = Delivered + k
    BY <2>2, <2>3, <1>1, SeqNoUnique
  <2> QED
    BY <2>4, <1>1, <1>2
<1> QED
  BY <1>4, <1>5 DEF d

-----------------------------------------------------------------------------
(***************************************************************************)
(* The two channels.                                                       *)
(***************************************************************************)

\* A frame is sent, for the first time or again: it is of the sender's window.
LEMMA AppendFrame ==
    ASSUME TypeOK, WindowsAgree,
           next_msg_char' \in Nat, next_msg_char <= next_msg_char',
           next_msg_char' <= Base + W, next_msg_char' <= MaxLen,
           NEW n \in Base + 1 .. next_msg_char',
           toReceiver' = Append(toReceiver, FrameOf(n)),
           UNCHANGED <<data_recvd, rbuffer>>
    PROVE  FramesInWindow' /\ toReceiver' \in Seq(Frames)
<1> DEFINE L == Len(toReceiver)
<1>1. n \in Nat \ {0} /\ FrameOf(n) \in Frames /\ FrameOf(n).data = n
  <2>1. n \in Nat \ {0} /\ n <= MaxLen
    BY Numbers, SRPAssumption
  <2> QED
    BY <2>1, FrameFacts
<1>2. /\ toReceiver \in Seq(Frames) /\ L \in Nat
      /\ toReceiver' \in Seq(Frames) /\ Len(toReceiver') = L + 1
      /\ \A i \in 1 .. L + 1 :
             toReceiver'[i] = IF i <= L THEN toReceiver[i] ELSE FrameOf(n)
  BY <1>1 DEF TypeOK
<1> HIDE DEF L
<1>3. Delivered' = Delivered
  BY DEF Delivered
<1>4. ASSUME NEW s \in Slots PROVE rbuffer'[s].data < n + W
  <2>1. CASE rbuffer[s] = None
    BY <2>1, <1>1, Numbers DEF None
  <2>2. ASSUME NEW i \in Delivered + 1 .. next_msg_char, rbuffer[s] = FrameOf(i)
        PROVE  rbuffer'[s].data < n + W
    <3>1. rbuffer'[s].data = i
      BY <2>2, FrameFacts, Numbers
    <3> QED
      BY <3>1, Numbers
  <2> QED
    BY <2>1, <2>2, ReceiverSlot
<1>5. ASSUME NEW i \in 1 .. L + 1
      PROVE  /\ toReceiver'[i] = FrameOf(toReceiver'[i].data)
             /\ toReceiver'[i].data <= next_msg_char'
             /\ Delivered' < toReceiver'[i].data + SRP_WINDOW_SIZE
             /\ \A s \in Slots : rbuffer'[s].data < toReceiver'[i].data + SRP_WINDOW_SIZE
  <2>1. CASE i <= L
    <3>1. i \in 1 .. L /\ toReceiver'[i] = toReceiver[i]
      BY <2>1, <1>2
    <3>2. i \in 1 .. Len(toReceiver)
      BY <3>1 DEF L
    <3>3. /\ toReceiver[i] = FrameOf(toReceiver[i].data)
          /\ toReceiver[i].data <= next_msg_char /\ toReceiver[i].data \in Nat
      BY <3>2, FrameOnItsWay
    <3>4. /\ Delivered < toReceiver[i].data + SRP_WINDOW_SIZE
          /\ \A s \in Slots : rbuffer[s].data < toReceiver[i].data + SRP_WINDOW_SIZE
      BY <3>2 DEF WindowsAgree, FramesInWindow
    <3>5. toReceiver[i].data <= next_msg_char'
      BY <3>3, Numbers
    <3> QED
      BY <3>1, <3>3, <3>4, <3>5, <1>3
  <2>2. CASE i = L + 1
    <3>1. toReceiver'[i] = FrameOf(n)
      BY <2>2, <1>2
    <3>2. Delivered < n + W
      BY Numbers
    <3> QED
      BY <3>1, <3>2, <1>1, <1>3, <1>4 DEF W
  <2> QED
    BY <2>1, <2>2, <1>2
<1>6. ASSUME NEW i \in 1 .. L + 1, NEW j \in 1 .. L + 1, i < j
      PROVE  toReceiver'[i].data < toReceiver'[j].data + SRP_WINDOW_SIZE
  <2>1. i \in 1 .. L /\ toReceiver'[i] = toReceiver[i] /\ i \in 1 .. Len(toReceiver)
    BY <1>2, <1>6 DEF L
  <2>2. CASE j <= L
    <3>1. j \in 1 .. Len(toReceiver) /\ toReceiver'[j] = toReceiver[j]
      BY <2>2, <1>2 DEF L
    <3> QED
      BY <3>1, <2>1, <1>6 DEF WindowsAgree, FramesInWindow
  <2>3. CASE j = L + 1
    <3>1. toReceiver'[j].data = n
      BY <2>3, <1>1, <1>2
    <3>2. toReceiver[i].data <= next_msg_char /\ toReceiver[i].data \in Nat
      BY <2>1, FrameOnItsWay
    <3>3. toReceiver[i].data < n + W
      BY <3>2, Numbers
    <3> QED
      BY <3>1, <3>3, <2>1 DEF W
  <2> QED
    BY <2>2, <2>3, <1>2
<1> QED
  BY <1>2, <1>5, <1>6 DEF FramesInWindow

\* A frame is taken off; it may go into a slot of the receiver.
LEMMA TailFrames ==
    ASSUME TypeOK, WindowsAgree, toReceiver # <<>>, toReceiver' = Tail(toReceiver),
           UNCHANGED <<next_msg_char, data_recvd>>,
           \A s \in Slots : rbuffer'[s] \in {rbuffer[s], toReceiver[1]}
    PROVE  FramesInWindow' /\ toReceiver' \in Seq(Frames)
<1>1. /\ Len(toReceiver') = Len(toReceiver) - 1 /\ Len(toReceiver) \in Nat
      /\ toReceiver' \in Seq(Frames) /\ Len(toReceiver) > 0
  BY DEF TypeOK
<1>2. \A i \in 1 .. Len(toReceiver') : toReceiver'[i] = toReceiver[i + 1]
  BY <1>1 DEF TypeOK
<1>3. /\ 1 \in 1 .. Len(toReceiver)
      /\ \A i \in 1 .. Len(toReceiver') : i + 1 \in 1 .. Len(toReceiver) /\ 1 < i + 1
  BY <1>1
<1>4. FramesInWindow /\ Delivered' = Delivered
  BY DEF WindowsAgree, Delivered
<1>5. ASSUME NEW i \in 1 .. Len(toReceiver'), NEW s \in Slots
      PROVE  rbuffer'[s].data < toReceiver'[i].data + SRP_WINDOW_SIZE
  <2>1. rbuffer[s].data < toReceiver[i + 1].data + SRP_WINDOW_SIZE
    BY <1>3, <1>4 DEF FramesInWindow
  <2>2. toReceiver[1].data < toReceiver[i + 1].data + SRP_WINDOW_SIZE
    BY <1>3, <1>4 DEF FramesInWindow
  <2> QED
    BY <2>1, <2>2, <1>2
<1>6. ASSUME NEW i \in 1 .. Len(toReceiver')
      PROVE  /\ toReceiver'[i] = FrameOf(toReceiver'[i].data)
             /\ toReceiver'[i].data <= next_msg_char'
             /\ Delivered' < toReceiver'[i].data + SRP_WINDOW_SIZE
  BY <1>2, <1>3, <1>4 DEF FramesInWindow
<1>7. \A i, j \in 1 .. Len(toReceiver') :
          i < j => toReceiver'[i].data < toReceiver'[j].data + SRP_WINDOW_SIZE
  BY <1>1, <1>2, <1>3, <1>4 DEF FramesInWindow
<1> QED
  BY <1>1, <1>5, <1>6, <1>7 DEF FramesInWindow

\* A reply is taken off: those behind it say no less than it did.
LEMMA TailReplies ==
    ASSUME TypeOK, WindowsAgree, toSender # <<>>, toSender' = Tail(toSender),
           UNCHANGED data_recvd, Base' \in {Base, toSender[1].upto}
    PROVE  RepliesInWindow' /\ toSender' \in Seq(Replies)
<1>1. /\ Len(toSender') = Len(toSender) - 1 /\ Len(toSender) \in Nat
      /\ toSender' \in Seq(Replies) /\ Len(toSender) > 0
  BY DEF TypeOK
<1>2. \A i \in 1 .. Len(toSender') : toSender'[i] = toSender[i + 1]
  BY <1>1 DEF TypeOK
<1>3. /\ 1 \in 1 .. Len(toSender)
      /\ \A i \in 1 .. Len(toSender') : i + 1 \in 1 .. Len(toSender) /\ 1 < i + 1
  BY <1>1
<1>4. RepliesInWindow /\ Delivered' = Delivered
  BY DEF WindowsAgree, Delivered
<1>5. ASSUME NEW i \in 1 .. Len(toSender')
      PROVE  /\ toSender'[i].seq_no = SeqNoOf(toSender'[i].upto)
             /\ toSender'[i].upto \in Base' .. Delivered'
  <2>1. toSender[1].upto <= toSender[i + 1].upto
    BY <1>3, <1>4 DEF RepliesInWindow
  <2>2. /\ toSender[i + 1].seq_no = SeqNoOf(toSender[i + 1].upto)
        /\ toSender[i + 1].upto \in Nat /\ toSender[1].upto \in Nat
        /\ Base <= toSender[i + 1].upto /\ toSender[i + 1].upto <= Delivered
    BY <1>3, ReplyOnItsWay
  <2> QED
    BY <2>1, <2>2, <1>2, <1>4, Numbers
<1>6. \A i, j \in 1 .. Len(toSender') : i < j => toSender'[i].upto <= toSender'[j].upto
  BY <1>1, <1>2, <1>3, <1>4 DEF RepliesInWindow
<1> QED
  BY <1>1, <1>5, <1>6 DEF RepliesInWindow

\* Replies are sent: they say how far the receiver is, which is no less than ever.
LEMMA SendReplies ==
    ASSUME TypeOK, WindowsAgree, NEW q \in Seq({Reply("ACK"), Reply("NACK")}),
           toSender' \in {toSender, toSender \o q},
           UNCHANGED <<next_msg_char, outstanding_frames, data_recvd>>
    PROVE  RepliesInWindow' /\ toSender' \in Seq(Replies)
<1> DEFINE L == Len(toSender)
           K == Len(q)
<1>0. Base' = Base /\ Delivered' = Delivered
  BY DEF Base, Delivered
<1>1. ASSUME NEW r \in {Reply("ACK"), Reply("NACK")}
      PROVE  r \in Replies /\ r.upto = Delivered /\ r.seq_no = SeqNoOf(Delivered)
  <2>1. PICK t \in {"ACK", "NACK"} : r = Reply(t)
    OBVIOUS
  <2>2. r = [ptype |-> t, seq_no |-> R_n, upto |-> Delivered]
    BY <2>1 DEF Reply, Delivered
  <2>3. R_n \in SeqNos /\ Delivered \in 0 .. MaxLen /\ R_n = SeqNoOf(Delivered)
    BY Numbers, SRPAssumption DEF TypeOK
  <2> QED
    BY <2>2, <2>3 DEF Replies
<1>2. /\ L \in Nat /\ K \in Nat /\ toSender \in Seq(Replies) /\ q \in Seq(Replies)
      /\ \A i \in 1 .. K : q[i] \in {Reply("ACK"), Reply("NACK")}
  <2>1. ASSUME NEW S, S \subseteq Replies, q \in Seq(S)
        PROVE  K \in Nat /\ q \in Seq(Replies) /\ \A i \in 1 .. K : q[i] \in S
    BY <2>1
  <2>2. {Reply("ACK"), Reply("NACK")} \subseteq Replies
    BY <1>1
  <2>3. K \in Nat /\ q \in Seq(Replies) /\ \A i \in 1 .. K : q[i] \in {Reply("ACK"), Reply("NACK")}
    BY <2>1, <2>2, Zenon
  <2>4. toSender \in Seq(Replies) /\ L \in Nat
    BY DEF TypeOK
  <2> QED
    BY <2>3, <2>4
<1>3. CASE toSender' = toSender
  BY <1>0, <1>3 DEF WindowsAgree, RepliesInWindow, TypeOK
<1>4. CASE toSender' = toSender \o q
  <2>1. /\ toSender' \in Seq(Replies) /\ Len(toSender') = L + K
        /\ \A i \in 1 .. L + K :
               toSender'[i] = IF i <= L THEN toSender[i] ELSE q[i - L]
    BY <1>2, <1>4
  <2> HIDE DEF L, K
  <2>2. ASSUME NEW i \in 1 .. L + K
        PROVE  /\ i <= L => /\ i \in 1 .. Len(toSender) /\ toSender'[i] = toSender[i]
               /\ i > L => toSender'[i].upto = Delivered
               /\ toSender'[i].seq_no = SeqNoOf(toSender'[i].upto)
               /\ toSender'[i].upto \in Base .. Delivered
    <3>1. CASE i <= L
      <4>1. i \in 1 .. Len(toSender) /\ toSender'[i] = toSender[i] /\ ~ (i > L)
        BY <3>1, <2>1, <1>2 DEF L
      <4> QED
        BY <4>1 DEF WindowsAgree, RepliesInWindow
    <3>2. CASE i > L
      <4>1. i - L \in 1 .. K /\ toSender'[i] = q[i - L] /\ ~ (i <= L)
        BY <3>2, <2>1, <1>2
      <4>2. toSender'[i].upto = Delivered /\ toSender'[i].seq_no = SeqNoOf(Delivered)
        BY <4>1, <1>1, <1>2
      <4> QED
        BY <4>1, <4>2, Numbers
    <3> QED
      BY <3>1, <3>2, <1>2
  <2>3. ASSUME NEW i \in 1 .. L + K, NEW j \in 1 .. L + K, i < j
        PROVE  toSender'[i].upto <= toSender'[j].upto
    <3>1. CASE j <= L
      <4>1. i <= L
        BY <3>1, <2>3, <1>2
      <4> QED
        BY <4>1, <3>1, <2>2, <2>3 DEF WindowsAgree, RepliesInWindow
    <3>2. CASE j > L
      <4>1. toSender'[j].upto = Delivered /\ toSender'[i].upto \in Base .. Delivered
        BY <3>2, <2>2
      <4> QED
        BY <4>1, Numbers
    <3> QED
      BY <3>1, <3>2, <1>2
  <2> QED
    BY <2>1, <2>2, <2>3, <1>0 DEF RepliesInWindow
<1> QED
  BY <1>3, <1>4

-----------------------------------------------------------------------------
(***************************************************************************)
(* The steps of the sender.                                                *)
(***************************************************************************)

\* A new frame goes out at the end of the window.
LEMMA SendFrameSafe ==
    ASSUME TypeOK, WindowsAgree, SendFrame
    PROVE  TypeOK' /\ WindowsAgree' /\ Base' = Base
<1> DEFINE n == next_msg_char + 1
<1>1. /\ spc = "send" /\ outstanding_frames < W /\ next_msg_char < msglen
      /\ next_msg_char' = n
      /\ pbuffer' = [pbuffer EXCEPT ![SlotOf(S_n)] = [seq_no |-> S_n, data |-> n]]
      /\ toReceiver' = Append(toReceiver, [seq_no |-> S_n, data |-> n])
      /\ S_n' = Succ(S_n) /\ outstanding_frames' = outstanding_frames + 1 /\ spc' = "poll"
      /\ UNCHANGED <<msglen, S_f, premature, receiverVars, toSender, conn>>
  BY DEF SendFrame, MaySend, W
<1>2. /\ n \in Nat \ {0} /\ n = next_msg_char + 1 /\ n <= msglen /\ n <= MaxLen
      /\ n <= Base + W /\ Base + 1 <= n /\ n - 1 = next_msg_char
  BY <1>1, Numbers, SRPAssumption DEF TypeOK
<1> HIDE DEF n
<1>3. [seq_no |-> S_n, data |-> n] = FrameOf(n) /\ SlotOf(S_n) = SlotFor(n)
  BY <1>2, Numbers, SlotFacts DEF FrameOf
<1>4. FrameOf(n) \in Frames /\ SlotFor(n) \in Slots
  BY <1>2, FrameFacts, SlotFacts
<1>5. Base' = Base
  <2>1. n - (outstanding_frames + 1) = next_msg_char - outstanding_frames
    BY <1>2, Numbers
  <2> QED
    BY <1>1, <2>1 DEF Base
<1>6. FramesInWindow' /\ toReceiver' \in Seq(Frames)
  <2>1. next_msg_char' \in Nat /\ next_msg_char <= next_msg_char'
        /\ next_msg_char' <= Base + W /\ next_msg_char' <= MaxLen
    BY <1>1, <1>2, Numbers
  <2>2. n \in Base + 1 .. next_msg_char'
    BY <1>1, <1>2, Numbers
  <2>3. toReceiver' = Append(toReceiver, FrameOf(n)) /\ UNCHANGED <<data_recvd, rbuffer>>
    BY <1>1, <1>3 DEF receiverVars, collected
  <2> QED
    BY <2>1, <2>2, <2>3, AppendFrame
<1>7. SenderWindow'
  <2>0. S_n' = SeqNoOf(n) /\ S_f' = SeqNoOf(Base') /\ Base' >= 0
    <3>1. Base' \in Nat /\ S_f' = SeqNoOf(Base')
      BY <1>1, <1>5, Numbers
    <3>2. S_n' = Succ(SeqNoOf(next_msg_char)) /\ next_msg_char \in Nat
      BY <1>1, Numbers
    <3>3. S_n' = SeqNoOf(next_msg_char + 1)
      BY <3>2, SeqNoFacts
    <3> QED
      BY <3>1, <3>3, <1>2
  <2>1. \A s \in Slots : pbuffer'[s] = IF s = SlotFor(n) THEN FrameOf(n) ELSE pbuffer[s]
    BY <1>1, <1>3 DEF TypeOK
  <2>2. ASSUME NEW i \in Base + 1 .. Base + W, i # n PROVE pbuffer'[SlotFor(i)] = pbuffer[SlotFor(i)]
    <3>1. i \in Nat \ {0} /\ i < n + W /\ n < i + W
      BY <1>2, Numbers
    <3>2. SlotFor(i) # SlotFor(n) /\ SlotFor(i) \in Slots
      BY <2>2, <3>1, <1>2, SlotUnique, SlotFacts
    <3> QED
      BY <3>2, <2>1
  <2>3. ASSUME NEW i \in Base + 1 .. n PROVE pbuffer'[SlotFor(i)] = FrameOf(i)
    <3>1. CASE i = n
      BY <3>1, <2>1, <1>4
    <3>2. CASE i # n
      <4>1. i \in Base + 1 .. next_msg_char /\ i \in Base + 1 .. Base + W
        BY <3>2, <1>2, Numbers
      <4> QED
        BY <4>1, <3>2, <2>2 DEF WindowsAgree, SenderWindow
    <3> QED
      BY <3>1, <3>2
  <2>4. ASSUME NEW i \in n + 1 .. Base + W PROVE pbuffer'[SlotFor(i)] = None
    <3>1. i # n /\ i \in next_msg_char + 1 .. Base + W /\ i \in Base + 1 .. Base + W
      BY <1>2, Numbers
    <3> QED
      BY <3>1, <2>2 DEF WindowsAgree, SenderWindow, W
  <2> QED
    BY <2>0, <2>3, <2>4, <1>1, <1>5 DEF SenderWindow, W
<1>8. ReceiverWindow'
  <2>1. Delivered' = Delivered /\ UNCHANGED <<R_n, rbuffer, data_recvd>>
    BY <1>1 DEF receiverVars, collected, Delivered
  <2>2. \A i \in Delivered + 1 .. Delivered + SRP_WINDOW_SIZE :
            i > n => rbuffer[SlotFor(i)] = None
    <3>1. TAKE i \in Delivered + 1 .. Delivered + SRP_WINDOW_SIZE
    <3>2. i > n => i > next_msg_char
      BY <1>2, Numbers
    <3> QED
      BY <3>2 DEF WindowsAgree, ReceiverWindow
  <2>3. Delivered \in Base .. n
    BY <1>2, Numbers
  <2> QED
    BY <2>1, <2>2, <2>3, <1>1, <1>5 DEF WindowsAgree, ReceiverWindow
<1>9. RepliesInWindow'
  BY <1>1, <1>5 DEF WindowsAgree, RepliesInWindow, receiverVars, collected, Delivered
<1>10. TypeOK'
  <2>1. pbuffer' \in [Slots -> Frames \cup {None}]
    BY <1>1, <1>3, <1>4 DEF TypeOK
  <2>2. next_msg_char' \in 0 .. msglen' /\ outstanding_frames' \in 0 .. SRP_WINDOW_SIZE
    BY <1>1, <1>2, Numbers DEF TypeOK, W
  <2>3. S_n' \in SeqNos
    BY <1>1, <1>2, Numbers, SeqNoFacts
  <2> QED
    BY <2>1, <2>2, <2>3, <1>1, <1>6 DEF TypeOK, receiverVars, collected
<1> QED
  BY <1>5, <1>6, <1>7, <1>8, <1>9, <1>10 DEF WindowsAgree

\* A frame is sent again, whatever asked for it.
LEMMA ResendSafe ==
    ASSUME TypeOK, WindowsAgree, NEW s \in Slots, pbuffer[s] # None,
           toReceiver' = Append(toReceiver, pbuffer[s]),
           UNCHANGED <<window, collected>>
    PROVE  FramesInWindow' /\ toReceiver' \in Seq(Frames)
<1>1. PICK i \in Base + 1 .. next_msg_char : pbuffer[s] = FrameOf(i)
  BY SenderSlot
<1>2. next_msg_char' = next_msg_char /\ UNCHANGED <<data_recvd, rbuffer>>
  BY DEF window, collected
<1>3. /\ next_msg_char' \in Nat /\ next_msg_char <= next_msg_char'
      /\ next_msg_char' <= Base + W /\ next_msg_char' <= MaxLen
      /\ i \in Base + 1 .. next_msg_char'
  BY <1>1, <1>2, Numbers
<1> QED
  BY <1>1, <1>2, <1>3, AppendFrame

\* What an unchanged window is good for.
LEMMA SameWindows ==
    ASSUME TypeOK, WindowsAgree, UNCHANGED <<window, collected>>
    PROVE  SenderWindow' /\ ReceiverWindow' /\ Base' = Base /\ Delivered' = Delivered
  BY DEF WindowsAgree, SenderWindow, ReceiverWindow, window, collected, Base, Delivered

\* An acknowledgement moves the window to what it acknowledges, and the frames
\* that leave are those before it.
LEMMA AcceptAckMoves ==
    ASSUME TypeOK, WindowsAgree, AcceptAck
    PROVE  /\ Base' = Head(toSender).upto
           /\ Head(toSender).upto \in Base .. Delivered
           /\ SenderWindow'
           /\ outstanding_frames' \in 0 .. SRP_WINDOW_SIZE
           /\ pbuffer' \in [Slots -> Frames \cup {None}]
           /\ spc' = EndOfTurn(outstanding_frames')
<1> DEFINE u == Head(toSender).upto
           n == u - Base
<1>1. toSender # <<>> /\ Head(toSender) = toSender[1] /\ 1 \in 1 .. Len(toSender)
      /\ Head(toSender).seq_no = SeqNoOf(u)
  <2>1. toSender # <<>>
    BY DEF AcceptAck, TakeReply
  <2>2. Head(toSender) = toSender[1] /\ 1 \in 1 .. Len(toSender)
    BY <2>1 DEF TypeOK
  <2> QED
    BY <2>1, <2>2, ReplyOnItsWay
<1>2. u \in Nat /\ Base <= u /\ u <= Delivered
  BY <1>1, ReplyOnItsWay
<1>3. n \in Nat /\ n <= outstanding_frames /\ n <= W /\ u = Base + n
  BY <1>2, Numbers
<1> HIDE DEF u
<1>4. (Head(toSender).seq_no - S_f) % (MAX_SEQ_NO + 1) = n
  <2>1. 2 * W \in Nat /\ 2 * W > 0 /\ u - Base < 2 * W
    BY <1>3, Numbers
  <2>2. ((u % (2 * W)) - (Base % (2 * W))) % (2 * W) = u - Base
    BY <2>1, <1>2, Numbers, ModDifference
  <2> QED
    BY <2>2, <1>1, Numbers, SeqNoFacts DEF SeqNoOf
<1> HIDE DEF n
<1>5. ASSUME NEW k \in 0 .. n - 1
      PROVE  SlotOf((S_f + k) % (MAX_SEQ_NO + 1)) = SlotFor(Base + k + 1)
  <2>1. 2 * W \in Nat /\ 2 * W > 0 /\ k \in Nat /\ k <= 2 * W /\ Base + k \in Nat
    BY <1>3, Numbers
  <2>2. ((Base % (2 * W)) + k) % (2 * W) = (Base + k) % (2 * W)
    BY <2>1, Numbers, ModShift, Zenon
  <2>3. (S_f + k) % (MAX_SEQ_NO + 1) = SeqNoOf(Base + k)
    BY <2>2, Numbers, SeqNoFacts DEF SeqNoOf
  <2> QED
    BY <2>1, <2>3, SlotFacts
<1> DEFINE Acknowledged(s) ==
               \E k \in 0 .. n - 1 : s = SlotOf((S_f + k) % (MAX_SEQ_NO + 1))
<1>6. /\ pbuffer' = [s \in Slots |-> IF Acknowledged(s) THEN None ELSE pbuffer[s]]
      /\ S_f' = Head(toSender).seq_no
      /\ outstanding_frames' = outstanding_frames - n
      /\ spc' = EndOfTurn(outstanding_frames - n)
      /\ UNCHANGED <<next_msg_char, S_n>>
  BY <1>4 DEF AcceptAck, TakeReply
<1>7. ASSUME NEW s \in Slots
      PROVE  Acknowledged(s) <=> \E i \in Base + 1 .. u : s = SlotFor(i)
  <2>1. ASSUME NEW k \in 0 .. n - 1, s = SlotOf((S_f + k) % (MAX_SEQ_NO + 1))
        PROVE  \E i \in Base + 1 .. u : s = SlotFor(i)
    <3>1. Base + k + 1 \in Base + 1 .. u
      BY <1>3, Numbers
    <3> QED
      BY <3>1, <2>1, <1>5
  <2>2. ASSUME NEW i \in Base + 1 .. u, s = SlotFor(i) PROVE Acknowledged(s)
    <3>1. i - Base - 1 \in 0 .. n - 1 /\ Base + (i - Base - 1) + 1 = i
      BY <1>3, Numbers
    <3> QED
      BY <3>1, <2>2, <1>5
  <2> QED
    BY <2>1, <2>2
<1> HIDE DEF Acknowledged
<1>8. Base' = u
  <2>1. next_msg_char - (outstanding_frames - n) = u
    BY <1>3, Numbers
  <2> QED
    BY <2>1, <1>6 DEF Base
<1>9. ASSUME NEW i \in u + 1 .. u + W
      PROVE  pbuffer'[SlotFor(i)] = IF i <= next_msg_char THEN FrameOf(i) ELSE None
  <2>0. i \in Nat \ {0} /\ SlotFor(i) \in Slots
    <3>1. i \in Nat \ {0}
      BY <1>2, Numbers
    <3> QED
      BY <3>1, SlotFacts
  <2>1. CASE i <= Base + W
    <3>1. ASSUME NEW j \in Base + 1 .. u PROVE SlotFor(i) # SlotFor(j)
      <4>1. j \in Nat \ {0} /\ i < j + W /\ j < i + W /\ i # j
        BY <2>1, <1>2, Numbers
      <4> QED
        BY <4>1, <2>0, SlotUnique
    <3>2. pbuffer'[SlotFor(i)] = pbuffer[SlotFor(i)]
      BY <3>1, <2>0, <1>6, <1>7
    <3>3. CASE i <= next_msg_char
      <4>1. i \in Base + 1 .. next_msg_char
        BY <3>3, <1>2, Numbers
      <4> QED
        BY <4>1, <3>2, <3>3 DEF WindowsAgree, SenderWindow
    <3>4. CASE ~ (i <= next_msg_char)
      <4>1. i \in next_msg_char + 1 .. Base + W
        BY <3>4, <2>1, <2>0, Numbers
      <4> QED
        BY <4>1, <3>2, <3>4 DEF WindowsAgree, SenderWindow, W
    <3> QED
      BY <3>3, <3>4
  <2>2. CASE i > Base + W
    <3>1. i - W \in Base + 1 .. u /\ i - W \in Nat \ {0} /\ (i - W) + W = i
      BY <2>2, <2>0, <1>2, <1>3, Numbers, SMTT(30)
    <3>2. SlotFor(i) = SlotFor(i - W)
      BY <3>1, SlotFacts
    <3>3. pbuffer'[SlotFor(i)] = None
      BY <3>1, <3>2, <2>0, <1>6, <1>7
    <3>4. ~ (i <= next_msg_char)
      BY <2>2, <2>0, Numbers
    <3> QED
      BY <3>3, <3>4
  <2> QED
    BY <2>1, <2>2, <2>0, Numbers
<1>10. SenderWindow'
  <2>1. S_f' = SeqNoOf(u) /\ S_n' = SeqNoOf(next_msg_char')
    BY <1>1, <1>6, Numbers
  <2>2. ASSUME NEW i \in u + 1 .. next_msg_char PROVE pbuffer'[SlotFor(i)] = FrameOf(i)
    <3>1. i \in u + 1 .. u + W /\ i <= next_msg_char
      BY <1>2, Numbers
    <3> QED
      BY <3>1, <1>9
  <2>3. ASSUME NEW i \in next_msg_char + 1 .. u + W PROVE pbuffer'[SlotFor(i)] = None
    <3>1. i \in u + 1 .. u + W /\ ~ (i <= next_msg_char)
      BY <1>2, Numbers
    <3> QED
      BY <3>1, <1>9
  <2>4. /\ \A i \in Base' + 1 .. next_msg_char' : pbuffer'[SlotFor(i)] = FrameOf(i)
        /\ \A i \in next_msg_char' + 1 .. Base' + SRP_WINDOW_SIZE : pbuffer'[SlotFor(i)] = None
    BY <2>2, <2>3, <1>6, <1>8 DEF W
  <2>5. Base' >= 0 /\ S_f' = SeqNoOf(Base')
    BY <2>1, <1>2, <1>8
  <2> QED
    BY <2>1, <2>4, <2>5 DEF SenderWindow
<1>11. outstanding_frames' \in 0 .. SRP_WINDOW_SIZE
  BY <1>3, <1>6, Numbers DEF W
<1>12. pbuffer' \in [Slots -> Frames \cup {None}]
  BY <1>6 DEF TypeOK
<1> QED
  BY <1>2, <1>6, <1>8, <1>10, <1>11, <1>12, Numbers DEF u

\* The acknowledgements behind it acknowledge no less.
LEMMA AcceptAckSafe ==
    ASSUME TypeOK, WindowsAgree, AcceptAck
    PROVE  TypeOK' /\ WindowsAgree'
<1>1. /\ toSender # <<>> /\ toSender' = Tail(toSender) /\ Head(toSender) = toSender[1]
      /\ S_f' = Head(toSender).seq_no
      /\ UNCHANGED <<msglen, next_msg_char, S_n, premature, receiverVars, conn, toReceiver>>
  BY DEF AcceptAck, TakeReply, TypeOK
<1>2. UNCHANGED <<R_n, rbuffer, ack_needed, data_recvd, nack_sent, rpc>>
  BY <1>1 DEF receiverVars, collected
<1>3. RepliesInWindow' /\ toSender' \in Seq(Replies)
  BY <1>1, <1>2, AcceptAckMoves, TailReplies
<1>4. FramesInWindow'
  BY <1>1, <1>2 DEF WindowsAgree, FramesInWindow, Delivered
<1>5. ReceiverWindow'
  <2>1. Delivered \in Base' .. next_msg_char
    BY AcceptAckMoves, Numbers
  <2>2. Delivered' = Delivered
    BY <1>2 DEF Delivered
  <2> QED
    BY <2>1, <2>2, <1>1, <1>2 DEF WindowsAgree, ReceiverWindow
<1>6. S_f' \in SeqNos
  <2>1. Base' \in Nat /\ S_f' = SeqNoOf(Base')
    BY AcceptAckMoves, Numbers DEF SenderWindow
  <2> QED
    BY <2>1, SeqNoFacts
<1>7. spc' \in {"send", "poll", "done"}
  BY AcceptAckMoves DEF EndOfTurn
<1> QED
  BY <1>1, <1>2, <1>3, <1>4, <1>5, <1>6, <1>7, AcceptAckMoves DEF TypeOK, WindowsAgree

\* A NACK gets the character its receiver missed, or nothing.
LEMMA NackFindsItsFrame ==
    ASSUME TypeOK, WindowsAgree, ResendOnNack
    PROVE  FrameAskedFor.data = Head(toSender).upto + 1
<1> DEFINE u == Head(toSender).upto
<1>1. /\ toSender # <<>> /\ NackMeansFrame
  BY DEF ResendOnNack, TakeReply
<1>2. Head(toSender) = toSender[1] /\ 1 \in 1 .. Len(toSender)
  BY <1>1 DEF TypeOK
<1>3. Head(toSender).seq_no = SeqNoOf(u) /\ u \in Nat /\ Base <= u /\ u <= Delivered
  BY <1>2, ReplyOnItsWay
<1> HIDE DEF u
<1>4. SlotOf(SeqNoOf(u)) \in Slots
  BY <1>3, SlotFacts
<1>5. PICK i \in Base + 1 .. next_msg_char : FrameAskedFor = FrameOf(i)
  BY <1>1, <1>3, <1>4, SenderSlot DEF NackMeansFrame, FrameAskedFor
<1>6. i \in Nat \ {0} /\ i - 1 \in Nat
  BY <1>5, Numbers
<1>7. SeqNoOf(i - 1) = SeqNoOf(u) /\ FrameAskedFor.data = i
  BY <1>1, <1>3, <1>5, <1>6, FrameFacts DEF NackMeansFrame
<1>8. i - 1 < u + 2 * W /\ u < (i - 1) + 2 * W
  BY <1>3, <1>5, <1>6, Numbers
<1>9. i - 1 = u
  BY <1>3, <1>6, <1>7, <1>8, SeqNoUnique
<1> QED
  BY <1>6, <1>7, <1>9 DEF u

\* The other steps of main, and the timeout.
LEMMA SenderSafe ==
    ASSUME TypeOK, WindowsAgree,
           NothingToSend \/ NoReply \/ ResendOnNack \/ IgnoreReply \/ CorruptReply
               \/ Close \/ \E s \in Slots : Timeout(s)
    PROVE  TypeOK' /\ WindowsAgree' /\ UNCHANGED <<window, data_recvd>>
<1>0. ASSUME UNCHANGED <<window, receiverVars>>, spc' \in {"send", "poll", "done"},
             premature' \in 0 .. MaxPremature, conn' \in ConnStates,
             toReceiver' \in Seq(Frames), FramesInWindow',
             toSender' \in Seq(Replies), RepliesInWindow'
      PROVE  TypeOK' /\ WindowsAgree' /\ UNCHANGED <<window, data_recvd>>
  <2>1. UNCHANGED <<window, collected>>
    BY <1>0 DEF receiverVars
  <2>2. SenderWindow' /\ ReceiverWindow'
    BY <2>1, SameWindows
  <2> QED
    BY <2>1, <2>2, <1>0 DEF TypeOK, WindowsAgree, window, receiverVars, collected
<1>1. /\ FramesInWindow /\ RepliesInWindow /\ toReceiver \in Seq(Frames) /\ toSender \in Seq(Replies)
      /\ premature \in 0 .. MaxPremature /\ spc \in {"send", "poll", "done"} /\ conn \in ConnStates
  BY DEF WindowsAgree, TypeOK
<1>2. ASSUME UNCHANGED <<window, receiverVars, toReceiver>> PROVE FramesInWindow'
  BY <1>1, <1>2 DEF FramesInWindow, window, receiverVars, collected, Delivered
<1>3. ASSUME UNCHANGED <<window, receiverVars, toSender>> PROVE RepliesInWindow'
  BY <1>1, <1>3 DEF RepliesInWindow, window, receiverVars, collected, Delivered, Base
<1>4. CASE NothingToSend \/ NoReply
  BY <1>0, <1>1, <1>2, <1>3, <1>4 DEF NothingToSend, NoReply, EndOfTurn
<1>5. CASE ResendOnNack \/ IgnoreReply \/ CorruptReply
  <2>1. /\ TakeReply /\ UNCHANGED <<window, receiverVars>> /\ spc' = EndOfTurn(outstanding_frames)
        /\ UNCHANGED <<premature, conn>>
    BY <1>5 DEF ResendOnNack, IgnoreReply, CorruptReply, TakeReply, window
  <2>2. RepliesInWindow' /\ toSender' \in Seq(Replies)
    <3>1. toSender # <<>> /\ toSender' = Tail(toSender) /\ data_recvd' = data_recvd /\ Base' = Base
      BY <2>1 DEF TakeReply, window, receiverVars, collected, Base
    <3> QED
      BY <3>1, TailReplies
  <2>3. FramesInWindow' /\ toReceiver' \in Seq(Frames)
    <3>1. CASE ResendOnNack
      <4>1. SlotOf(Head(toSender).seq_no) \in Slots
        <5>1. toSender # <<>>
          BY <2>1 DEF TakeReply
        <5>2. Head(toSender) = toSender[1] /\ 1 \in 1 .. Len(toSender)
          BY <5>1 DEF TypeOK
        <5>3. Head(toSender).seq_no = SeqNoOf(toSender[1].upto) /\ toSender[1].upto \in Nat
          BY <5>2, ReplyOnItsWay
        <5>4. toSender[1].upto + 1 \in Nat \ {0}
          BY <5>3
        <5> QED
          BY <5>3, <5>4, SlotFacts
      <4>2. /\ pbuffer[SlotOf(Head(toSender).seq_no)] # None
            /\ toReceiver' = Append(toReceiver, pbuffer[SlotOf(Head(toSender).seq_no)])
            /\ UNCHANGED <<window, collected>>
        BY <3>1, <2>1 DEF ResendOnNack, NackMeansFrame, FrameAskedFor, receiverVars
      <4> QED
        BY <4>1, <4>2, ResendSafe
    <3>2. CASE IgnoreReply \/ CorruptReply
      BY <3>2, <2>1, <1>1, <1>2 DEF IgnoreReply, CorruptReply
    <3> QED
      BY <3>1, <3>2, <1>5
  <2> QED
    BY <2>1, <2>2, <2>3, <1>0, <1>1 DEF EndOfTurn
<1>6. CASE Close
  <2>1. toSender' = <<>> /\ conn' \in ConnStates /\ UNCHANGED <<window, spc, premature, receiverVars, toReceiver>>
    BY <1>6 DEF Close, senderVars, ConnStates
  <2>2. RepliesInWindow' /\ toSender' \in Seq(Replies)
    <3>1. Len(toSender') = 0 /\ toSender' \in Seq(Replies)
      BY <2>1
    <3> QED
      BY <3>1 DEF RepliesInWindow
  <2> QED
    BY <2>1, <2>2, <1>0, <1>1, <1>2
<1>7. ASSUME NEW s \in Slots, Timeout(s)
      PROVE  TypeOK' /\ WindowsAgree' /\ UNCHANGED <<window, data_recvd>>
  <2>1. /\ pbuffer[s] # None /\ toReceiver' = Append(toReceiver, pbuffer[s])
        /\ UNCHANGED <<window, spc, receiverVars, toSender, conn>>
    BY <1>7 DEF Timeout
  <2>2. premature' \in 0 .. MaxPremature
    BY <1>1, <1>7, SRPAssumption DEF Timeout
  <2>3. UNCHANGED <<window, collected>>
    BY <2>1 DEF receiverVars
  <2>4. FramesInWindow' /\ toReceiver' \in Seq(Frames)
    BY <2>1, <2>3, ResendSafe
  <2> QED
    BY <2>1, <2>2, <2>4, <1>0, <1>1, <1>3
<1> QED
  BY <1>4, <1>5, <1>6, <1>7

-----------------------------------------------------------------------------
(***************************************************************************)
(* The steps of the receiver.                                              *)
(***************************************************************************)

\* What a step of the receiver cannot reach.
LEMMA SenderKept ==
    ASSUME TypeOK, WindowsAgree, UNCHANGED senderVars
    PROVE  /\ SenderWindow' /\ Base' = Base
           /\ UNCHANGED <<window, msglen, next_msg_char, pbuffer, S_f, S_n, outstanding_frames,
                          spc, premature>>
  BY DEF WindowsAgree, SenderWindow, senderVars, window, Base

\* Every answer consists of replies that say how far the receiver is.
LEMMA AnswerTypes ==
    ASSUME NEW c \in BOOLEAN, NEW d \in BOOLEAN
    PROVE  /\ NackIf(c) \in Seq({Reply("ACK"), Reply("NACK")})
           /\ (NackIf(c) \o IF d THEN <<Reply("ACK")>> ELSE <<>>) \in Seq({Reply("ACK"), Reply("NACK")})
           /\ (IF d THEN <<Reply("ACK")>> ELSE <<>>) \in Seq({Reply("ACK"), Reply("NACK")})
<1>1. ASSUME NEW x, NEW y PROVE <<x>> \in Seq({x, y}) /\ <<y>> \in Seq({x, y}) /\ <<>> \in Seq({x, y})
  OBVIOUS
<1>2. ASSUME NEW S, NEW s \in Seq(S), NEW t \in Seq(S) PROVE s \o t \in Seq(S)
  OBVIOUS
<1>3. NackIf(c) \in Seq({Reply("ACK"), Reply("NACK")})
  BY <1>1 DEF NackIf
<1>4. (IF d THEN <<Reply("ACK")>> ELSE <<>>) \in Seq({Reply("ACK"), Reply("NACK")})
  BY <1>1
<1> QED
  BY <1>2, <1>3, <1>4

\* An answer leaves the receiver where it is.
LEMMA SendAllSafe ==
    ASSUME TypeOK, WindowsAgree, NEW q \in Seq({Reply("ACK"), Reply("NACK")}), SendAll(q),
           UNCHANGED senderVars, UNCHANGED data_recvd
    PROVE  RepliesInWindow' /\ toSender' \in Seq(Replies) /\ conn' \in ConnStates
<1>1. toSender' \in {toSender, toSender \o q}
  BY DEF SendAll
<1>2. UNCHANGED <<next_msg_char, outstanding_frames>>
  BY SenderKept
<1>3. conn' \in ConnStates
  BY DEF SendAll, TypeOK, ConnStates
<1> QED
  BY <1>1, <1>2, <1>3, SendReplies

\* A frame goes into the slot that waits for it.
LEMMA StoreFrameSafe ==
    ASSUME TypeOK, WindowsAgree, NEW seq \in SeqNos, StoreFrame(seq)
    PROVE  TypeOK' /\ WindowsAgree'
<1>1. /\ rpc = "recv" /\ toReceiver # <<>> /\ toReceiver' = Tail(toReceiver)
      /\ UNCHANGED senderVars
      /\ Head(toReceiver).seq_no = seq /\ IsValidSeqno(seq)
      /\ SendAll(NackIf(seq # R_n)) /\ nack_sent' = (nack_sent \/ seq # R_n)
      /\ rbuffer' = [rbuffer EXCEPT ![SlotOf(seq)] = Head(toReceiver)]
      /\ rpc' = "drain" /\ UNCHANGED <<R_n, ack_needed, data_recvd>>
  BY DEF StoreFrame, TakeFrame
<1>2. Head(toReceiver) = toReceiver[1] /\ 1 \in 1 .. Len(toReceiver)
  BY <1>1 DEF TypeOK
<1> DEFINE n == toReceiver[1].data
<1>3. /\ n \in Nat \ {0} /\ n - 1 \in Nat /\ toReceiver[1] = FrameOf(n) /\ toReceiver[1] \in Frames
      /\ seq = SeqNoOf(n - 1) /\ n <= next_msg_char
      /\ n > Delivered /\ n <= Delivered + W
  BY <1>1, <1>2, FrameOnItsWay, ValidMeansNew
<1> HIDE DEF n
<1>4. SlotOf(seq) = SlotFor(n) /\ SlotFor(n) \in Slots
  <2>1. (n - 1) + 1 = n
    BY <1>3
  <2> QED
    BY <2>1, <1>3, SlotFacts
<1>5. \A s \in Slots : rbuffer'[s] = IF s = SlotFor(n) THEN FrameOf(n) ELSE rbuffer[s]
  BY <1>1, <1>2, <1>3, <1>4 DEF TypeOK
<1>6. FramesInWindow' /\ toReceiver' \in Seq(Frames)
  <2>1. \A s \in Slots : rbuffer'[s] \in {rbuffer[s], toReceiver[1]}
    BY <1>3, <1>5
  <2> QED
    BY <2>1, <1>1, SenderKept, TailFrames
<1>7. RepliesInWindow' /\ toSender' \in Seq(Replies) /\ conn' \in ConnStates
  <2>1. NackIf(seq # R_n) \in Seq({Reply("ACK"), Reply("NACK")})
    BY AnswerTypes
  <2> QED
    BY <2>1, <1>1, SendAllSafe
<1>8. ReceiverWindow'
  <2>1. Delivered' = Delivered /\ Base' = Base /\ next_msg_char' = next_msg_char
    BY <1>1, SenderKept DEF Delivered
  <2>2. ASSUME NEW i \in Delivered + 1 .. Delivered + SRP_WINDOW_SIZE
        PROVE  /\ rbuffer'[SlotFor(i)] \in {None, FrameOf(i)}
               /\ i > next_msg_char => rbuffer'[SlotFor(i)] = None
    <3>1. i \in Nat \ {0} /\ i < n + W /\ n < i + W
      BY <1>3, Numbers DEF W
    <3>2. SlotFor(i) \in Slots
      BY <3>1, SlotFacts
    <3>3. CASE i = n
      BY <3>2, <3>3, <1>3, <1>5, Numbers
    <3>4. CASE i # n
      <4>1. SlotFor(i) # SlotFor(n)
        BY <3>1, <3>4, <1>3, SlotUnique
      <4> QED
        BY <4>1, <3>2, <1>5 DEF WindowsAgree, ReceiverWindow
    <3> QED
      BY <3>3, <3>4
  <2> QED
    BY <2>1, <2>2, <1>1 DEF WindowsAgree, ReceiverWindow
<1>9. TypeOK'
  <2>1. rbuffer' \in [Slots -> Frames \cup {None}]
    BY <1>1, <1>2, <1>3, <1>4 DEF TypeOK
  <2>2. nack_sent' \in BOOLEAN
    BY <1>1 DEF TypeOK
  <2> QED
    BY <2>1, <2>2, <1>1, <1>6, <1>7, SenderKept DEF TypeOK
<1> QED
  BY <1>1, <1>6, <1>7, <1>8, <1>9, SenderKept DEF WindowsAgree

\* What leaves the receiver's buffer as it is.
LEMMA ReceiverSafe ==
    ASSUME TypeOK, WindowsAgree,
           \/ CorruptFrame \/ FrameStoredAlready \/ AnswerFails \/ ReadReset \/ ReadEOF
           \/ \E seq \in SeqNos : OldFrame(seq)
           \/ Drained
    PROVE  TypeOK' /\ WindowsAgree' /\ UNCHANGED <<window, data_recvd>>
<1>0. ASSUME UNCHANGED senderVars, UNCHANGED <<R_n, rbuffer, data_recvd>>,
             nack_sent' \in BOOLEAN, ack_needed' \in BOOLEAN,
             rpc' \in {"recv", "drain", "eof", "left", "died"}, conn' \in ConnStates,
             \/ toReceiver # <<>> /\ toReceiver' = Tail(toReceiver)
             \/ UNCHANGED toReceiver,
             toSender' \in Seq(Replies), RepliesInWindow'
      PROVE  TypeOK' /\ WindowsAgree' /\ UNCHANGED <<window, data_recvd>>
  <2>1. SenderWindow' /\ Base' = Base /\ Delivered' = Delivered /\ next_msg_char' = next_msg_char
        /\ UNCHANGED window
    BY <1>0, SenderKept DEF Delivered
  <2>2. FramesInWindow' /\ toReceiver' \in Seq(Frames)
    <3>1. CASE toReceiver # <<>> /\ toReceiver' = Tail(toReceiver)
      BY <3>1, <2>1, <1>0, TailFrames
    <3>2. CASE UNCHANGED toReceiver
      BY <3>2, <2>1, <1>0 DEF WindowsAgree, FramesInWindow, TypeOK
    <3> QED
      BY <3>1, <3>2, <1>0
  <2>3. ReceiverWindow'
    BY <2>1, <1>0 DEF WindowsAgree, ReceiverWindow
  <2>4. TypeOK'
    BY <2>2, <1>0, SenderKept DEF TypeOK
  <2> QED
    BY <2>1, <2>2, <2>3, <2>4, <1>0 DEF WindowsAgree
<1>1. ASSUME UNCHANGED senderVars, UNCHANGED <<data_recvd, toSender>>
      PROVE  toSender' \in Seq(Replies) /\ RepliesInWindow'
  <2>1. Base' = Base /\ Delivered' = Delivered
    BY <1>1, SenderKept DEF Delivered
  <2> QED
    BY <2>1, <1>1 DEF WindowsAgree, RepliesInWindow, TypeOK
<1>2. nack_sent \in BOOLEAN /\ ack_needed \in BOOLEAN /\ conn \in ConnStates
      /\ rpc \in {"recv", "drain", "eof", "left", "died"}
  BY DEF TypeOK
<1>3. ASSUME TakeFrame, NEW q \in Seq({Reply("ACK"), Reply("NACK")}), SendAll(q),
             nack_sent' \in BOOLEAN, UNCHANGED <<collected, rpc>>
      PROVE  TypeOK' /\ WindowsAgree' /\ UNCHANGED <<window, data_recvd>>
  <2>1. /\ toReceiver # <<>> /\ toReceiver' = Tail(toReceiver) /\ UNCHANGED senderVars
        /\ UNCHANGED <<R_n, rbuffer, ack_needed, data_recvd, rpc>>
    BY <1>3 DEF TakeFrame, collected
  <2>2. RepliesInWindow' /\ toSender' \in Seq(Replies) /\ conn' \in ConnStates
    BY <2>1, <1>3, SendAllSafe
  <2> QED
    BY <2>1, <2>2, <1>0, <1>2, <1>3
<1>4. CASE CorruptFrame
  <2>1. NackIf(TRUE) \in Seq({Reply("ACK"), Reply("NACK")})
    BY AnswerTypes
  <2>2. TakeFrame /\ SendAll(NackIf(TRUE)) /\ nack_sent' \in BOOLEAN /\ UNCHANGED <<collected, rpc>>
    BY <1>4 DEF CorruptFrame
  <2> QED
    BY <2>1, <2>2, <1>3
<1>5. CASE FrameStoredAlready
  <2> DEFINE seq == Head(toReceiver).seq_no
  <2>1. NackIf(seq # R_n) \in Seq({Reply("ACK"), Reply("NACK")})
    BY AnswerTypes
  <2>2. TakeFrame /\ SendAll(NackIf(seq # R_n)) /\ nack_sent' \in BOOLEAN /\ UNCHANGED <<collected, rpc>>
    BY <1>2, <1>5 DEF FrameStoredAlready
  <2> HIDE DEF seq
  <2> QED
    BY <2>1, <2>2, <1>3
<1>6. ASSUME NEW seq \in SeqNos, OldFrame(seq)
      PROVE  TypeOK' /\ WindowsAgree' /\ UNCHANGED <<window, data_recvd>>
  <2> DEFINE q == NackIf(seq # R_n) \o IF AckOldIf(nack_sent') THEN <<Reply("ACK")>> ELSE <<>>
  <2>1. nack_sent' \in BOOLEAN /\ AckOldIf(nack_sent') \in BOOLEAN
    BY <1>6 DEF OldFrame, AckOldIf
  <2>2. q \in Seq({Reply("ACK"), Reply("NACK")})
    BY <2>1, AnswerTypes
  <2>3. TakeFrame /\ SendAll(q) /\ UNCHANGED <<collected, rpc>>
    BY <1>6 DEF OldFrame
  <2> HIDE DEF q
  <2> QED
    BY <2>1, <2>2, <2>3, <1>3
<1>7. CASE Drained
  <2> DEFINE q == IF ack_needed THEN <<Reply("ACK")>> ELSE <<>>
  <2>1. q \in Seq({Reply("ACK"), Reply("NACK")})
    BY <1>2, AnswerTypes
  <2>2. /\ SendAll(q) /\ ack_needed' \in BOOLEAN /\ nack_sent' \in BOOLEAN /\ rpc' = "recv"
        /\ UNCHANGED senderVars /\ UNCHANGED <<R_n, rbuffer, data_recvd, toReceiver>>
    BY <1>2, <1>7 DEF Drained
  <2> HIDE DEF q
  <2>3. RepliesInWindow' /\ toSender' \in Seq(Replies) /\ conn' \in ConnStates
    BY <2>1, <2>2, SendAllSafe
  <2> QED
    BY <2>2, <2>3, <1>0, <1>2
<1>8. CASE AnswerFails
  <2>1. /\ toReceiver # <<>> /\ toReceiver' = Tail(toReceiver) /\ UNCHANGED senderVars
        /\ UNCHANGED <<R_n, rbuffer, ack_needed, data_recvd, nack_sent, toSender>>
        /\ conn' \in ConnStates /\ rpc' \in {"left", "died"}
    BY <1>8 DEF AnswerFails, TakeFrame, SendFails, collected, ConnStates
  <2> QED
    BY <2>1, <1>0, <1>1, <1>2
<1>9. CASE ReadReset \/ ReadEOF
  <2>1. /\ UNCHANGED senderVars /\ rpc' \in {"left", "eof"}
        /\ UNCHANGED <<R_n, rbuffer, ack_needed, data_recvd, nack_sent, toReceiver, toSender, conn>>
    BY <1>9 DEF ReadReset, ReadEOF, collected
  <2> QED
    BY <2>1, <1>0, <1>1, <1>2
<1> QED
  BY <1>4, <1>5, <1>6, <1>7, <1>8, <1>9

\* The receiver delivers the next character and no other.
LEMMA DeliverSafe ==
    ASSUME TypeOK, WindowsAgree, Deliver
    PROVE  /\ TypeOK' /\ WindowsAgree'
           /\ data_recvd' = Append(data_recvd, Delivered + 1)
           /\ Delivered < next_msg_char
           /\ UNCHANGED window
<1> DEFINE n == Delivered + 1
<1>0. n \in Nat \ {0} /\ n = Delivered + 1 /\ Delivered \in Nat
  BY Numbers
<1> HIDE DEF n
<1>1. /\ rpc = "drain" /\ rbuffer[SlotOf(R_n)] # None
      /\ data_recvd' = Append(data_recvd, rbuffer[SlotOf(R_n)].data)
      /\ rbuffer' = [rbuffer EXCEPT ![SlotOf(R_n)] = None]
      /\ R_n' = Succ(R_n) /\ ack_needed' = TRUE
      /\ UNCHANGED senderVars /\ UNCHANGED <<nack_sent, rpc, toReceiver, toSender, conn>>
  BY DEF Deliver
<1>2. SlotOf(R_n) = SlotFor(n) /\ SlotFor(n) \in Slots
  BY <1>0, Numbers, SlotFacts
<1>3. rbuffer[SlotFor(n)] = FrameOf(n) /\ n <= next_msg_char
  <2>1. n \in Delivered + 1 .. Delivered + SRP_WINDOW_SIZE
    BY <1>0, Numbers DEF W
  <2>2. /\ rbuffer[SlotFor(n)] \in {None, FrameOf(n)}
        /\ n > next_msg_char => rbuffer[SlotFor(n)] = None
    BY <2>1 DEF WindowsAgree, ReceiverWindow
  <2> QED
    BY <2>2, <1>0, <1>1, <1>2, Numbers
<1>4. data_recvd' = Append(data_recvd, n)
  BY <1>0, <1>1, <1>2, <1>3, FrameFacts
<1>5. /\ data_recvd' \in Seq(1 .. MaxLen) /\ Delivered' = n
      /\ \A i \in 1 .. n : data_recvd'[i] = IF i <= Delivered THEN data_recvd[i] ELSE n
  <2>1. n \in 1 .. MaxLen /\ data_recvd \in Seq(1 .. MaxLen) /\ Len(data_recvd) = Delivered
    BY <1>0, <1>3, Numbers, SRPAssumption DEF TypeOK
  <2> QED
    BY <2>1, <1>0, <1>4 DEF Delivered
<1>6. \A s \in Slots : rbuffer'[s] = IF s = SlotFor(n) THEN None ELSE rbuffer[s]
  BY <1>1, <1>2 DEF TypeOK
<1>7. Base' = Base /\ UNCHANGED <<next_msg_char, outstanding_frames>> /\ SenderWindow'
  BY <1>1, SenderKept
<1>8. ReceiverWindow'
  <2>1. n \in Base .. next_msg_char
    BY <1>0, <1>3, Numbers
  <2>2. R_n' = SeqNoOf(n)
    BY <1>0, <1>1, Numbers, SeqNoFacts
  <2>3. \A i \in 1 .. n : data_recvd'[i] = i
    <3> TAKE i \in 1 .. n
    <3>1. CASE i <= Delivered
      <4>1. i \in 1 .. Delivered
        BY <3>1, <1>0
      <4> QED
        BY <4>1, <3>1, <1>5 DEF WindowsAgree, ReceiverWindow
    <3>2. CASE ~ (i <= Delivered)
      BY <3>2, <1>0, <1>5
    <3> QED
      BY <3>1, <3>2
  <2>4. ASSUME NEW i \in n + 1 .. n + SRP_WINDOW_SIZE
        PROVE  /\ rbuffer'[SlotFor(i)] \in {None, FrameOf(i)}
               /\ i > next_msg_char => rbuffer'[SlotFor(i)] = None
    <3>0. i \in Nat \ {0}
      BY <1>0, Numbers DEF W
    <3>1. CASE i < n + W
      <4>1. SlotFor(i) # SlotFor(n)
        <5>1. n < i + W /\ i # n
          BY <1>0, Numbers
        <5> QED
          BY <5>1, <3>0, <3>1, <1>0, SlotUnique
      <4>2. i \in Delivered + 1 .. Delivered + SRP_WINDOW_SIZE
        BY <3>0, <3>1, <1>0, Numbers DEF W
      <4>3. SlotFor(i) \in Slots
        BY <3>0, SlotFacts
      <4> QED
        BY <4>1, <4>2, <4>3, <1>6 DEF WindowsAgree, ReceiverWindow
    <3>2. CASE i = n + W
      <4>1. SlotFor(i) = SlotFor(n)
        BY <3>2, <1>0, SlotFacts
      <4> QED
        BY <4>1, <1>2, <1>6
    <3> QED
      BY <3>0, <3>1, <3>2, <1>0, Numbers DEF W
  <2> QED
    BY <2>1, <2>2, <2>3, <2>4, <1>5, <1>7 DEF ReceiverWindow
<1>9. FramesInWindow'
  <2>1. ASSUME NEW i \in 1 .. Len(toReceiver)
        PROVE  /\ toReceiver[i] = FrameOf(toReceiver[i].data)
               /\ toReceiver[i].data <= next_msg_char
               /\ n < toReceiver[i].data + SRP_WINDOW_SIZE
               /\ \A s \in Slots : rbuffer'[s].data < toReceiver[i].data + SRP_WINDOW_SIZE
    <3>1. \A s \in Slots : rbuffer[s].data < toReceiver[i].data + SRP_WINDOW_SIZE
      BY DEF WindowsAgree, FramesInWindow
    <3>2. n < toReceiver[i].data + SRP_WINDOW_SIZE
      BY <3>1, <1>0, <1>2, <1>3, FrameFacts
    <3>3. None.data < toReceiver[i].data + SRP_WINDOW_SIZE
      BY FrameOnItsWay, Numbers DEF None, W
    <3> QED
      BY <3>1, <3>2, <3>3, <1>6, FrameOnItsWay
  <2>2. \A i, j \in 1 .. Len(toReceiver) :
            i < j => toReceiver[i].data < toReceiver[j].data + SRP_WINDOW_SIZE
    BY DEF WindowsAgree, FramesInWindow
  <2> QED
    BY <2>1, <2>2, <1>1, <1>5, <1>7 DEF FramesInWindow
<1>10. RepliesInWindow'
  <2>1. ASSUME NEW i \in 1 .. Len(toSender) PROVE toSender[i].upto \in Base .. n
    BY ReplyOnItsWay, Numbers, <1>0
  <2> QED
    BY <2>1, <1>1, <1>5, <1>7 DEF WindowsAgree, RepliesInWindow
<1>11. TypeOK'
  <2>1. rbuffer' \in [Slots -> Frames \cup {None}]
    BY <1>1 DEF TypeOK
  <2>2. R_n' \in SeqNos
    BY <1>0, <1>1, Numbers, SeqNoFacts
  <2> QED
    BY <2>1, <2>2, <1>1, <1>5, SenderKept DEF TypeOK
<1> QED
  BY <1>0, <1>1, <1>3, <1>4, <1>7, <1>8, <1>9, <1>10, <1>11, Numbers, SenderKept DEF WindowsAgree

-----------------------------------------------------------------------------
(***************************************************************************)
(* Theorems.                                                               *)
(***************************************************************************)
Safe == TypeOK /\ WindowsAgree

\* Nothing is on its way in the initial state.
LEMMA InitSafe == Init => Safe
<1> SUFFICES ASSUME Init PROVE Safe
  OBVIOUS
<1>1. <<>> \in Seq(Frames) /\ <<>> \in Seq(Replies) /\ <<>> \in Seq(1 .. MaxLen) /\ Len(<<>>) = 0
  OBVIOUS
<1>2. Base = 0 /\ Delivered = 0 /\ Len(toReceiver) = 0 /\ Len(toSender) = 0
  BY <1>1 DEF Init, Base, Delivered
<1>3. TypeOK
  <2>1. msglen \in 0 .. MaxLen /\ next_msg_char \in 0 .. msglen /\ premature \in 0 .. MaxPremature
        /\ outstanding_frames \in 0 .. SRP_WINDOW_SIZE
    BY SRPAssumption DEF Init
  <2>2. S_f \in SeqNos /\ S_n \in SeqNos /\ R_n \in SeqNos
    BY SeqNoFacts DEF Init
  <2>3. pbuffer \in [Slots -> Frames \cup {None}] /\ rbuffer \in [Slots -> Frames \cup {None}]
    BY DEF Init
  <2> QED
    BY <2>1, <2>2, <2>3, <1>1 DEF Init, TypeOK, ConnStates
<1>4. \A i \in Nat \ {0} : pbuffer[SlotFor(i)] = None /\ rbuffer[SlotFor(i)] = None
  BY SlotFacts DEF Init
<1>5. /\ next_msg_char = 0 /\ S_f = 0 /\ S_n = 0 /\ R_n = 0
      /\ SRP_WINDOW_SIZE \in Nat /\ SeqNoOf(0) = 0
  BY SRPAssumption, SeqNoFacts DEF Init
<1>6. SenderWindow /\ ReceiverWindow
  <2>1. \A i \in Base + 1 .. next_msg_char : FALSE
    BY <1>2, <1>5
  <2>2. \A i \in next_msg_char + 1 .. Base + SRP_WINDOW_SIZE : pbuffer[SlotFor(i)] = None
    <3>1. \A i \in next_msg_char + 1 .. Base + SRP_WINDOW_SIZE : i \in Nat \ {0}
      BY <1>2, <1>5
    <3> QED
      BY <3>1, <1>4
  <2>3. \A i \in Delivered + 1 .. Delivered + SRP_WINDOW_SIZE : rbuffer[SlotFor(i)] = None
    <3>1. \A i \in Delivered + 1 .. Delivered + SRP_WINDOW_SIZE : i \in Nat \ {0}
      BY <1>2, <1>5
    <3> QED
      BY <3>1, <1>4
  <2>4. \A i \in 1 .. Delivered : FALSE
    BY <1>2
  <2>5. Base >= 0 /\ Delivered \in Base .. next_msg_char
    BY <1>2, <1>5
  <2>6. S_f = SeqNoOf(Base) /\ S_n = SeqNoOf(next_msg_char) /\ R_n = SeqNoOf(Delivered)
    BY <1>2, <1>5
  <2> QED
    BY <2>1, <2>2, <2>3, <2>4, <2>5, <2>6 DEF SenderWindow, ReceiverWindow
<1>7. FramesInWindow /\ RepliesInWindow
  BY <1>2 DEF FramesInWindow, RepliesInWindow
<1> QED
  BY <1>3, <1>6, <1>7 DEF Safe, WindowsAgree

\* One step per action of the two ends.
LEMMA StepSafe == Safe /\ [Next]_vars => Safe'
<1> SUFFICES ASSUME Safe, [Next]_vars PROVE Safe'
  OBVIOUS
<1>0. TypeOK /\ WindowsAgree
  BY DEF Safe
<1>1. CASE SendFrame
  BY <1>0, <1>1, SendFrameSafe DEF Safe
<1>2. CASE AcceptAck
  BY <1>0, <1>2, AcceptAckSafe DEF Safe
<1>3. CASE NothingToSend \/ NoReply \/ ResendOnNack \/ IgnoreReply \/ CorruptReply
               \/ Close \/ \E s \in Slots : Timeout(s)
  BY <1>0, <1>3, SenderSafe DEF Safe
<1>4. ASSUME NEW seq \in SeqNos, StoreFrame(seq) PROVE Safe'
  BY <1>0, <1>4, StoreFrameSafe DEF Safe
<1>5. CASE CorruptFrame \/ FrameStoredAlready \/ AnswerFails \/ ReadReset \/ ReadEOF
               \/ (\E seq \in SeqNos : OldFrame(seq)) \/ Drained
  BY <1>0, <1>5, ReceiverSafe DEF Safe
<1>6. CASE Deliver
  BY <1>0, <1>6, DeliverSafe DEF Safe
<1>7. CASE UNCHANGED vars
  <2>1. UNCHANGED <<window, collected, spc, premature, nack_sent, rpc, toReceiver, toSender, conn>>
    BY <1>7 DEF vars, senderVars, receiverVars
  <2>2. SenderWindow' /\ ReceiverWindow' /\ Base' = Base /\ Delivered' = Delivered
    BY <2>1, <1>0, SameWindows
  <2> QED
    BY <2>1, <2>2, <1>0
       DEF Safe, TypeOK, WindowsAgree, FramesInWindow, RepliesInWindow, window, collected
<1> QED
  BY <1>1, <1>2, <1>3, <1>4, <1>5, <1>6, <1>7
     DEF Next, Sender, Poll, Receiver, CleanFrame, SpinAtEOF, Terminated

(***************************************************************************)
(* Type correctness, and both windows, both buffers and everything on its  *)
(* way agree, for any number of slots and any schedule of timeouts.        *)
(***************************************************************************)
THEOREM WindowSafety == Spec => [](TypeOK /\ WindowsAgree)
<1>1. Safe => TypeOK /\ WindowsAgree
  BY DEF Safe
<1> QED
  BY <1>1, InitSafe, StepSafe, PTL DEF Spec

\* The rings of sender and receiver, their numbers and what is on its way keep
\* to their ranges: no wrap of a sequence number or a slot leaves them.
THEOREM TypeSafety == Spec => []TypeOK
  BY WindowSafety, PTL

(***************************************************************************)
(* The test of the sequence number in sr_receiver.py tells new frames from *)
(* old ones, for every number of slots.                                    *)
(***************************************************************************)
THEOREM NewFromOld == Spec => []NumberTellsNewFromOld
<1>1. TypeOK /\ WindowsAgree => NumberTellsNewFromOld
  BY ValidMeansNew DEF NumberTellsNewFromOld
<1> QED
  BY <1>1, WindowSafety, PTL

(***************************************************************************)
(* Stale acknowledgements and NACKs mean to the sender what they meant to  *)
(* the receiver when it sent them.                                         *)
(***************************************************************************)
THEOREM ReplyMeaning == Spec => RepliesMeanWhatTheySay
<1>1. TypeOK /\ WindowsAgree =>
          [ /\ ResendOnNack => FrameAskedFor.data = Head(toSender).upto + 1
            /\ AcceptAck => Base' = Head(toSender).upto ]_vars
  BY NackFindsItsFrame, AcceptAckMoves
<1> QED
  BY <1>1, WindowSafety, PTL DEF RepliesMeanWhatTheySay

-----------------------------------------------------------------------------
(***************************************************************************)
(* NACKs.  What makes OneNackPerGap inductive: as long as nack_sent is     *)
(* FALSE, or is about to be cleared because something was delivered, no    *)
(* NACK on its way asks for the next frame.                                *)
(***************************************************************************)
NackMayFollow ==
    \A i \in 1 .. Len(toSender) : toSender[i].ptype = "NACK" => toSender[i].upto # Delivered

NackInv ==
    /\ ack_needed => rpc = "drain"
    /\ ~ nack_sent \/ ack_needed => NackMayFollow
    /\ OneNackPerGap

\* An answer with at most one NACK, and that only the first for its gap.
LEMMA AnswerKeepsNacks ==
    ASSUME TypeOK, WindowsAgree, NackInv, rpc = "recv",
           NEW q \in Seq({Reply("ACK"), Reply("NACK")}), SendAll(q), NEW c \in BOOLEAN,
           \A i \in 1 .. Len(q) : q[i].ptype = "NACK" => i = 1 /\ c /\ ~ nack_sent,
           nack_sent' = (nack_sent \/ c), UNCHANGED <<ack_needed, data_recvd>>,
           rpc' \in {"recv", "drain"}
    PROVE  NackInv'
<1> DEFINE L == Len(toSender)
           K == Len(q)
<1>1. ~ ack_needed /\ ~ ack_needed' /\ Delivered' = Delivered /\ nack_sent \in BOOLEAN
  BY DEF NackInv, Delivered, TypeOK
<1>2. CASE toSender' = toSender
  BY <1>1, <1>2 DEF NackInv, NackMayFollow, OneNackPerGap
<1>3. CASE toSender' = toSender \o q
  <2>1. /\ L \in Nat /\ K \in Nat /\ Len(toSender') = L + K
        /\ \A i \in 1 .. L + K :
               toSender'[i] = IF i <= L THEN toSender[i] ELSE q[i - L]
        /\ \A i \in 1 .. K : q[i] \in {Reply("ACK"), Reply("NACK")}
    <3>1. ASSUME NEW S, NEW T, NEW s \in Seq(S), NEW t \in Seq(T)
          PROVE  /\ Len(s) \in Nat /\ Len(t) \in Nat /\ Len(s \o t) = Len(s) + Len(t)
                 /\ \A i \in 1 .. Len(s) + Len(t) :
                        (s \o t)[i] = IF i <= Len(s) THEN s[i] ELSE t[i - Len(s)]
                 /\ \A i \in 1 .. Len(t) : t[i] \in T
      OBVIOUS
    <3>2. toSender \in Seq(Replies)
      BY DEF TypeOK
    <3>3. /\ L \in Nat /\ K \in Nat /\ Len(toSender \o q) = L + K
          /\ \A i \in 1 .. L + K :
                 (toSender \o q)[i] = IF i <= L THEN toSender[i] ELSE q[i - L]
          /\ \A i \in 1 .. K : q[i] \in {Reply("ACK"), Reply("NACK")}
      BY <3>1, <3>2, Zenon
    <3> QED
      BY <3>3, <1>3
  <2> HIDE DEF L, K
  <2>2. ASSUME NEW i \in 1 .. L + K, toSender'[i].ptype = "NACK"
        PROVE  \/ i \in 1 .. Len(toSender) /\ toSender'[i] = toSender[i]
               \/ i = L + 1 /\ c /\ ~ nack_sent /\ toSender'[i].upto = Delivered
    <3>1. CASE i <= L
      BY <3>1, <2>1 DEF L
    <3>2. CASE i > L
      <4>1. i - L \in 1 .. K /\ toSender'[i] = q[i - L]
        BY <3>2, <2>1
      <4>2. i - L = 1 /\ c /\ ~ nack_sent
        BY <4>1, <2>2 DEF K
      <4>3. q[i - L].upto = Delivered
        BY <4>1, <2>1 DEF Reply, Delivered
      <4> QED
        BY <4>1, <4>2, <4>3, <2>1
    <3> QED
      BY <3>1, <3>2, <2>1
  <2>3. ~ nack_sent' => NackMayFollow'
    BY <2>1, <2>2, <1>1 DEF NackInv, NackMayFollow
  <2>4. ASSUME NEW i \in 1 .. L + K, NEW j \in 1 .. L + K, i # j,
               toSender'[i].ptype = "NACK", toSender'[j].ptype = "NACK"
        PROVE  toSender'[i].upto # toSender'[j].upto
    <3>1. CASE i \in 1 .. Len(toSender) /\ toSender'[i] = toSender[i]
               /\ j \in 1 .. Len(toSender) /\ toSender'[j] = toSender[j]
      BY <2>4, <3>1 DEF NackInv, OneNackPerGap
    <3>2. CASE ~ nack_sent /\ (i = L + 1 \/ j = L + 1)
      <4>1. ASSUME NEW k \in 1 .. L + K, toSender'[k].ptype = "NACK", k # L + 1
            PROVE  toSender'[k].upto # Delivered
        BY <4>1, <2>2, <3>2 DEF NackInv, NackMayFollow
      <4>2. ASSUME NEW k \in 1 .. L + K, toSender'[k].ptype = "NACK", k = L + 1
            PROVE  toSender'[k].upto = Delivered
        BY <4>2, <2>1, <2>2 DEF L
      <4> QED
        BY <4>1, <4>2, <2>4, <3>2
    <3> QED
      BY <2>2, <2>4, <3>1, <3>2
  <2> QED
    BY <2>1, <2>3, <2>4, <1>1 DEF NackInv, OneNackPerGap
<1> QED
  BY <1>2, <1>3 DEF SendAll

\* The NACKs of the answers of the receiver.
LEMMA NackIfFacts ==
    ASSUME NEW c \in BOOLEAN, NEW d \in BOOLEAN,
           NEW q, q \in {NackIf(c), NackIf(c) \o IF d THEN <<Reply("ACK")>> ELSE <<>>}
    PROVE  /\ q \in Seq({Reply("ACK"), Reply("NACK")})
           /\ \A i \in 1 .. Len(q) : q[i].ptype = "NACK" => i = 1 /\ c /\ ~ nack_sent
<1>1. q \in Seq({Reply("ACK"), Reply("NACK")})
  BY AnswerTypes
<1>2. Reply("ACK").ptype = "ACK"
  BY DEF Reply
<1>3. q \in {<<>>, <<Reply("ACK")>>, <<Reply("NACK")>>, <<Reply("NACK")>> \o <<Reply("ACK")>>}
  <2>1. ASSUME NEW x PROVE <<>> \o <<x>> = <<x>> /\ <<x>> \o <<>> = <<x>>
    OBVIOUS
  <2>2. <<>> \o <<>> = <<>>
    OBVIOUS
  <2> QED
    BY <2>1, <2>2 DEF NackIf
<1>4. CASE c /\ ~ nack_sent
  <2>1. ASSUME NEW x, NEW y
        PROVE  /\ Len(<<x>>) = 1 /\ Len(<<x>> \o <<y>>) = 2
               /\ (<<x>> \o <<y>>)[1] = x /\ (<<x>> \o <<y>>)[2] = y /\ <<x>>[1] = x
    OBVIOUS
  <2>2. Len(<<>>) = 0
    OBVIOUS
  <2>3. \A i \in 1 .. Len(q) : i = 1 \/ (i = 2 /\ q[i] = Reply("ACK"))
    <3>1. CASE q \in {<<>>, <<Reply("ACK")>>, <<Reply("NACK")>>}
      <4>1. Len(q) \in {0, 1}
        BY <3>1, <2>1, <2>2
      <4> QED
        BY <4>1
    <3>2. CASE q = <<Reply("NACK")>> \o <<Reply("ACK")>>
      <4>1. Len(q) = 2 /\ q[2] = Reply("ACK")
        BY <3>2, <2>1
      <4> QED
        BY <4>1
    <3> QED
      BY <3>1, <3>2, <1>3
  <2> QED
    BY <2>3, <1>1, <1>2, <1>4
<1>5. CASE ~ (c /\ ~ nack_sent)
  <2>1. q \in {<<>>, <<Reply("ACK")>>}
    <3>1. ASSUME NEW x PROVE <<>> \o <<x>> = <<x>>
      OBVIOUS
    <3>2. <<>> \o <<>> = <<>>
      OBVIOUS
    <3> QED
      BY <3>1, <3>2, <1>5 DEF NackIf, MayNack
  <2>2. ASSUME NEW x PROVE Len(<<x>>) = 1 /\ <<x>>[1] = x
    OBVIOUS
  <2>3. Len(<<>>) = 0
    OBVIOUS
  <2>4. \A i \in 1 .. Len(q) : q[i] = Reply("ACK")
    BY <2>1, <2>2, <2>3
  <2> QED
    BY <2>4, <1>1, <1>2
<1> QED
  BY <1>1, <1>4, <1>5

\* Every step keeps it.
LEMMA StepNacks == Safe /\ NackInv /\ [Next]_vars => NackInv'
<1> SUFFICES ASSUME Safe, NackInv, [Next]_vars PROVE NackInv'
  OBVIOUS
<1>0. TypeOK /\ WindowsAgree
  BY DEF Safe
<1>1. ASSUME UNCHANGED <<ack_needed, rpc, nack_sent, data_recvd>>,
             \/ UNCHANGED toSender
             \/ toSender # <<>> /\ toSender' = Tail(toSender)
             \/ toSender' = <<>>
      PROVE  NackInv'
  <2>0. Delivered' = Delivered
    BY <1>1 DEF Delivered
  <2>1. CASE UNCHANGED toSender
    BY <2>0, <2>1, <1>1 DEF NackInv, NackMayFollow, OneNackPerGap
  <2>2. CASE toSender # <<>> /\ toSender' = Tail(toSender)
    <3>1. Len(toSender') = Len(toSender) - 1 /\ Len(toSender) \in Nat
      BY <2>2, <1>0 DEF TypeOK
    <3>2. \A i \in 1 .. Len(toSender') : toSender'[i] = toSender[i + 1]
      BY <2>2, <3>1, <1>0 DEF TypeOK
    <3>3. \A i \in 1 .. Len(toSender') : i + 1 \in 1 .. Len(toSender)
      BY <3>1
    <3>4. \A i, j \in 1 .. Len(toSender') : i # j => i + 1 # j + 1
      BY <3>1
    <3>5. NackMayFollow => NackMayFollow'
      BY <2>0, <3>2, <3>3 DEF NackMayFollow
    <3>6. OneNackPerGap'
      BY <3>2, <3>3, <3>4 DEF NackInv, OneNackPerGap
    <3> QED
      BY <3>5, <3>6, <1>1 DEF NackInv
  <2>3. CASE toSender' = <<>>
    <3>1. Len(toSender') = 0
      BY <2>3
    <3> QED
      BY <3>1, <1>1 DEF NackInv, NackMayFollow, OneNackPerGap
  <2> QED
    BY <2>1, <2>2, <2>3, <1>1
<1>2. CASE SendFrame \/ NothingToSend \/ NoReply \/ \E s \in Slots : Timeout(s)
  BY <1>1, <1>2 DEF SendFrame, NothingToSend, NoReply, Timeout, receiverVars, collected
<1>3. CASE AcceptAck \/ ResendOnNack \/ IgnoreReply \/ CorruptReply
  BY <1>1, <1>3
     DEF AcceptAck, ResendOnNack, IgnoreReply, CorruptReply, TakeReply, receiverVars, collected
<1>4. CASE Close
  BY <1>1, <1>4 DEF Close, receiverVars, collected
<1>5. ASSUME NEW seq \in SeqNos, StoreFrame(seq) PROVE NackInv'
  <2> DEFINE c == seq # R_n
             q == NackIf(c)
  <2>1. /\ rpc = "recv" /\ SendAll(q) /\ nack_sent' = (nack_sent \/ c) /\ rpc' = "drain"
        /\ UNCHANGED <<ack_needed, data_recvd>>
    BY <1>5 DEF StoreFrame, TakeFrame
  <2>2. /\ q \in Seq({Reply("ACK"), Reply("NACK")}) /\ c \in BOOLEAN
        /\ \A i \in 1 .. Len(q) : q[i].ptype = "NACK" => i = 1 /\ c /\ ~ nack_sent
    <3>1. c \in BOOLEAN
      OBVIOUS
    <3> HIDE DEF c
    <3> QED
      BY <3>1, NackIfFacts
  <2> HIDE DEF c, q
  <2> QED
    BY <2>1, <2>2, <1>0, AnswerKeepsNacks
<1>6. CASE FrameStoredAlready
  <2> DEFINE c == Head(toReceiver).seq_no # R_n
             q == NackIf(c)
  <2>1. /\ rpc = "recv" /\ SendAll(q) /\ nack_sent' = (nack_sent \/ c) /\ rpc' = rpc
        /\ UNCHANGED <<ack_needed, data_recvd>>
    BY <1>6 DEF FrameStoredAlready, TakeFrame, collected
  <2>2. /\ q \in Seq({Reply("ACK"), Reply("NACK")}) /\ c \in BOOLEAN
        /\ \A i \in 1 .. Len(q) : q[i].ptype = "NACK" => i = 1 /\ c /\ ~ nack_sent
    <3>1. c \in BOOLEAN
      OBVIOUS
    <3> HIDE DEF c
    <3> QED
      BY <3>1, NackIfFacts
  <2> HIDE DEF c, q
  <2> QED
    BY <2>1, <2>2, <1>0, AnswerKeepsNacks
<1>7. CASE CorruptFrame
  <2>1. PICK c \in BOOLEAN : c
    OBVIOUS
  <2> DEFINE q == NackIf(c)
  <2>2. /\ rpc = "recv" /\ SendAll(q) /\ nack_sent' = (nack_sent \/ c) /\ rpc' = rpc
        /\ UNCHANGED <<ack_needed, data_recvd>>
    BY <2>1, <1>7 DEF CorruptFrame, TakeFrame, collected, NackIf
  <2>3. /\ q \in Seq({Reply("ACK"), Reply("NACK")})
        /\ \A i \in 1 .. Len(q) : q[i].ptype = "NACK" => i = 1 /\ c /\ ~ nack_sent
    BY <2>1, NackIfFacts
  <2> HIDE DEF q
  <2> QED
    BY <2>2, <2>3, <1>0, AnswerKeepsNacks
<1>8. ASSUME NEW seq \in SeqNos, OldFrame(seq) PROVE NackInv'
  <2> DEFINE c == seq # R_n
             d == nack_sent'
             q == NackIf(c) \o IF d THEN <<Reply("ACK")>> ELSE <<>>
  <2>1. /\ rpc = "recv" /\ SendAll(q) /\ nack_sent' = (nack_sent \/ c) /\ rpc' = rpc
        /\ UNCHANGED <<ack_needed, data_recvd>>
    BY <1>8 DEF OldFrame, TakeFrame, collected, AckOldIf
  <2>2. /\ q \in Seq({Reply("ACK"), Reply("NACK")}) /\ c \in BOOLEAN
        /\ \A i \in 1 .. Len(q) : q[i].ptype = "NACK" => i = 1 /\ c /\ ~ nack_sent
    <3>1. c \in BOOLEAN /\ d \in BOOLEAN
      BY <2>1
    <3> HIDE DEF c, d
    <3> QED
      BY <3>1, NackIfFacts
  <2> HIDE DEF c, d, q
  <2> QED
    BY <2>1, <2>2, <1>0, AnswerKeepsNacks
<1>9. CASE Deliver
  <2>1. /\ rpc = "drain" /\ ack_needed' = TRUE
        /\ UNCHANGED <<nack_sent, rpc, toSender>>
    BY <1>9 DEF Deliver
  <2>2. Delivered' = Delivered + 1
    BY <1>0, <1>9, DeliverSafe, Numbers DEF Delivered, TypeOK
  <2>3. \A i \in 1 .. Len(toSender) : toSender[i].upto # Delivered'
    BY <2>2, <1>0, ReplyOnItsWay, Numbers
  <2> QED
    BY <2>1, <2>3 DEF NackInv, NackMayFollow, OneNackPerGap
<1>10. CASE Drained
  <2> DEFINE q == IF ack_needed THEN <<Reply("ACK")>> ELSE <<>>
  <2>1. /\ SendAll(q) /\ ack_needed' = FALSE /\ nack_sent' = (nack_sent /\ ~ ack_needed)
        /\ rpc' = "recv" /\ UNCHANGED data_recvd
    BY <1>10 DEF Drained
  <2>2. Delivered' = Delivered
    BY <2>1 DEF Delivered
  <2>3. toSender' = toSender \/ (ack_needed /\ toSender' = toSender \o <<Reply("ACK")>>)
    <3>1. toSender \o <<>> = toSender
      BY <1>0 DEF TypeOK
    <3> QED
      BY <2>1, <3>1 DEF SendAll
  <2>4. NackMayFollow => NackMayFollow'
    <3>1. CASE toSender' = toSender
      BY <3>1, <2>2 DEF NackMayFollow
    <3>2. CASE toSender' = toSender \o <<Reply("ACK")>>
      <4>1. /\ Len(toSender) \in Nat /\ Len(toSender') = Len(toSender) + 1
            /\ \A i \in 1 .. Len(toSender') :
                   toSender'[i] = IF i <= Len(toSender) THEN toSender[i] ELSE Reply("ACK")
        BY <3>2, <1>0 DEF TypeOK
      <4>2. Reply("ACK").ptype = "ACK"
        BY DEF Reply
      <4> QED
        BY <4>1, <4>2, <2>2 DEF NackMayFollow
    <3> QED
      BY <3>1, <3>2, <2>3
  <2>5. OneNackPerGap'
    <3>1. CASE toSender' = toSender
      BY <3>1 DEF NackInv, OneNackPerGap
    <3>2. CASE toSender' = toSender \o <<Reply("ACK")>>
      <4>1. /\ Len(toSender) \in Nat /\ Len(toSender') = Len(toSender) + 1
            /\ \A i \in 1 .. Len(toSender') :
                   toSender'[i] = IF i <= Len(toSender) THEN toSender[i] ELSE Reply("ACK")
        BY <3>2, <1>0 DEF TypeOK
      <4>2. Reply("ACK").ptype = "ACK"
        BY DEF Reply
      <4>3. \A i \in 1 .. Len(toSender') : toSender'[i].ptype = "NACK" =>
                i \in 1 .. Len(toSender) /\ toSender'[i] = toSender[i]
        BY <4>1, <4>2
      <4> QED
        BY <4>3 DEF NackInv, OneNackPerGap
    <3> QED
      BY <3>1, <3>2, <2>3
  <2> QED
    BY <2>1, <2>4, <2>5, <1>0 DEF NackInv, TypeOK
<1>11. CASE AnswerFails \/ ReadReset \/ ReadEOF
  <2>1. /\ rpc = "recv" /\ UNCHANGED <<ack_needed, nack_sent, data_recvd, toSender>>
    BY <1>11 DEF AnswerFails, TakeFrame, ReadReset, ReadEOF, collected
  <2>2. ~ ack_needed /\ ~ ack_needed' /\ Delivered' = Delivered
    BY <2>1 DEF NackInv, Delivered
  <2> QED
    BY <2>1, <2>2 DEF NackInv, NackMayFollow, OneNackPerGap
<1>12. CASE UNCHANGED vars
  BY <1>1, <1>12 DEF vars, receiverVars, collected
<1> QED
  BY <1>2, <1>3, <1>4, <1>5, <1>6, <1>7, <1>8, <1>9, <1>10, <1>11, <1>12
     DEF Next, Sender, Poll, Receiver, CleanFrame, SpinAtEOF, Terminated

(***************************************************************************)
(* nack_sent of sr_receiver.py lets one NACK out for each missing frame.   *)
(***************************************************************************)
THEOREM NackSafety == Spec => []OneNackPerGap
<1>1. Init => NackInv
  BY DEF Init, NackInv, NackMayFollow, OneNackPerGap
<1>2. NackInv => OneNackPerGap
  BY DEF NackInv
<1> QED
  BY <1>1, <1>2, InitSafe, StepSafe, StepNacks, PTL DEF Spec

-----------------------------------------------------------------------------
(***************************************************************************)
(* The refinement.  The sender closes only after its break, and breaks     *)
(* only when nothing is outstanding.                                       *)
(***************************************************************************)
ClosedMeansDone ==
    /\ conn # "open" => spc = "done"
    /\ spc = "done" => outstanding_frames = 0 /\ next_msg_char >= msglen

\* Every step keeps it.
LEMMA StepClosed == Safe /\ ClosedMeansDone /\ [Next]_vars => ClosedMeansDone'
<1> SUFFICES ASSUME Safe, ClosedMeansDone, [Next]_vars PROVE ClosedMeansDone'
  OBVIOUS
<1> USE DEF ClosedMeansDone
<1>1. CASE SendFrame \/ NothingToSend
  BY <1>1 DEF SendFrame, NothingToSend
<1>2. CASE AcceptAck
  <2>1. spc' = EndOfTurn(outstanding_frames')
    BY <1>2, AcceptAckMoves DEF Safe
  <2>2. spc = "poll" /\ UNCHANGED <<next_msg_char, msglen, conn>>
    BY <1>2 DEF AcceptAck, TakeReply
  <2> QED
    BY <2>1, <2>2 DEF EndOfTurn
<1>3. CASE NoReply \/ ResendOnNack \/ IgnoreReply \/ CorruptReply
  BY <1>3 DEF NoReply, ResendOnNack, IgnoreReply, CorruptReply, TakeReply, EndOfTurn, window
<1>4. CASE Close \/ \E s \in Slots : Timeout(s)
  BY <1>4 DEF Close, Timeout, senderVars, window
<1>5. ASSUME UNCHANGED senderVars, conn = "open" => conn' = "open" PROVE ClosedMeansDone'
  BY <1>5 DEF senderVars, window
<1>6. ASSUME NEW q, SendAll(q) PROVE conn = "open" => conn' = "open"
  BY <1>6 DEF SendAll
<1>7. CASE CorruptFrame \/ FrameStoredAlready \/ Drained \/ AnswerFails
           \/ \E seq \in SeqNos : StoreFrame(seq) \/ OldFrame(seq)
  BY <1>5, <1>6, <1>7
     DEF CorruptFrame, FrameStoredAlready, Drained, AnswerFails, StoreFrame, OldFrame, TakeFrame,
         SendFails
<1>8. CASE Deliver \/ ReadReset \/ ReadEOF \/ UNCHANGED vars
  BY <1>5, <1>8 DEF Deliver, ReadReset, ReadEOF, vars
<1> QED
  BY <1>1, <1>2, <1>3, <1>4, <1>7, <1>8
     DEF Next, Sender, Poll, Receiver, CleanFrame, SpinAtEOF, Terminated

\* A step of the program is a step of the transfer, or none.
LEMMA StepTransfer ==
    ASSUME Safe, ClosedMeansDone, [Next]_vars
    PROVE  [Transfer!Next]_Transfer!vars
<1> USE DEF Transfer!Next, Transfer!vars
<1>0. TypeOK /\ WindowsAgree
  BY DEF Safe
<1>1. CASE SendFrame
  <2>1. Base' = Base
    BY <1>0, <1>1, SendFrameSafe
  <2>2. /\ spc = "send" /\ outstanding_frames < SRP_WINDOW_SIZE /\ next_msg_char < msglen
        /\ next_msg_char' = next_msg_char + 1 /\ UNCHANGED <<msglen, conn, data_recvd>>
    BY <1>1 DEF SendFrame, MaySend, receiverVars, collected
  <2>3. next_msg_char - Base < SRP_WINDOW_SIZE
    BY <2>2, <1>0, Numbers DEF W
  <2>4. conn = "open"
    BY <2>2 DEF ClosedMeansDone
  <2>5. Transfer!Offer
    BY <2>1, <2>2, <2>3, <2>4 DEF Transfer!Offer
  <2> QED
    BY <2>5
<1>2. CASE Deliver
  <2>1. /\ data_recvd' = Append(data_recvd, Len(data_recvd) + 1)
        /\ Len(data_recvd) < next_msg_char /\ UNCHANGED window
    BY <1>0, <1>2, DeliverSafe DEF Delivered
  <2>2. UNCHANGED <<msglen, next_msg_char, conn>> /\ Base' = Base
    BY <1>2, <2>1 DEF Deliver, window, Base
  <2>3. Transfer!Deliver
    BY <2>1, <2>2 DEF Transfer!Deliver
  <2> QED
    BY <2>3
<1>3. CASE AcceptAck
  <2>1. Base' \in Base .. Delivered
    BY <1>0, <1>3, AcceptAckMoves
  <2>2. spc = "poll" /\ UNCHANGED <<msglen, next_msg_char, data_recvd, conn>>
    BY <1>3 DEF AcceptAck, TakeReply, receiverVars, collected
  <2>3. conn = "open"
    BY <2>2 DEF ClosedMeansDone
  <2>4. CASE Base' = Base
    BY <2>2, <2>4
  <2>5. CASE Base' # Base
    <3>1. Base' \in Base + 1 .. Len(data_recvd) /\ Base' \in 1 .. MaxLen
      <4>1. Base \in Nat /\ Delivered \in Nat /\ Delivered <= MaxLen /\ Delivered = Len(data_recvd)
            /\ MaxLen \in Nat
        BY <1>0, Numbers, SRPAssumption
      <4> QED
        BY <4>1, <2>1, <2>5
    <3>2. Transfer!Confirm(Base')
      BY <2>2, <2>3, <3>1 DEF Transfer!Confirm
    <3> QED
      BY <3>1, <3>2
  <2> QED
    BY <2>4, <2>5
<1>4. CASE Close
  <2>1. /\ spc = "done" /\ conn = "open" /\ conn' # "open"
        /\ UNCHANGED <<window, data_recvd>>
    BY <1>4 DEF Close, senderVars, receiverVars, collected
  <2>2. UNCHANGED <<msglen, next_msg_char>> /\ Base' = Base
    BY <2>1 DEF window, Base
  <2>3. Base = msglen
    <3>1. outstanding_frames = 0 /\ next_msg_char >= msglen
      BY <2>1 DEF ClosedMeansDone
    <3>2. next_msg_char <= msglen /\ msglen \in Nat
      BY <1>0, SRPAssumption DEF TypeOK
    <3> QED
      BY <3>1, <3>2, <1>0, Numbers
  <2>4. Transfer!Finish
    BY <2>1, <2>2, <2>3 DEF Transfer!Finish
  <2> QED
    BY <2>4
<1>5. ASSUME UNCHANGED <<window, data_recvd>>, (conn # "open")' = (conn # "open")
      PROVE  UNCHANGED Transfer!vars
  BY <1>5 DEF window, Base
<1>6. CASE NothingToSend \/ NoReply \/ ResendOnNack \/ IgnoreReply \/ CorruptReply
               \/ \E s \in Slots : Timeout(s)
  <2>1. UNCHANGED <<window, data_recvd>>
    BY <1>0, <1>6, SenderSafe
  <2>2. conn' = conn
    BY <1>6 DEF NothingToSend, NoReply, ResendOnNack, IgnoreReply, CorruptReply, TakeReply, Timeout
  <2> QED
    BY <2>1, <2>2, <1>5
<1>7. ASSUME NEW q, SendAll(q) PROVE (conn # "open")' = (conn # "open")
  BY <1>7 DEF SendAll
<1>8. CASE CorruptFrame \/ FrameStoredAlready \/ AnswerFails \/ ReadReset \/ ReadEOF
               \/ (\E seq \in SeqNos : OldFrame(seq)) \/ Drained
  <2>1. UNCHANGED <<window, data_recvd>>
    BY <1>0, <1>8, ReceiverSafe
  <2>2. (conn # "open")' = (conn # "open")
    BY <1>7, <1>8 DEF CorruptFrame, FrameStoredAlready, AnswerFails, ReadReset, ReadEOF,
                      OldFrame, Drained, SendFails
  <2> QED
    BY <2>1, <2>2, <1>5
<1>9. ASSUME NEW seq \in SeqNos, StoreFrame(seq) PROVE UNCHANGED Transfer!vars
  <2>1. UNCHANGED <<senderVars, data_recvd>> /\ (conn # "open")' = (conn # "open")
    BY <1>7, <1>9 DEF StoreFrame, TakeFrame
  <2> QED
    BY <2>1, <1>5 DEF senderVars
<1>10. CASE UNCHANGED vars
  BY <1>5, <1>10 DEF vars, senderVars, receiverVars, collected
<1> QED
  BY <1>1, <1>2, <1>3, <1>4, <1>6, <1>8, <1>9, <1>10
     DEF Next, Sender, Poll, Receiver, CleanFrame, SpinAtEOF, Terminated

(***************************************************************************)
(* Selective Repeat, as the program runs it, keeps the promise of          *)
(* ReliableTransfer: every character is delivered once and in order, and   *)
(* the sender closes no earlier than the receiver has them all.            *)
(***************************************************************************)
THEOREM ImplementsTransfer == Spec => TransferSpec
<1>1. Init => Transfer!Init /\ ClosedMeansDone
  <2> SUFFICES ASSUME Init PROVE Transfer!Init /\ ClosedMeansDone
    OBVIOUS
  <2>1. Base = 0
    BY DEF Init, Base
  <2> QED
    BY <2>1 DEF Init, Transfer!Init, ClosedMeansDone
<1>2. Safe /\ ClosedMeansDone /\ [Next]_vars => [Transfer!Next]_Transfer!vars
  BY StepTransfer
<1> QED
  BY <1>1, <1>2, InitSafe, StepSafe, StepClosed, PTL DEF Spec, TransferSpec, Transfer!Spec
=============================================================================
