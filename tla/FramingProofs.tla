--------------------------- MODULE FramingProofs ---------------------------
(***************************************************************************)
(* Framing, for every length of a packet and of what precedes it and for   *)
(* every number of packets: the reader falls out of step only after part   *)
(* of a length was thrown away or two threads wrote into each other, and   *)
(* packets come out as PacketFifo promises.                                *)
(*                                                                         *)
(* The proofs number the bytes of the connection: byte i of packet p has   *)
(* position (p - 1) * Size + i.  While nothing went wrong, what the reader *)
(* has collected and what is on its way are the next positions in a row.   *)
(***************************************************************************)
EXTENDS Framing, SequenceTheorems, TLAPS

\* A byte of the connection: the packet it belongs to and its place in it.
Byte == [packet : Packets, place : 1 .. Size]

-----------------------------------------------------------------------------
(***************************************************************************)
(* Bytes and parts of sequences.                                           *)
(***************************************************************************)

\* A packet is what its length and its body add up to.
LEMMA Sizes == /\ HeaderSize \in Nat /\ HeaderSize >= 1
               /\ BodySize \in Nat /\ BodySize >= 1
               /\ MaxPackets \in Nat
               /\ Size \in Nat /\ Size = HeaderSize + BodySize
  BY FramingAssumption DEF Size

\* A run of the bytes of one packet.
LEMMA BytesFacts ==
  ASSUME NEW p \in Packets, NEW from \in 1 .. Size, NEW to \in from .. Size
  PROVE  /\ Bytes(p, from, to) \in Seq(Byte)
         /\ Len(Bytes(p, from, to)) = to - from + 1
         /\ \A i \in 1 .. to - from + 1 :
               Bytes(p, from, to)[i] = [packet |-> p, place |-> from + i - 1]
<1>0. Size \in Nat /\ to \in Nat /\ from \in Nat /\ from >= 1 /\ to >= from /\ to <= Size
  BY Sizes
<1>1. ASSUME NEW i \in 1 .. to - from + 1
      PROVE  [packet |-> p, place |-> from + i - 1] \in Byte
  <2>1. from + i - 1 \in 1 .. Size
    BY <1>0
  <2> QED BY <2>1 DEF Byte
<1>2. to - from + 1 \in Nat
  BY <1>0
<1>3. Bytes(p, from, to) \in [1 .. to - from + 1 -> Byte]
  BY <1>1 DEF Bytes
<1>4. Bytes(p, from, to) \in Seq(Byte)
  BY <1>2, <1>3
<1> QED BY <1>2, <1>4 DEF Bytes

\* The length of a packet, byte by byte.
LEMMA HeaderFacts ==
  ASSUME NEW p \in Packets
  PROVE  /\ Header(p) \in Seq(Byte) /\ Len(Header(p)) = HeaderSize
         /\ \A i \in 1 .. HeaderSize : Header(p)[i] = [packet |-> p, place |-> i]
<1>0. Size \in Nat /\ HeaderSize \in Nat /\ HeaderSize >= 1 /\ HeaderSize <= Size
  BY Sizes
<1>1. 1 \in 1 .. Size /\ HeaderSize \in 1 .. Size /\ HeaderSize - 1 + 1 = HeaderSize
  BY <1>0
<1>2. \A i \in 1 .. HeaderSize : 1 + i - 1 = i
  BY <1>0
<1>3. /\ Bytes(p, 1, HeaderSize) \in Seq(Byte)
      /\ Len(Bytes(p, 1, HeaderSize)) = HeaderSize - 1 + 1
      /\ \A i \in 1 .. HeaderSize - 1 + 1 :
            Bytes(p, 1, HeaderSize)[i] = [packet |-> p, place |-> 1 + i - 1]
  BY <1>1, BytesFacts
<1> QED BY <1>1, <1>2, <1>3 DEF Header

\* The body of a packet, byte by byte.
LEMMA BodyFacts ==
  ASSUME NEW p \in Packets
  PROVE  /\ Body(p) \in Seq(Byte) /\ Len(Body(p)) = BodySize
         /\ \A i \in 1 .. BodySize : Body(p)[i] = [packet |-> p, place |-> HeaderSize + i]
<1>0. /\ Size \in Nat /\ HeaderSize \in Nat /\ HeaderSize >= 1 /\ BodySize \in Nat /\ BodySize >= 1
      /\ Size = HeaderSize + BodySize
  BY Sizes
<1>1. /\ HeaderSize + 1 \in 1 .. Size /\ Size \in HeaderSize + 1 .. Size
      /\ Size - (HeaderSize + 1) + 1 = BodySize
  BY <1>0
<1>2. \A i \in 1 .. BodySize : HeaderSize + 1 + i - 1 = HeaderSize + i
  BY <1>0
<1>3. /\ Bytes(p, HeaderSize + 1, Size) \in Seq(Byte)
      /\ Len(Bytes(p, HeaderSize + 1, Size)) = Size - (HeaderSize + 1) + 1
      /\ \A i \in 1 .. Size - (HeaderSize + 1) + 1 :
            Bytes(p, HeaderSize + 1, Size)[i] = [packet |-> p, place |-> HeaderSize + 1 + i - 1]
  BY <1>1, BytesFacts
<1> QED BY <1>1, <1>2, <1>3 DEF Body

\* What one sequence is after the front of another was moved to its end.
LEMMA Moved ==
  ASSUME NEW S, NEW s \in Seq(S), NEW g \in Seq(S), NEW n \in 1 .. Len(s)
  PROVE  /\ g \o SubSeq(s, 1, n) \in Seq(S)
         /\ Len(g \o SubSeq(s, 1, n)) = Len(g) + n
         /\ \A i \in 1 .. Len(g) : (g \o SubSeq(s, 1, n))[i] = g[i]
         /\ \A i \in 1 .. n : (g \o SubSeq(s, 1, n))[Len(g) + i] = s[i]
         /\ SubSeq(s, n + 1, Len(s)) \in Seq(S)
         /\ Len(SubSeq(s, n + 1, Len(s))) = Len(s) - n
         /\ \A i \in 1 .. Len(s) - n : SubSeq(s, n + 1, Len(s))[i] = s[n + i]
<1>0. Len(s) \in Nat /\ n \in Nat /\ n >= 1 /\ n <= Len(s) /\ Len(g) \in Nat
  BY LenProperties
<1>1. /\ SubSeq(s, 1, n) \in Seq(S) /\ Len(SubSeq(s, 1, n)) = n
      /\ \A i \in 1 .. n : SubSeq(s, 1, n)[i] = s[i]
  BY <1>0
<1>2. /\ SubSeq(s, n + 1, Len(s)) \in Seq(S)
      /\ Len(SubSeq(s, n + 1, Len(s))) = Len(s) - n
      /\ \A i \in 1 .. Len(s) - n : SubSeq(s, n + 1, Len(s))[i] = s[n + i]
  BY <1>0
<1>3. PICK t \in Seq(S) : t = SubSeq(s, 1, n)
  BY <1>1
<1>4. /\ g \o t \in Seq(S) /\ Len(g \o t) = Len(g) + n
      /\ \A i \in 1 .. Len(g) : (g \o t)[i] = g[i]
      /\ \A i \in 1 .. n : (g \o t)[Len(g) + i] = t[i]
  BY <1>0, <1>1, <1>3
<1> QED BY <1>1, <1>2, <1>3, <1>4

\* The same for one that got another appended.
LEMMA Joined ==
  ASSUME NEW S, NEW s \in Seq(S), NEW t \in Seq(S)
  PROVE  /\ s \o t \in Seq(S) /\ Len(s \o t) = Len(s) + Len(t)
         /\ \A i \in 1 .. Len(s) : (s \o t)[i] = s[i]
         /\ \A i \in 1 .. Len(t) : (s \o t)[Len(s) + i] = t[i]
  OBVIOUS

-----------------------------------------------------------------------------
(***************************************************************************)
(* Positions in the connection.                                            *)
(***************************************************************************)
\* The position before the first byte of a packet, and the position of a byte.
Start == [p \in Nat |-> (p - 1) * Size]
Pos == [b \in Byte |-> Start[b.packet] + b.place]

\* Packets follow one another without a gap and do not overlap.
LEMMA StartFacts ==
  /\ Start[1] = 0
  /\ \A p \in Nat : Start[p] \in Int /\ Start[p + 1] = Start[p] + Size
  /\ \A p, q \in Nat : p < q => Start[p] + Size <= Start[q]
<1>0. Size \in Nat
  BY Sizes
<1>1. PICK n \in Nat : n = Size
  BY <1>0
<1>2. \A p \in Nat : Start[p] = (p - 1) * n
  BY <1>1 DEF Start
<1>3. Start[1] = 0
  <2>1. (1 - 1) * n = 0
    BY <1>1, SMT
  <2> QED BY <1>2, <2>1
<1>4. ASSUME NEW p \in Nat PROVE Start[p] \in Int /\ Start[p + 1] = Start[p] + Size
  <2>1. (p - 1) * n \in Int /\ (p + 1 - 1) * n = (p - 1) * n + n
    BY <1>1, SMT
  <2> QED BY <1>1, <1>2, <2>1
<1>5. ASSUME NEW p \in Nat, NEW q \in Nat, p < q PROVE Start[p] + Size <= Start[q]
  <2>1. PICK d \in Nat : q = p + 1 + d
    <3>1. q - p - 1 \in Nat /\ q = p + 1 + (q - p - 1)
      BY <1>5
    <3> QED BY <3>1
  <2>2. d * n >= 0 /\ d * n \in Int
    BY <1>1, SMT
  <2>3. (p + 1 + d - 1) * n = (p - 1) * n + n + d * n /\ (p - 1) * n \in Int
    BY <1>1, SMT
  <2>4. (p - 1) * n + n <= (p + 1 + d - 1) * n
    BY <2>2, <2>3, <1>1
  <2> QED BY <1>1, <1>2, <2>1, <2>4
<1> QED BY <1>3, <1>4, <1>5

\* A position belongs to one byte of one packet.
LEMMA PositionUnique ==
  ASSUME NEW p \in Nat, NEW q \in Nat, NEW i \in 1 .. Size, NEW j \in 1 .. Size,
         Start[p] + i = Start[q] + j
  PROVE  p = q /\ i = j
<1>1. Size \in Nat /\ Start[p] \in Int /\ Start[q] \in Int /\ i \in Nat /\ j \in Nat
      /\ i >= 1 /\ j >= 1 /\ i <= Size /\ j <= Size
  BY Sizes, StartFacts
<1>2. ~ p < q
  <2>1. p < q => Start[p] + Size <= Start[q]
    BY StartFacts
  <2> QED BY <1>1, <2>1
<1>3. ~ q < p
  <2>1. q < p => Start[q] + Size <= Start[p]
    BY StartFacts
  <2> QED BY <1>1, <2>1
<1>4. p = q
  BY <1>2, <1>3
<1>5. Start[p] = Start[q]
  BY <1>4
<1> QED BY <1>1, <1>4, <1>5

\* The length of a packet is not over before HeaderSize bytes of it, and a packet
\* follows no other length before Size bytes of it.
LEMMA LengthNotOver ==
  ASSUME NEW r \in Nat, NEW g \in Nat, NEW x \in Nat, Start[r] + x = Start[g] + HeaderSize
  PROVE  x >= HeaderSize
<1>1. PICK a \in Int, b \in Int : a = Start[r] /\ b = Start[g]
  BY StartFacts
<1>2. (g < r => b + Size <= a) /\ (r < g => a + Size <= b) /\ (r = g => a = b)
  BY <1>1, StartFacts
<1>3. a + x = b + HeaderSize
  BY <1>1
<1>4. a <= b
  BY <1>2, <1>3, Sizes
<1> QED BY <1>3, <1>4, Sizes

\* A packet begins in the middle of no other.
LEMMA PacketNotOver ==
  ASSUME NEW r \in Nat, NEW g \in Nat, NEW x \in Nat, x < BodySize, Start[r] + x = Start[g]
  PROVE  x = 0
<1>1. PICK a \in Int, b \in Int : a = Start[r] /\ b = Start[g]
  BY StartFacts
<1>2. (g < r => b + Size <= a) /\ (r < g => a + Size <= b) /\ (r = g => a = b)
  BY <1>1, StartFacts
<1>3. a + x = b
  BY <1>1
<1>4. ~ (g < r) /\ ~ (r < g)
  BY <1>2, <1>3, Sizes
<1> QED BY <1>2, <1>3, <1>4

\* The parts of a byte and of its position.
LEMMA PositionOfByte ==
  ASSUME NEW b \in Byte
  PROVE  /\ b.packet \in Nat /\ b.packet >= 1 /\ b.packet \in Packets
         /\ b.place \in 1 .. Size /\ b.place \in Nat
         /\ Pos[b] \in Int /\ Pos[b] = Start[b.packet] + b.place
         /\ b = [packet |-> b.packet, place |-> b.place]
<1>1. b.packet \in Packets /\ b.place \in 1 .. Size
      /\ b = [packet |-> b.packet, place |-> b.place]
  BY DEF Byte
<1>2. b.packet \in Nat /\ b.packet >= 1 /\ b.place \in Nat
  BY <1>1, Sizes DEF Packets
<1>3. Start[b.packet] \in Int
  BY <1>2, StartFacts
<1> QED BY <1>1, <1>2, <1>3 DEF Pos

-----------------------------------------------------------------------------
(***************************************************************************)
(* Types.  Nothing is collected between two packets.                       *)
(***************************************************************************)
TypeInv ==
    /\ TypeOK
    /\ rpc \in {"idle", "lost"} => got = <<>>

\* The initial state has the types.
LEMMA InitTypes == Init => TypeInv
<1> SUFFICES ASSUME Init PROVE TypeInv
  OBVIOUS
<1>1. got = <<>> /\ stream = <<>> /\ Len(got) = 0 /\ Len(stream) = 0
  BY EmptySeq DEF Init
<1>2. Len(got) < Wanted
  BY <1>1, Sizes DEF Wanted
<1>3. /\ stream \in Seq([packet : Packets, place : 1 .. Size])
      /\ got \in Seq([packet : Packets, place : 1 .. Size])
  BY <1>1
<1>4. /\ arrived \in 0 .. Len(stream) /\ sent \in Seq(Packets) /\ returned \in Seq(Packets)
      /\ wpc \in [Writers -> Packets \cup {0}] /\ lock \in Writers \cup {"nobody"}
      /\ rpc \in {"idle", "length", "body", "lost"}
  BY <1>1 DEF Init
<1>5. closed \in BOOLEAN /\ blocking \in BOOLEAN /\ cut \in BOOLEAN /\ mixed \in BOOLEAN
      /\ torn \subseteq Packets
  BY DEF Init
<1> QED BY <1>1, <1>2, <1>3, <1>4, <1>5, Zenon DEF TypeInv, TypeOK

\* What the invariant says of the numbers.
LEMMA TypeFacts ==
  ASSUME TypeOK
  PROVE  /\ stream \in Seq(Byte) /\ Len(stream) \in Nat /\ arrived \in 0 .. Len(stream)
         /\ got \in Seq(Byte) /\ Len(got) \in Nat /\ Len(got) < Wanted
         /\ Wanted \in Nat /\ Wanted = IF rpc = "length" THEN HeaderSize ELSE BodySize
         /\ sent \in Seq(Packets) /\ Len(sent) \in Nat
         /\ returned \in Seq(Packets) /\ Len(returned) \in Nat
         /\ \A w \in Writers : wpc[w] \in Nat
         /\ DOMAIN stream = 1 .. Len(stream) /\ DOMAIN sent = 1 .. Len(sent)
         /\ DOMAIN returned = 1 .. Len(returned)
<1>1. stream \in Seq(Byte) /\ got \in Seq(Byte) /\ sent \in Seq(Packets) /\ returned \in Seq(Packets)
      /\ arrived \in 0 .. Len(stream) /\ Len(got) < Wanted
  BY DEF TypeOK, Byte
<1>2. Wanted \in Nat /\ Wanted = IF rpc = "length" THEN HeaderSize ELSE BodySize
  BY Sizes DEF Wanted
<1>3. \A w \in Writers : wpc[w] \in Nat
  BY Sizes DEF TypeOK, Packets
<1> QED BY <1>1, <1>2, <1>3, LenProperties

\* What a recv of n bytes makes of the collection and of the stream.
Collected(n) == got \o SubSeq(stream, 1, n)

\* How the two sequences of a recv are put together, and when it is the last one.
LEMMA RecvFacts ==
  ASSUME TypeOK, NEW n \in 1 .. arrived, Recv(n)
  PROVE  /\ n \in Nat /\ n >= 1 /\ n <= Len(stream) /\ Len(got) + n <= Wanted
         /\ Collected(n) \in Seq(Byte) /\ Len(Collected(n)) = Len(got) + n
         /\ \A i \in 1 .. Len(got) : Collected(n)[i] = got[i]
         /\ \A i \in 1 .. n : Collected(n)[Len(got) + i] = stream[i]
         /\ stream' \in Seq(Byte) /\ Len(stream') = Len(stream) - n
         /\ DOMAIN stream' = 1 .. Len(stream) - n
         /\ \A i \in 1 .. Len(stream) - n : stream'[i] = stream[n + i]
         /\ Enough(Collected(n)) <=> Len(got) + n = Wanted
<1>1. n \in Nat /\ n >= 1 /\ n <= Len(stream) /\ n \in 1 .. Len(stream)
  BY TypeFacts
<1>2. Len(got) + n <= Wanted
  BY <1>1, TypeFacts DEF Recv, Remaining
<1>3. stream' = SubSeq(stream, n + 1, Len(stream))
  BY DEF Recv
<1>4. stream \in Seq(Byte) /\ got \in Seq(Byte)
  BY TypeFacts
<1>5. /\ Collected(n) \in Seq(Byte) /\ Len(Collected(n)) = Len(got) + n
      /\ \A i \in 1 .. Len(got) : Collected(n)[i] = got[i]
      /\ \A i \in 1 .. n : Collected(n)[Len(got) + i] = stream[i]
      /\ SubSeq(stream, n + 1, Len(stream)) \in Seq(Byte)
      /\ Len(SubSeq(stream, n + 1, Len(stream))) = Len(stream) - n
      /\ \A i \in 1 .. Len(stream) - n : SubSeq(stream, n + 1, Len(stream))[i] = stream[n + i]
  BY <1>1, <1>4, Moved DEF Collected
<1>6. DOMAIN stream' = 1 .. Len(stream) - n
  BY <1>3, <1>5, LenProperties
<1> QED BY <1>1, <1>2, <1>3, <1>5, <1>6 DEF Enough

\* The first sendall of send_packet keeps the types.
LEMMA WriteLengthTypes ==
  ASSUME TypeInv, NEW w \in Writers, WriteLength(w)
  PROVE  TypeInv'
<1>1. PICK p \in Packets : /\ p = Len(sent) + 1
                           /\ stream' = stream \o Header(p)
                           /\ sent' = Append(sent, p)
                           /\ wpc' = [wpc EXCEPT ![w] = p]
  <2>1. Len(sent) + 1 \in Packets
    BY TypeFacts, Sizes DEF TypeInv, WriteLength, Packets
  <2> QED BY <2>1 DEF WriteLength
<1>2. UNCHANGED <<arrived, closed, torn, rpc, blocking, got, returned, cut>>
  BY DEF WriteLength, readerVars
<1>3. stream' \in Seq(Byte) /\ arrived' \in 0 .. Len(stream')
  <2>1. Header(p) \in Seq(Byte) /\ Len(Header(p)) \in Nat
    BY HeaderFacts, LenProperties
  <2>2. stream \in Seq(Byte) /\ arrived \in 0 .. Len(stream) /\ Len(stream) \in Nat
    BY TypeFacts DEF TypeInv
  <2>3. stream' \in Seq(Byte) /\ Len(stream') = Len(stream) + Len(Header(p))
    BY <1>1, <2>1, <2>2, Joined
  <2> QED BY <1>2, <2>1, <2>2, <2>3
<1>4. sent' \in Seq(Packets) /\ wpc' \in [Writers -> Packets \cup {0}]
  BY <1>1 DEF TypeInv, TypeOK
<1>5. lock' \in Writers \cup {"nobody"} /\ mixed' \in BOOLEAN
  <2>1. lock' = lock \/ lock' = w
    BY DEF WriteLength
  <2> QED BY <2>1 DEF WriteLength, TypeInv, TypeOK
<1>6. Len(got') < Wanted'
  BY <1>2 DEF TypeInv, TypeOK, Wanted
<1> QED BY <1>2, <1>3, <1>4, <1>5, <1>6 DEF TypeInv, TypeOK, Byte

\* So does the second.
LEMMA WriteBodyTypes ==
  ASSUME TypeInv, NEW w \in Writers, WriteBody(w)
  PROVE  TypeInv'
<1>1. PICK p \in Packets : /\ p = wpc[w]
                           /\ stream' = IF closed THEN stream ELSE stream \o Body(p)
                           /\ torn' = IF closed THEN torn \cup {p} ELSE torn
  BY DEF WriteBody, TypeInv, TypeOK
<1>2. UNCHANGED <<arrived, closed, sent, mixed, rpc, blocking, got, returned, cut>>
  BY DEF WriteBody, readerVars
<1>3. stream' \in Seq(Byte) /\ arrived' \in 0 .. Len(stream')
  <2>1. Body(p) \in Seq(Byte) /\ Len(Body(p)) \in Nat
    BY BodyFacts, LenProperties
  <2>2. stream \in Seq(Byte) /\ arrived \in 0 .. Len(stream) /\ Len(stream) \in Nat
    BY TypeFacts DEF TypeInv
  <2>3. CASE closed
    BY <1>1, <1>2, <2>2, <2>3
  <2>4. CASE ~ closed
    <3>1. stream' \in Seq(Byte) /\ Len(stream') = Len(stream) + Len(Body(p))
      BY <1>1, <2>1, <2>2, <2>4, Joined
    <3> QED BY <1>2, <2>1, <2>2, <3>1
  <2> QED BY <2>3, <2>4
<1>4. wpc' \in [Writers -> Packets \cup {0}] /\ lock' \in Writers \cup {"nobody"}
      /\ torn' \subseteq Packets
  BY <1>1 DEF WriteBody, TypeInv, TypeOK
<1>5. Len(got') < Wanted'
  BY <1>2 DEF TypeInv, TypeOK, Wanted
<1> QED BY <1>2, <1>3, <1>4, <1>5 DEF TypeInv, TypeOK, Byte

\* recv keeps them: it never takes more than is still wanted.
LEMMA RecvTypes ==
  ASSUME TypeInv, NEW n \in 1 .. arrived, Recv(n)
  PROVE  TypeInv'
<1>0. TypeOK
  BY DEF TypeInv
<1>1. /\ n \in Nat /\ n >= 1 /\ n <= Len(stream) /\ Len(got) + n <= Wanted
      /\ Collected(n) \in Seq(Byte) /\ Len(Collected(n)) = Len(got) + n
      /\ stream' \in Seq(Byte) /\ Len(stream') = Len(stream) - n
      /\ Enough(Collected(n)) <=> Len(got) + n = Wanted
  BY <1>0, RecvFacts
<1>2. Len(got) \in Nat /\ Wanted \in Nat /\ arrived \in Nat /\ arrived <= Len(stream) /\ n <= arrived
      /\ Len(stream) \in Nat
  BY <1>0, TypeFacts
<1>3. UNCHANGED <<closed, sent, wpc, lock, mixed, torn, cut>>
  BY DEF Recv, writerVars
<1>4. arrived' \in 0 .. Len(stream')
  <2>1. arrived' = arrived - n
    BY DEF Recv
  <2> QED BY <2>1, <1>1, <1>2
<1>5. CASE ~ Enough(Collected(n)) /\ got' = Collected(n) /\ UNCHANGED <<rpc, blocking, returned>>
  <2>1. got' \in Seq(Byte) /\ Len(got') < Wanted'
    <3>1. Wanted' = Wanted
      BY <1>5 DEF Wanted
    <3>2. Len(got') = Len(got) + n /\ Len(got) + n # Wanted
      BY <1>1, <1>5
    <3> QED BY <1>1, <1>2, <1>5, <3>1, <3>2
  <2>2. rpc' \notin {"idle", "lost"}
    BY <1>5 DEF Recv
  <2> QED BY <1>1, <1>3, <1>4, <1>5, <2>1, <2>2 DEF TypeInv, TypeOK, Byte
<1>6. CASE Enough(Collected(n)) /\ (ReadLength(Collected(n)) \/ ReadBody(Collected(n)))
  <2>1. got' = <<>>
    BY <1>6 DEF ReadLength, ReadBody
  <2>2. got' \in Seq(Byte) /\ Len(got') < Wanted'
    <3>1. Len(got') = 0
      BY <2>1
    <3>2. Wanted' = IF rpc' = "length" THEN HeaderSize ELSE BodySize
      BY DEF Wanted
    <3> QED BY <2>1, <3>1, <3>2, Sizes
  <2>3. rpc' \in {"idle", "length", "body", "lost"} /\ blocking' \in BOOLEAN
    BY <1>6, <1>0 DEF ReadLength, ReadBody, AfterGarbage, TypeOK
  <2>4. returned' \in Seq(Packets)
    <3>1. Collected(n) # <<>>
      BY <1>1, <1>2, EmptySeq
    <3>2. Head(Collected(n)) \in Byte
      BY <1>1, <3>1, HeadTailProperties
    <3>3. Head(Collected(n)).packet \in Packets
      BY <3>2 DEF Byte
    <3>4. returned' \in {returned, Append(returned, Head(Collected(n)).packet)}
      BY <1>6 DEF ReadLength, ReadBody
    <3>5. PICK q \in Packets : q = Head(Collected(n)).packet
      BY <3>3
    <3>6. returned' = returned \/ returned' = Append(returned, q)
      BY <3>4, <3>5
    <3>7. returned \in Seq(Packets)
      BY <1>0 DEF TypeOK
    <3> QED BY <3>6, <3>7
  <2> QED BY <1>1, <1>3, <1>4, <2>1, <2>2, <2>3, <2>4 DEF TypeInv, TypeOK, Byte
<1> QED BY <1>5, <1>6 DEF Recv, Collected

\* Every step keeps the types.
LEMMA TypeStep == TypeInv /\ [Next]_vars => TypeInv'
<1> SUFFICES ASSUME TypeInv, [Next]_vars PROVE TypeInv'
  OBVIOUS
<1>1. ASSUME NEW w \in Writers, WriteLength(w) PROVE TypeInv'
  BY <1>1, WriteLengthTypes
<1>2. ASSUME NEW w \in Writers, WriteBody(w) PROVE TypeInv'
  BY <1>2, WriteBodyTypes
<1>3. CASE Close
  BY <1>3 DEF Close, writerVars, readerVars, TypeInv, TypeOK, Wanted
<1>4. CASE Arrive
  <2>1. UNCHANGED <<stream, closed, writerVars, readerVars>>
    BY <1>4 DEF Arrive
  <2>2. arrived' \in 0 .. Len(stream)
    <3>1. arrived' \in arrived + 1 .. Len(stream) /\ arrived \in 0 .. Len(stream) /\ Len(stream) \in Nat
      BY <1>4, TypeFacts DEF Arrive, TypeInv
    <3> QED BY <3>1
  <2> QED BY <2>1, <2>2 DEF writerVars, readerVars, TypeInv, TypeOK, Wanted
<1>5. ASSUME NEW block \in BOOLEAN, BeginRead(block) PROVE TypeInv'
  <2>1. got' = <<>> /\ rpc' = "length" /\ blocking' \in BOOLEAN
        /\ UNCHANGED <<stream, arrived, closed, writerVars, returned, cut>>
    BY <1>5 DEF BeginRead
  <2>2. got' \in Seq(Byte) /\ Len(got') < Wanted'
    BY <2>1, Sizes DEF Wanted
  <2> QED BY <2>1, <2>2 DEF writerVars, TypeInv, TypeOK, Byte
<1>6. ASSUME NEW n \in 1 .. arrived, Recv(n) PROVE TypeInv'
  BY <1>6, RecvTypes
<1>7. CASE WouldBlock
  <2>1. got' = <<>> /\ rpc' = "idle" /\ blocking' = TRUE
        /\ UNCHANGED <<stream, arrived, closed, writerVars, returned>>
    BY <1>7 DEF WouldBlock
  <2>2. got' \in Seq(Byte) /\ Len(got') < Wanted'
    BY <2>1, Sizes DEF Wanted
  <2>3. cut' \in BOOLEAN
    BY <1>7 DEF WouldBlock
  <2> QED BY <2>1, <2>2, <2>3 DEF writerVars, TypeInv, TypeOK, Byte
<1>8. CASE SpinAtEOF \/ UNCHANGED vars
  BY <1>8 DEF SpinAtEOF, vars, writerVars, readerVars, TypeInv, TypeOK, Wanted
<1> QED BY <1>1, <1>2, <1>3, <1>4, <1>5, <1>6, <1>7, <1>8 DEF Next, Reader

\* The types hold throughout.
LEMMA Typed == Spec => []TypeInv
<1> QED BY InitTypes, TypeStep, PTL DEF Spec

\* The type invariant of send_packet and read_k_bytes: a read never collects
\* more bytes than it was asked for.
THEOREM TypeSafety == Spec => []TypeOK
<1>1. TypeInv => TypeOK
  BY DEF TypeInv
<1> QED BY <1>1, Typed, PTL

-----------------------------------------------------------------------------
(***************************************************************************)
(* Falling out of step.                                                    *)
(***************************************************************************)

\* Where the packet, or the length of it, that the reader collects begins.
Edge == Start[Len(returned) + 1] + (IF rpc = "body" THEN HeaderSize ELSE 0)

\* The reader has not fallen out of step, nor will it in the next m bytes.
InStep(m) ==
    /\ rpc # "lost"
    /\ \A i \in 1 .. Len(got) : Pos[got[i]] = Edge + i
    /\ \A i \in 1 .. m : Pos[stream[i]] = Edge + Len(got) + i

\* Every byte follows the one before, up to the end of what was written.  After
\* Close nothing follows that end, which may be in the middle of a packet.
Whole ==
    /\ InStep(Len(stream))
    /\ \/ closed
       \/ /\ \A w \in Writers : wpc[w] = 0
          /\ Edge + Len(got) + Len(stream) = Start[Len(sent) + 1]
       \/ \E w \in Writers :
              /\ wpc[w] # 0 /\ wpc[w] = Len(sent)
              /\ \A v \in Writers \ {w} : wpc[v] = 0
              /\ Edge + Len(got) + Len(stream) = Start[Len(sent)] + HeaderSize

\* After the length of packet g comes another length; the reader will take it, or
\* has taken it, for the packet.
Ahead(m, g) ==
    /\ m < Len(stream) /\ InStep(m)
    /\ stream[m + 1].place = 1
    /\ Edge + Len(got) + m = Start[g] + HeaderSize
\* The reader has begun to take a length for a packet.
Doomed == rpc = "body" /\ got # <<>> /\ got[1].place = 1
\* What two mixed packets lead to: the reader is lost, will be, or meets it further on.
Garbled == rpc = "lost" \/ Doomed \/ \E m \in Nat, g \in Nat : Ahead(m, g)

\* Until a part of a length is thrown away.
SyncInv == ~ cut => IF mixed THEN Garbled ELSE Whole

\* The edge is a position.
LEMMA EdgeType ==
  ASSUME TypeOK
  PROVE  /\ Edge \in Int /\ Len(returned) + 1 \in Nat /\ Start[Len(returned) + 1] \in Int
         /\ Edge = Start[Len(returned) + 1] + (IF rpc = "body" THEN HeaderSize ELSE 0)
<1>1. Len(returned) + 1 \in Nat
  BY TypeFacts
<1>2. Start[Len(returned) + 1] \in Int
  BY <1>1, StartFacts
<1> QED BY <1>1, <1>2, Sizes DEF Edge

\* In step, what is collected is the front of the packet that is due.
LEMMA InStepCollects ==
  ASSUME TypeOK, NEW n \in 1 .. arrived, Recv(n),
         NEW m \in Nat, n <= m, m <= Len(stream), InStep(m)
  PROVE  \A i \in 1 .. Len(got) + n :
            /\ Pos[Collected(n)[i]] = Edge + i
            /\ Collected(n)[i] = [packet |-> Len(returned) + 1,
                                  place |-> (IF rpc = "body" THEN HeaderSize ELSE 0) + i]
            /\ Len(returned) + 1 \in Packets
<1> SUFFICES ASSUME NEW i \in 1 .. Len(got) + n
             PROVE  /\ Pos[Collected(n)[i]] = Edge + i
                    /\ Collected(n)[i] = [packet |-> Len(returned) + 1,
                                          place |-> (IF rpc = "body" THEN HeaderSize ELSE 0) + i]
                    /\ Len(returned) + 1 \in Packets
  OBVIOUS
<1>1. PICK r \in Nat, off \in Nat : r = Len(returned) + 1 /\ off = IF rpc = "body" THEN HeaderSize ELSE 0
  BY EdgeType, Sizes
<1>2. Start[r] \in Int /\ Edge = Start[r] + off
  BY <1>1, EdgeType
<1>3. /\ n \in Nat /\ Len(got) \in Nat /\ Len(got) + n <= Wanted /\ Wanted \in Nat
      /\ Collected(n) \in Seq(Byte) /\ Len(Collected(n)) = Len(got) + n
      /\ \A k \in 1 .. Len(got) : Collected(n)[k] = got[k]
      /\ \A k \in 1 .. n : Collected(n)[Len(got) + k] = stream[k]
  BY RecvFacts, TypeFacts
<1>4. off + i \in 1 .. Size
  <2>1. Wanted = IF rpc = "length" THEN HeaderSize ELSE BodySize
    BY TypeFacts
  <2>2. rpc \in {"length", "body"}
    BY DEF Recv
  <2> QED BY <1>1, <1>3, <2>1, <2>2, Sizes
<1>5. Pos[Collected(n)[i]] = Edge + i
  <2>1. CASE i <= Len(got)
    <3>1. i \in 1 .. Len(got)
      BY <1>3, <2>1
    <3> QED BY <3>1, <1>3 DEF InStep
  <2>2. CASE i > Len(got)
    <3>1. PICK k \in 1 .. n : i = Len(got) + k
      <4>1. i - Len(got) \in 1 .. n /\ i = Len(got) + (i - Len(got))
        BY <1>3, <2>2
      <4> QED BY <4>1
    <3>2. k \in 1 .. m /\ Len(got) + k = i /\ Edge + Len(got) + k = Edge + i
      BY <1>2, <1>3, <3>1
    <3> QED BY <3>1, <3>2, <1>3 DEF InStep
  <2> QED BY <2>1, <2>2, <1>3
<1>6. PICK b \in Byte : b = Collected(n)[i]
  BY <1>3, ElementOfSeq
<1>7. /\ b.packet \in Nat /\ b.packet \in Packets /\ b.place \in 1 .. Size
      /\ Pos[b] = Start[b.packet] + b.place
      /\ b = [packet |-> b.packet, place |-> b.place]
  BY PositionOfByte
<1>8. Start[b.packet] + b.place = Start[r] + (off + i)
  BY <1>1, <1>2, <1>5, <1>6, <1>7
<1>9. b.packet = r /\ b.place = off + i
  BY <1>4, <1>7, <1>8, PositionUnique
<1> QED BY <1>1, <1>5, <1>6, <1>7, <1>9

\* In step, a length is followed by its packet and a packet is returned.
LEMMA InStepUnit ==
  ASSUME TypeOK, NEW n \in 1 .. arrived, Recv(n),
         NEW m \in Nat, n <= m, m <= Len(stream), InStep(m), Enough(Collected(n))
  PROVE  /\ rpc = "length" => IsHeader(Collected(n))
         /\ rpc = "body" => IsBody(Collected(n)) /\ Head(Collected(n)).packet = Len(returned) + 1
<1>1. /\ n \in Nat /\ n >= 1 /\ Len(got) \in Nat /\ Len(got) + n = Wanted
      /\ Collected(n) \in Seq(Byte) /\ Len(Collected(n)) = Len(got) + n
  BY RecvFacts, TypeFacts
<1>2. \A i \in 1 .. Len(got) + n :
         /\ Collected(n)[i] = [packet |-> Len(returned) + 1,
                               place |-> (IF rpc = "body" THEN HeaderSize ELSE 0) + i]
         /\ Len(returned) + 1 \in Packets
  BY InStepCollects
<1>3. PICK p \in Packets : p = Len(returned) + 1
  <2>1. 1 \in 1 .. Len(got) + n
    BY <1>1
  <2> QED BY <1>2, <2>1
<1>4. PICK bytes \in Seq(Byte) : bytes = Collected(n)
  BY <1>1
<1>5. CASE rpc = "length"
  <2>1. Len(bytes) = HeaderSize /\ \A i \in 1 .. Len(bytes) : bytes[i] = [packet |-> p, place |-> i]
    <3>1. Wanted = HeaderSize
      BY <1>5 DEF Wanted
    <3>2. \A i \in 1 .. Len(bytes) : 0 + i = i
      BY <1>1, <1>4
    <3> QED BY <1>1, <1>2, <1>3, <1>4, <1>5, <3>1, <3>2
  <2>2. bytes = Header(p)
    <3>1. Header(p) \in Seq(Byte) /\ Len(Header(p)) = Len(bytes) /\ \A i \in 1 .. Len(bytes) : bytes[i] = Header(p)[i]
      BY <2>1, HeaderFacts
    <3> QED BY <3>1, SeqEqual
  <2> QED BY <1>4, <1>5, <2>2 DEF IsHeader
<1>6. CASE rpc = "body"
  <2>1. Len(bytes) = BodySize /\ \A i \in 1 .. Len(bytes) : bytes[i] = [packet |-> p, place |-> HeaderSize + i]
    <3>1. Wanted = BodySize
      BY <1>6 DEF Wanted
    <3> QED BY <1>1, <1>2, <1>3, <1>4, <1>6, <3>1
  <2>2. bytes = Body(p)
    <3>1. Body(p) \in Seq(Byte) /\ Len(Body(p)) = Len(bytes) /\ \A i \in 1 .. Len(bytes) : bytes[i] = Body(p)[i]
      BY <2>1, BodyFacts
    <3> QED BY <3>1, SeqEqual
  <2>3. Head(bytes).packet = p
    <3>1. 1 \in 1 .. Len(bytes)
      BY <2>1, Sizes
    <3>2. Head(bytes) = bytes[1]
      BY <3>1
    <3> QED BY <2>1, <3>1, <3>2
  <2> QED BY <1>3, <1>4, <1>6, <2>2, <2>3 DEF IsBody
<1> QED BY <1>5, <1>6

\* A recv in step leaves the reader in step, n bytes further.
LEMMA RecvInStep ==
  ASSUME TypeInv, NEW n \in 1 .. arrived, Recv(n),
         NEW m \in Nat, n <= m, m <= Len(stream), InStep(m)
  PROVE  /\ InStep(m - n)' /\ Edge' + Len(got') = Edge + Len(got) + n
         /\ Edge' \in Int /\ Len(got') \in Nat
<1>0. TypeOK /\ TypeOK'
  BY RecvTypes DEF TypeInv
<1>1. /\ n \in Nat /\ n >= 1 /\ Len(got) \in Nat /\ Wanted \in Nat
      /\ Collected(n) \in Seq(Byte) /\ Len(Collected(n)) = Len(got) + n
      /\ Len(stream) \in Nat
      /\ \A i \in 1 .. Len(stream) - n : stream'[i] = stream[n + i]
      /\ Enough(Collected(n)) <=> Len(got) + n = Wanted
  BY <1>0, RecvFacts, TypeFacts
<1>2. PICK r \in Nat, off \in Nat : r = Len(returned) + 1 /\ off = IF rpc = "body" THEN HeaderSize ELSE 0
  BY <1>0, EdgeType, Sizes
<1>3. Start[r] \in Int /\ Edge = Start[r] + off /\ Edge \in Int
  BY <1>0, <1>2, EdgeType
<1>4. rpc \in {"length", "body"}
  BY DEF Recv
<1>5. /\ rpc' # "lost" /\ Edge' + Len(got') = Edge + Len(got) + n
      /\ Edge' \in Int /\ Len(got') \in Nat
      /\ \A i \in 1 .. Len(got') : Pos[got'[i]] = Edge' + i
  <2>1. CASE ~ Enough(Collected(n)) /\ got' = Collected(n) /\ UNCHANGED <<rpc, blocking, returned>>
    <3>1. Edge' = Edge
      BY <2>1 DEF Edge
    <3>2. Len(got') = Len(got) + n
      BY <1>1, <2>1
    <3>3. \A i \in 1 .. Len(got') : Pos[got'[i]] = Edge' + i
      BY <1>0, <2>1, <3>1, <3>2, InStepCollects
    <3>4. Edge' + Len(got') = Edge + Len(got) + n /\ Edge' \in Int /\ Len(got') \in Nat
      BY <1>1, <1>3, <3>1, <3>2
    <3>5. rpc' # "lost"
      BY <1>4, <2>1
    <3> QED BY <3>3, <3>4, <3>5
  <2>2. CASE Enough(Collected(n)) /\ ReadLength(Collected(n))
    <3>1. rpc = "length" /\ IsHeader(Collected(n))
      BY <1>0, <2>2, InStepUnit DEF ReadLength
    <3>2. rpc' = "body" /\ got' = <<>> /\ returned' = returned
      BY <2>2, <3>1 DEF ReadLength
    <3>3. Edge' = Start[r] + HeaderSize
      BY <1>2, <3>2 DEF Edge
    <3>4. off = 0 /\ Len(got) + n = HeaderSize /\ Len(got') = 0
      BY <1>1, <1>2, <2>2, <3>1, <3>2 DEF Wanted
    <3> QED BY <1>1, <1>2, <1>3, <3>2, <3>3, <3>4, Sizes
  <2>3. CASE Enough(Collected(n)) /\ ReadBody(Collected(n))
    <3>1. rpc = "body" /\ IsBody(Collected(n))
      BY <1>0, <2>3, InStepUnit DEF ReadBody
    <3>2. rpc' = "idle" /\ got' = <<>> /\ returned' = Append(returned, Head(Collected(n)).packet)
      BY <2>3, <3>1 DEF ReadBody
    <3>3. Len(returned') = r
      <4>1. returned \in Seq(Packets) /\ returned' \in Seq(Packets)
        BY <1>0, TypeFacts DEF TypeOK
      <4> QED BY <1>2, <3>2, <4>1
    <3>4. Edge' = Start[r + 1] /\ Start[r + 1] = Start[r] + Size
      <4>1. Edge' = Start[r + 1] + 0
        BY <3>2, <3>3 DEF Edge
      <4>2. Start[r + 1] \in Int /\ Start[r + 1] = Start[r] + Size
        <5>1. r + 1 \in Nat
          BY <1>2
        <5> QED BY <1>2, <5>1, StartFacts
      <4> QED BY <4>1, <4>2
    <3>5. off = HeaderSize /\ Len(got) + n = BodySize /\ Len(got') = 0
      BY <1>1, <1>2, <2>3, <3>1, <3>2 DEF Wanted
    <3>6. Edge' + Len(got') = Edge + Len(got) + n /\ Edge' \in Int /\ Len(got') \in Nat
      <4>1. Edge + Len(got) + n = Start[r] + HeaderSize + BodySize
        BY <1>1, <1>3, <3>5, Sizes
      <4>2. Edge' = Start[r] + HeaderSize + BodySize /\ Edge' \in Int
        BY <1>3, <3>4, Sizes
      <4>3. Edge' + Len(got') = Edge'
        BY <3>5, <4>2
      <4> QED BY <3>5, <4>1, <4>2, <4>3
    <3>7. \A i \in 1 .. Len(got') : Pos[got'[i]] = Edge' + i
      BY <3>5
    <3> QED BY <3>2, <3>6, <3>7
  <2> QED BY <2>1, <2>2, <2>3 DEF Recv, Collected
<1>6. \A i \in 1 .. m - n : Pos[stream'[i]] = Edge' + Len(got') + i
  <2> SUFFICES ASSUME NEW i \in 1 .. m - n PROVE Pos[stream'[i]] = Edge' + Len(got') + i
    OBVIOUS
  <2>1. i \in 1 .. Len(stream) - n /\ n + i \in 1 .. m /\ i \in Nat
    BY <1>1
  <2>2. stream'[i] = stream[n + i]
    BY <1>1, <2>1
  <2>3. Pos[stream[n + i]] = Edge + Len(got) + (n + i)
    BY <2>1 DEF InStep
  <2>4. Edge + Len(got) + (n + i) = Edge + Len(got) + n + i
    <3>1. PICK e \in Int, l \in Nat : e = Edge /\ l = Len(got)
      BY <1>1, <1>3
    <3>2. e + l + (n + i) = e + l + n + i
      BY <1>1, <2>1
    <3> QED BY <3>1, <3>2
  <2> QED BY <1>5, <2>2, <2>3, <2>4
<1>7. InStep(m - n)'
  BY <1>5, <1>6 DEF InStep
<1> QED BY <1>5, <1>7

\* A recv leaves the bytes where they are while all was well.
LEMMA RecvWhole ==
  ASSUME TypeInv, NEW n \in 1 .. arrived, Recv(n), Whole
  PROVE  Whole'
<1>0. TypeOK
  BY DEF TypeInv
<1>1. n \in Nat /\ n >= 1 /\ n <= Len(stream) /\ Len(stream) \in Nat /\ Len(stream') = Len(stream) - n
      /\ Len(got) \in Nat /\ Edge \in Int
  BY <1>0, RecvFacts, TypeFacts, EdgeType
<1>2. PICK m \in Nat, k \in Nat : m = Len(stream) /\ k = m - n /\ k = Len(stream')
  <2>1. Len(stream) - n \in Nat
    BY <1>1
  <2> QED BY <1>1, <2>1
<1>3. /\ InStep(k)' /\ Edge' + Len(got') = Edge + Len(got) + n
      /\ Edge' \in Int /\ Len(got') \in Nat
  <2>1. InStep(m)
    BY <1>2 DEF Whole
  <2>2. InStep(m - n)' /\ Edge' + Len(got') = Edge + Len(got) + n
        /\ Edge' \in Int /\ Len(got') \in Nat
    BY <1>1, <1>2, <2>1, RecvInStep
  <2> QED BY <1>2, <2>2
<1>4. Edge' + Len(got') + Len(stream') = Edge + Len(got) + Len(stream)
  BY <1>1, <1>3
<1>5. UNCHANGED <<wpc, sent, closed>>
  BY DEF Recv, writerVars
<1>6. InStep(Len(stream))'
  BY <1>2, <1>3 DEF InStep
<1> QED BY <1>4, <1>5, <1>6 DEF Whole


\* What begins like a length is no packet.
LEMMA LengthIsNoBody ==
  ASSUME NEW bytes, bytes[1].place = 1
  PROVE  ~ IsBody(bytes)
<1> SUFFICES ASSUME NEW p \in Packets, bytes = Body(p) PROVE FALSE
  BY DEF IsBody
<1>1. Body(p)[1] = [packet |-> p, place |-> HeaderSize + 1]
  <2>1. 1 \in 1 .. BodySize
    BY Sizes
  <2> QED BY <2>1, BodyFacts
<1>2. HeaderSize + 1 = 1
  BY <1>1
<1> QED BY <1>2, Sizes

\* A reader that takes a length for a packet goes on doing so.
LEMMA DoomedTaken ==
  ASSUME TypeOK, NEW n \in 1 .. arrived, Recv(n), Doomed
  PROVE  rpc = "body" /\ Collected(n)[1].place = 1
<1>1. 1 \in 1 .. Len(got)
  <2>1. got \in Seq(Byte) /\ Len(got) \in Nat
    BY TypeFacts
  <2>2. Len(got) # 0
    BY <2>1, EmptySeq DEF Doomed
  <2> QED BY <2>1, <2>2
<1>2. Collected(n)[1] = got[1]
  BY <1>1, RecvFacts
<1> QED BY <1>2 DEF Doomed

\* A recv past the first of two lengths takes the second for a packet.
LEMMA AheadTaken ==
  ASSUME TypeInv, NEW n \in 1 .. arrived, Recv(n), NEW m \in Nat, NEW g \in Nat, Ahead(m, g), n > m
  PROVE  rpc = "body" /\ Collected(n)[1].place = 1
<1>1. TypeOK
  BY DEF TypeInv
<1>2. /\ n \in Nat /\ n >= 1 /\ Len(got) \in Nat /\ Edge \in Int
      /\ Len(got) + n <= Wanted /\ Wanted \in Nat
      /\ \A i \in 1 .. n : Collected(n)[Len(got) + i] = stream[i]
  BY <1>1, RecvFacts, TypeFacts, EdgeType
<1>3. stream[m + 1].place = 1 /\ Edge + Len(got) + m = Start[g] + HeaderSize /\ Start[g] \in Int
  BY StartFacts DEF Ahead
<1>4. PICK r \in Nat : r = Len(returned) + 1
  BY <1>1, EdgeType
<1>5. Start[r] \in Int /\ Edge = Start[r] + (IF rpc = "body" THEN HeaderSize ELSE 0)
  BY <1>1, <1>4, EdgeType
<1>6. PICK l \in Nat : l = Len(got)
  BY <1>2
<1>7. rpc \in {"length", "body"}
  BY DEF Recv
<1>8. rpc = "body"
  <2> SUFFICES ASSUME rpc = "length" PROVE FALSE
    BY <1>7
  <2>1. Wanted = HeaderSize /\ Edge = Start[r]
    BY <1>5 DEF Wanted
  <2>2. Start[r] + (l + m) = Start[g] + HeaderSize
    <3>1. PICK a \in Int, b \in Int : a = Start[r] /\ b = Start[g]
      BY <1>3, <1>5
    <3>2. a + l + m = b + HeaderSize
      BY <1>3, <1>6, <2>1, <3>1
    <3> QED BY <3>1, <3>2
  <2>3. l + m < HeaderSize
    BY <1>2, <1>6, <2>1
  <2>4. l + m >= HeaderSize
    BY <2>2, LengthNotOver
  <2> QED BY <2>3, <2>4, Sizes
<1>9. Wanted = BodySize /\ Edge = Start[r] + HeaderSize
  BY <1>5, <1>8 DEF Wanted
<1>10. Start[r] + (l + m) = Start[g]
  <2>1. PICK a \in Int, b \in Int : a = Start[r] /\ b = Start[g]
    BY <1>3, <1>5
  <2>2. a + HeaderSize + l + m = b + HeaderSize
    BY <1>3, <1>6, <1>9, <2>1
  <2>3. a + (l + m) = b
    BY <2>2, Sizes
  <2> QED BY <2>1, <2>3
<1>11. l + m < BodySize
  BY <1>2, <1>6, <1>9
<1>12. Len(got) = 0 /\ m = 0
  <2>1. l + m = 0
    BY <1>10, <1>11, PacketNotOver
  <2> QED BY <1>6, <2>1
<1>13. Collected(n)[1].place = 1
  <2>1. 1 \in 1 .. n /\ Len(got) + 1 = 1 /\ m + 1 = 1
    BY <1>2, <1>12
  <2>2. Collected(n)[Len(got) + 1] = stream[1]
    BY <1>2, <2>1
  <2> QED BY <1>3, <2>1, <2>2
<1> QED BY <1>8, <1>13

\* Once the lengths of two packets stand next to each other the reader takes the
\* second for the first packet, at the latest when it has a packet's worth of bytes.
LEMMA RecvGarbled ==
  ASSUME TypeInv, NEW n \in 1 .. arrived, Recv(n), Garbled
  PROVE  Garbled'
<1>0. TypeOK
  BY DEF TypeInv
<1>1. /\ n \in Nat /\ n >= 1 /\ n <= Len(stream) /\ Len(stream) \in Nat
      /\ Len(stream') = Len(stream) - n /\ Len(got) \in Nat /\ Edge \in Int
      /\ Len(got) + n <= Wanted /\ Wanted \in Nat
      /\ Collected(n) \in Seq(Byte) /\ Len(Collected(n)) = Len(got) + n
      /\ \A i \in 1 .. Len(got) : Collected(n)[i] = got[i]
      /\ \A i \in 1 .. n : Collected(n)[Len(got) + i] = stream[i]
      /\ \A i \in 1 .. Len(stream) - n : stream'[i] = stream[n + i]
  BY <1>0, RecvFacts, TypeFacts, EdgeType
<1>2. rpc # "lost"
  BY DEF Recv
\* A length where the packet should begin is no packet.
<1>3. ASSUME rpc = "body", Collected(n)[1].place = 1 PROVE Doomed' \/ rpc' = "lost"
  <2>1. ~ IsBody(Collected(n))
    BY <1>3, LengthIsNoBody
  <2>2. CASE ~ Enough(Collected(n)) /\ got' = Collected(n) /\ UNCHANGED <<rpc, blocking, returned>>
    <3>1. Collected(n) # <<>>
      BY <1>1, EmptySeq
    <3> QED BY <1>3, <2>2, <3>1 DEF Doomed
  <2>3. CASE ReadBody(Collected(n))
    BY <2>1, <2>3 DEF ReadBody, AfterGarbage
  <2>4. ~ ReadLength(Collected(n))
    BY <1>3 DEF ReadLength
  <2> QED BY <2>2, <2>3, <2>4 DEF Recv, Collected
<1>4. CASE Doomed
  BY <1>0, <1>3, <1>4, DoomedTaken DEF Garbled
<1>5. ASSUME NEW m \in Nat, NEW g \in Nat, Ahead(m, g) PROVE Garbled'
  <2>0. m < Len(stream) /\ InStep(m) /\ stream[m + 1].place = 1
        /\ Edge + Len(got) + m = Start[g] + HeaderSize /\ Start[g] \in Int
    BY <1>5, StartFacts DEF Ahead
  <2>1. CASE n <= m
    <3>1. /\ InStep(m - n)' /\ Edge' + Len(got') = Edge + Len(got) + n
          /\ Edge' \in Int /\ Len(got') \in Nat
      <4>1. m <= Len(stream)
        BY <1>1, <2>0
      <4> QED BY <2>0, <2>1, <4>1, RecvInStep
    <3>2. PICK k \in Nat : k = m - n
      <4>1. m - n \in Nat
        BY <1>1, <2>1
      <4> QED BY <4>1
    <3>3. k < Len(stream') /\ stream'[k + 1].place = 1
      <4>1. k + 1 \in 1 .. Len(stream) - n /\ n + (k + 1) = m + 1
        BY <1>1, <2>0, <2>1, <3>2
      <4>2. \A i \in 1 .. Len(stream) - n : stream'[i] = stream[n + i]
        BY <1>1
      <4>3. stream'[k + 1] = stream[m + 1]
        BY <4>1, <4>2
      <4> QED BY <1>1, <2>0, <3>2, <4>3
    <3>4. Edge' + Len(got') + k = Start[g] + HeaderSize
      BY <1>1, <2>0, <3>1, <3>2
    <3>5. Ahead(k, g)'
      BY <3>1, <3>2, <3>3, <3>4 DEF Ahead
    <3> QED BY <3>5 DEF Garbled
  <2>2. CASE n > m
    BY <1>3, <1>5, <2>2, AheadTaken DEF Garbled
  <2> QED BY <1>1, <2>1, <2>2
<1> QED BY <1>2, <1>4, <1>5 DEF Garbled


\* More bytes at the end change nothing for those that were there.
LEMMA Extended ==
  ASSUME TypeOK, NEW t \in Seq(Byte), stream' = stream \o t, UNCHANGED readerVars
  PROVE  /\ Edge' = Edge /\ got' = got /\ Len(stream') = Len(stream) + Len(t)
         /\ \A i \in 1 .. Len(stream) : stream'[i] = stream[i]
         /\ \A i \in 1 .. Len(t) : stream'[Len(stream) + i] = t[i]
         /\ \A m \in 0 .. Len(stream) : InStep(m) => InStep(m)'
         /\ Garbled => Garbled'
<1>1. stream \in Seq(Byte) /\ Len(stream) \in Nat /\ Len(t) \in Nat
  BY TypeFacts, LenProperties
<1>2. /\ Len(stream') = Len(stream) + Len(t)
      /\ \A i \in 1 .. Len(stream) : stream'[i] = stream[i]
      /\ \A i \in 1 .. Len(t) : stream'[Len(stream) + i] = t[i]
  BY <1>1, Joined
<1>3. Edge' = Edge /\ got' = got /\ rpc' = rpc
  BY DEF readerVars, Edge
<1>4. ASSUME NEW m \in 0 .. Len(stream), InStep(m) PROVE InStep(m)'
  <2>1. \A i \in 1 .. m : i \in 1 .. Len(stream)
    BY <1>1
  <2>2. \A i \in 1 .. m : stream'[i] = stream[i]
    BY <1>2, <2>1
  <2> QED BY <1>3, <1>4, <2>2 DEF InStep
<1>5. ASSUME NEW m \in Nat, NEW g \in Nat, Ahead(m, g) PROVE Ahead(m, g)'
  <2>1. m \in 0 .. Len(stream) /\ m + 1 \in 1 .. Len(stream) /\ m < Len(stream')
    BY <1>1, <1>2, <1>5 DEF Ahead
  <2>2. InStep(m)'
    BY <1>4, <1>5, <2>1 DEF Ahead
  <2>3. stream'[m + 1].place = 1
    BY <1>2, <1>5, <2>1 DEF Ahead
  <2>4. Edge' + Len(got') + m = Start[g] + HeaderSize
    BY <1>3, <1>5 DEF Ahead
  <2> QED BY <2>1, <2>2, <2>3, <2>4 DEF Ahead
<1>6. Doomed => Doomed'
  BY <1>3 DEF Doomed
<1> QED BY <1>2, <1>3, <1>4, <1>5, <1>6 DEF Garbled

\* The length written next to a whole packet continues the row; written next to
\* another length it spoils it.
LEMMA WriteLengthSync ==
  ASSUME TypeInv, SyncInv, NEW w \in Writers, WriteLength(w)
  PROVE  SyncInv'
<1>0. TypeOK
  BY DEF TypeInv
<1>1. PICK p \in Packets : /\ p = Len(sent) + 1
                           /\ stream' = stream \o Header(p)
                           /\ sent' = Append(sent, p)
                           /\ wpc' = [wpc EXCEPT ![w] = p]
  <2>1. Len(sent) + 1 \in Packets
    BY <1>0, TypeFacts, Sizes DEF WriteLength, Packets
  <2> QED BY <2>1 DEF WriteLength
<1>2. UNCHANGED readerVars /\ cut' = cut /\ rpc' = rpc /\ got' = got
  BY DEF WriteLength, readerVars
<1>3. /\ Header(p) \in Seq(Byte) /\ Len(Header(p)) = HeaderSize
      /\ \A i \in 1 .. HeaderSize : Header(p)[i] = [packet |-> p, place |-> i]
      /\ HeaderSize \in Nat /\ HeaderSize >= 1
  BY HeaderFacts, Sizes
<1>4. /\ Edge' = Edge /\ Len(stream') = Len(stream) + HeaderSize
      /\ \A i \in 1 .. Len(stream) : stream'[i] = stream[i]
      /\ \A i \in 1 .. HeaderSize : stream'[Len(stream) + i] = Header(p)[i]
      /\ \A m \in 0 .. Len(stream) : InStep(m) => InStep(m)'
      /\ Garbled => Garbled'
  BY <1>0, <1>1, <1>2, <1>3, Extended
<1>5. PICK e \in Int, l \in Nat, len \in Nat : e = Edge /\ l = Len(got) /\ len = Len(stream)
  BY <1>0, EdgeType, TypeFacts
<1>6. mixed' = (mixed \/ \E v \in Writers : wpc[v] # 0) /\ wpc[w] = 0 /\ ~ closed
  BY DEF WriteLength
<1>7. ASSUME ~ cut, mixed PROVE mixed' /\ Garbled'
  BY <1>4, <1>6, <1>7 DEF SyncInv
<1>8. ASSUME ~ cut, ~ mixed, \A v \in Writers : wpc[v] = 0 PROVE ~ mixed' /\ Whole'
  <2>1. InStep(len) /\ e + l + len = Start[p] /\ Start[p] \in Int
    <3>1. Whole
      BY <1>8 DEF SyncInv
    <3>2. ~ \E v \in Writers : wpc[v] # 0
      BY <1>8
    <3>3. InStep(Len(stream)) /\ Edge + Len(got) + Len(stream) = Start[Len(sent) + 1]
      BY <1>6, <3>1, <3>2 DEF Whole
    <3>4. Start[p] \in Int
      BY StartFacts DEF Packets
    <3>5. e + l + len = Start[p]
      BY <1>1, <1>5, <3>3
    <3>6. InStep(len)
      BY <1>5, <3>3 DEF InStep
    <3> QED BY <3>4, <3>5, <3>6
  <2>2. InStep(len)'
    BY <1>4, <1>5, <2>1
  <2>3. ASSUME NEW i \in 1 .. HeaderSize PROVE Pos[stream'[len + i]] = e + l + (len + i)
    <3>1. stream'[len + i] = [packet |-> p, place |-> i]
      BY <1>3, <1>4, <1>5
    <3>2. [packet |-> p, place |-> i] \in Byte /\ i \in Nat
      BY <1>3, Sizes DEF Byte
    <3>3. Pos[[packet |-> p, place |-> i]] = Start[p] + i
      BY <3>2 DEF Pos
    <3> QED BY <2>1, <3>1, <3>2, <3>3
  <2>4. InStep(len + HeaderSize)'
    <3>1. ASSUME NEW i \in 1 .. len + HeaderSize PROVE Pos[stream'[i]] = Edge' + Len(got') + i
      <4>1. CASE i \in 1 .. len
        BY <2>2, <4>1 DEF InStep
      <4>2. CASE i \notin 1 .. len
        <5>1. i - len \in 1 .. HeaderSize /\ i = len + (i - len)
          BY <1>3, <4>2
        <5>2. Pos[stream'[i]] = e + l + i
          BY <2>3, <5>1
        <5> QED BY <1>2, <1>4, <1>5, <5>2
      <4> QED BY <4>1, <4>2
    <3> QED BY <2>2, <3>1 DEF InStep
  <2>5. InStep(Len(stream))'
    BY <1>4, <1>5, <2>4 DEF InStep
  <2>6. /\ wpc'[w] # 0 /\ wpc'[w] = Len(sent') /\ \A v \in Writers \ {w} : wpc'[v] = 0
        /\ Len(sent') = p
    <3>1. wpc \in [Writers -> Packets \cup {0}] /\ sent \in Seq(Packets)
      BY <1>0 DEF TypeOK
    <3>2. Len(sent') = p /\ p # 0
      BY <1>1, <3>1, Sizes DEF Packets
    <3> QED BY <1>1, <1>8, <3>1, <3>2
  <2>7. Edge' + Len(got') + Len(stream') = Start[Len(sent')] + HeaderSize
    <3>1. e + l + (len + HeaderSize) = Start[p] + HeaderSize
      BY <1>3, <2>1
    <3> QED BY <1>2, <1>4, <1>5, <2>6, <3>1
  <2>8. ~ mixed'
    BY <1>6, <1>8
  <2> QED BY <2>5, <2>6, <2>7, <2>8 DEF Whole
<1>9. ASSUME ~ cut, ~ mixed, NEW v \in Writers, wpc[v] # 0 PROVE mixed' /\ Garbled'
  <2>1. PICK g \in Nat : InStep(len) /\ e + l + len = Start[g] + HeaderSize
    <3>1. Whole
      BY <1>9 DEF SyncInv
    <3>2. InStep(Len(stream)) /\ Edge + Len(got) + Len(stream) = Start[Len(sent)] + HeaderSize
      BY <1>6, <1>9, <3>1 DEF Whole
    <3>3. PICK g \in Nat : g = Len(sent)
      BY <1>0, TypeFacts
    <3> QED BY <1>5, <3>2, <3>3 DEF InStep
  <2>2. InStep(len)'
    BY <1>4, <1>5, <2>1
  <2>3. stream'[len + 1].place = 1
    <3>1. 1 \in 1 .. HeaderSize
      BY <1>3
    <3> QED BY <1>3, <1>4, <1>5, <3>1
  <2>4. len < Len(stream') /\ Edge' + Len(got') + len = Start[g] + HeaderSize
    BY <1>2, <1>3, <1>4, <1>5, <2>1
  <2>5. Ahead(len, g)'
    BY <2>2, <2>3, <2>4 DEF Ahead
  <2> QED BY <1>6, <1>9, <2>5 DEF Garbled
<1> QED BY <1>2, <1>7, <1>8, <1>9 DEF SyncInv

\* The body of a packet joins its length, unless another length came between.
LEMMA WriteBodySync ==
  ASSUME TypeInv, SyncInv, NEW w \in Writers, WriteBody(w), ~ closed
  PROVE  SyncInv'
<1>0. TypeOK
  BY DEF TypeInv
<1>1. PICK p \in Packets : p = wpc[w] /\ stream' = stream \o Body(p)
  BY <1>0 DEF WriteBody, TypeOK
<1>2. UNCHANGED <<readerVars, cut, rpc, got, sent, mixed>> /\ wpc' = [wpc EXCEPT ![w] = 0] /\ wpc[w] # 0
  BY DEF WriteBody, readerVars
<1>3. /\ Body(p) \in Seq(Byte) /\ Len(Body(p)) = BodySize
      /\ \A i \in 1 .. BodySize : Body(p)[i] = [packet |-> p, place |-> HeaderSize + i]
      /\ BodySize \in Nat /\ BodySize >= 1 /\ HeaderSize \in Nat
  BY BodyFacts, Sizes
<1>4. /\ Edge' = Edge /\ Len(stream') = Len(stream) + BodySize
      /\ \A i \in 1 .. Len(stream) : stream'[i] = stream[i]
      /\ \A i \in 1 .. BodySize : stream'[Len(stream) + i] = Body(p)[i]
      /\ \A m \in 0 .. Len(stream) : InStep(m) => InStep(m)'
      /\ Garbled => Garbled'
  BY <1>0, <1>1, <1>2, <1>3, Extended
<1>5. PICK e \in Int, l \in Nat, len \in Nat : e = Edge /\ l = Len(got) /\ len = Len(stream)
  BY <1>0, EdgeType, TypeFacts
<1>6. ASSUME ~ cut, mixed PROVE Garbled'
  BY <1>4, <1>6 DEF SyncInv
<1>7. ASSUME ~ cut, ~ mixed PROVE Whole'
  <2>1. /\ InStep(len) /\ e + l + len = Start[p] + HeaderSize /\ Start[p] \in Int
        /\ p = Len(sent) /\ \A v \in Writers \ {w} : wpc[v] = 0
    <3>1. Whole
      BY <1>7 DEF SyncInv
    <3>2. /\ InStep(Len(stream)) /\ Edge + Len(got) + Len(stream) = Start[Len(sent)] + HeaderSize
          /\ wpc[w] = Len(sent) /\ \A v \in Writers \ {w} : wpc[v] = 0
      BY <1>2, <3>1 DEF Whole
    <3>3. p = Len(sent) /\ p \in Nat
      BY <1>1, <3>2 DEF Packets
    <3>4. Start[p] \in Int
      BY <3>3, StartFacts
    <3>5. e + l + len = Start[p] + HeaderSize
      BY <1>5, <3>2, <3>3
    <3>6. InStep(len)
      BY <1>5, <3>2 DEF InStep
    <3> QED BY <3>2, <3>3, <3>4, <3>5, <3>6
  <2>2. InStep(len)'
    BY <1>4, <1>5, <2>1
  <2>3. ASSUME NEW i \in 1 .. BodySize PROVE Pos[stream'[len + i]] = e + l + (len + i)
    <3>1. stream'[len + i] = [packet |-> p, place |-> HeaderSize + i]
      BY <1>3, <1>4, <1>5
    <3>2. [packet |-> p, place |-> HeaderSize + i] \in Byte /\ i \in Nat
      BY <1>3, Sizes DEF Byte
    <3>3. Pos[[packet |-> p, place |-> HeaderSize + i]] = Start[p] + (HeaderSize + i)
      BY <3>2 DEF Pos
    <3>4. Start[p] + (HeaderSize + i) = e + l + (len + i)
      <4>1. PICK a \in Int : a = Start[p] /\ e + l + len = a + HeaderSize
        BY <2>1
      <4>2. i \in Nat
        BY <1>3
      <4>3. a + (HeaderSize + i) = e + l + (len + i)
        BY <4>1, <4>2, Sizes
      <4> QED BY <4>1, <4>3
    <3> QED BY <3>1, <3>3, <3>4
  <2>4. InStep(len + BodySize)'
    <3>1. ASSUME NEW i \in 1 .. len + BodySize PROVE Pos[stream'[i]] = Edge' + Len(got') + i
      <4>1. CASE i \in 1 .. len
        BY <2>2, <4>1 DEF InStep
      <4>2. CASE i \notin 1 .. len
        <5>1. i - len \in 1 .. BodySize /\ i = len + (i - len)
          BY <1>3, <4>2
        <5>2. Pos[stream'[i]] = e + l + i
          BY <2>3, <5>1
        <5> QED BY <1>2, <1>4, <1>5, <5>2
      <4> QED BY <4>1, <4>2
    <3> QED BY <2>2, <3>1 DEF InStep
  <2>5. InStep(Len(stream))'
    BY <1>4, <1>5, <2>4 DEF InStep
  <2>6. \A v \in Writers : wpc'[v] = 0
    BY <1>0, <1>2, <2>1 DEF TypeOK
  <2>7. Edge' + Len(got') + Len(stream') = Start[Len(sent') + 1]
    <3>1. Start[p + 1] = Start[p] + Size
      BY StartFacts DEF Packets
    <3>2. e + l + (len + BodySize) = Start[p] + Size
      <4>1. PICK a \in Int : a = Start[p] /\ e + l + len = a + HeaderSize
        BY <2>1
      <4>2. e + l + (len + BodySize) = a + Size
        BY <4>1, Sizes
      <4> QED BY <4>1, <4>2
    <3> QED BY <1>2, <1>4, <1>5, <2>1, <3>1, <3>2
  <2> QED BY <2>5, <2>6, <2>7 DEF Whole
<1> QED BY <1>2, <1>6, <1>7 DEF SyncInv

\* A body that is not sent any more leaves a length at the end of the stream.
LEMMA TornSync ==
  ASSUME TypeInv, SyncInv, NEW w \in Writers, WriteBody(w), closed
  PROVE  SyncInv'
<1>1. UNCHANGED <<stream, closed, sent, mixed, rpc, got, returned, cut>>
  BY DEF WriteBody, readerVars
<1>2. Garbled => Garbled'
  BY <1>1 DEF Garbled, Ahead, Doomed, InStep, Edge
<1>3. Whole => Whole'
  BY <1>1 DEF Whole, InStep, Edge
<1> QED BY <1>1, <1>2, <1>3 DEF SyncInv

\* Beginning to read, or finding nothing to read, changes no position.
LEMMA Turned ==
  ASSUME TypeOK, rpc \in {"idle", "length"}, rpc' \in {"idle", "length"}, got = <<>>, got' = <<>>,
         UNCHANGED <<stream, closed, writerVars, returned, cut>>, SyncInv
  PROVE  SyncInv'
<1>1. Edge' = Edge
  BY DEF Edge
<1>2. Len(got') = Len(got)
  OBVIOUS
<1>3. ASSUME NEW m \in Nat, InStep(m) PROVE InStep(m)'
  BY <1>1, <1>3 DEF InStep
<1>4. Garbled => Garbled'
  <2>1. ASSUME NEW m \in Nat, NEW g \in Nat, Ahead(m, g) PROVE Ahead(m, g)'
    BY <1>1, <1>3, <2>1 DEF Ahead
  <2>2. ~ Doomed /\ rpc # "lost"
    BY DEF Doomed
  <2> QED BY <2>1, <2>2 DEF Garbled
<1>5. Whole => Whole'
  <2>1. PICK len \in Nat : len = Len(stream)
    BY TypeFacts
  <2>2. InStep(Len(stream)) => InStep(Len(stream))'
    BY <1>3, <2>1 DEF InStep
  <2> QED BY <1>1, <2>2 DEF Whole, writerVars
<1> QED BY <1>4, <1>5 DEF SyncInv, writerVars

\* At the start the next byte is the first of packet 1.
LEMMA InitSync == Init => SyncInv
<1> SUFFICES ASSUME Init PROVE SyncInv
  OBVIOUS
<1>1. ~ mixed /\ got = <<>> /\ stream = <<>> /\ sent = <<>> /\ returned = <<>> /\ rpc = "idle"
  BY DEF Init
<1>2. Len(got) = 0 /\ Len(stream) = 0 /\ Len(sent) = 0 /\ Len(returned) = 0
  BY <1>1
<1>3. \A w \in Writers : wpc[w] = 0
  BY DEF Init
<1>4. Edge = Start[1] + 0 /\ Start[1] = 0
  BY <1>1, <1>2, StartFacts DEF Edge
<1>5. InStep(Len(stream))
  BY <1>1, <1>2 DEF InStep
<1>6. Edge + Len(got) + Len(stream) = Start[Len(sent) + 1]
  BY <1>2, <1>4
<1>7. Whole
  BY <1>3, <1>5, <1>6 DEF Whole
<1> QED BY <1>1, <1>7 DEF SyncInv

\* Every step keeps writer and reader in step, or spoils the stream.
LEMMA SyncStep == TypeInv /\ SyncInv /\ [Next]_vars => SyncInv'
<1> SUFFICES ASSUME TypeInv, SyncInv, [Next]_vars PROVE SyncInv'
  OBVIOUS
<1>0. TypeOK
  BY DEF TypeInv
<1>1. ASSUME NEW w \in Writers, WriteLength(w) PROVE SyncInv'
  BY <1>1, WriteLengthSync
<1>2. ASSUME NEW w \in Writers, WriteBody(w) PROVE SyncInv'
  BY <1>2, WriteBodySync, TornSync
<1>3. CASE Close \/ Arrive \/ SpinAtEOF \/ UNCHANGED vars
  <2>1. UNCHANGED <<stream, sent, wpc, mixed, rpc, got, returned, cut>> /\ (closed => closed')
    BY <1>3 DEF Close, Arrive, SpinAtEOF, vars, writerVars, readerVars
  <2>2. Garbled => Garbled'
    BY <2>1 DEF Garbled, Ahead, Doomed, InStep, Edge
  <2>3. Whole => Whole'
    BY <2>1 DEF Whole, InStep, Edge
  <2> QED BY <2>1, <2>2, <2>3 DEF SyncInv
<1>4. ASSUME NEW block \in BOOLEAN, BeginRead(block) PROVE SyncInv'
  BY <1>0, <1>4, Turned DEF BeginRead, TypeInv
<1>5. ASSUME NEW n \in 1 .. arrived, Recv(n) PROVE SyncInv'
  <2>1. cut' = cut /\ mixed' = mixed
    BY <1>5 DEF Recv, writerVars
  <2>2. Garbled => Garbled'
    BY <1>5, RecvGarbled
  <2>3. Whole => Whole'
    BY <1>5, RecvWhole
  <2> QED BY <2>1, <2>2, <2>3 DEF SyncInv
<1>6. CASE WouldBlock
  <2>1. CASE got = <<>>
    <3>1. rpc = "length" /\ rpc' = "idle" /\ got' = <<>>
      BY <1>6 DEF WouldBlock
    <3>2. UNCHANGED <<stream, closed, writerVars, returned>> /\ cut' = cut
      BY <1>0, <1>6, <2>1 DEF WouldBlock, TypeOK
    <3> QED BY <1>0, <2>1, <3>1, <3>2, Turned
  <2>2. CASE got # <<>>
    BY <1>6, <2>2 DEF WouldBlock, SyncInv
  <2> QED BY <2>1, <2>2
<1> QED BY <1>1, <1>2, <1>3, <1>4, <1>5, <1>6 DEF Next, Reader

\* The positions agree throughout.
LEMMA Synchronous == Spec => [](TypeInv /\ SyncInv)
<1>1. Init => TypeInv /\ SyncInv
  BY InitTypes, InitSync
<1>2. (TypeInv /\ SyncInv) /\ [Next]_vars => (TypeInv /\ SyncInv)'
  BY TypeStep, SyncStep
<1> QED BY <1>1, <1>2, PTL DEF Spec

\* However the stream is split, read_k_bytes collects exactly the bytes of one
\* length and then of its packet, unless recv_packet_nblock threw a part of a
\* length away or two threads wrote their packets into each other.
THEOREM InStepUnlessSpoiled == Spec => []LostOnlyAfterCutOrMix
<1>1. TypeInv /\ SyncInv => LostOnlyAfterCutOrMix
  BY DEF TypeInv, TypeOK, SyncInv, Whole, InStep, LostOnlyAfterCutOrMix
<1> QED BY <1>1, Synchronous, PTL

-----------------------------------------------------------------------------
(***************************************************************************)
(* Each packet once.  The last byte of a packet, which no length contains, *)
(* is written once; a packet that is returned has its last byte read then. *)
(***************************************************************************)
OnceInv ==
    /\ \A i \in DOMAIN sent : sent[i] = i
    /\ \A i \in DOMAIN stream : stream[i].packet <= Len(sent)
    /\ \A w \in Writers : wpc[w] <= Len(sent)
    /\ \A k \in DOMAIN returned : returned[k] <= Len(sent)
    /\ \A i, j \in DOMAIN stream : stream[i] = stream[j] /\ stream[i].place = Size => i = j
    /\ \A i \in DOMAIN stream : stream[i].place = Size =>
           /\ \A k \in DOMAIN returned : returned[k] # stream[i].packet
           /\ \A w \in Writers : wpc[w] # stream[i].packet
    /\ \A k \in DOMAIN returned : \A w \in Writers : returned[k] # wpc[w]
    /\ \A v, w \in Writers : wpc[v] = wpc[w] /\ wpc[v] # 0 => v = w

\* At the start nothing has been written.
LEMMA InitOnce == Init => OnceInv
<1> SUFFICES ASSUME Init PROVE OnceInv
  OBVIOUS
<1>1. sent = <<>> /\ stream = <<>> /\ returned = <<>> /\ \A w \in Writers : wpc[w] = 0
  BY DEF Init
<1>2. DOMAIN sent = {} /\ DOMAIN stream = {} /\ DOMAIN returned = {} /\ Len(sent) = 0
  BY <1>1
<1> QED BY <1>1, <1>2 DEF OnceInv

\* A length has no last byte of a packet in it.
LEMMA WriteLengthOnce ==
  ASSUME TypeInv, OnceInv, NEW w \in Writers, WriteLength(w)
  PROVE  OnceInv'
<1>0. TypeOK
  BY DEF TypeInv
<1>1. PICK p \in Packets : /\ p = Len(sent) + 1
                           /\ stream' = stream \o Header(p)
                           /\ sent' = Append(sent, p)
                           /\ wpc' = [wpc EXCEPT ![w] = p]
  <2>1. Len(sent) + 1 \in Packets
    BY <1>0, TypeFacts, Sizes DEF WriteLength, Packets
  <2> QED BY <2>1 DEF WriteLength
<1>2. returned' = returned
  BY DEF WriteLength, readerVars
<1>3. PICK len \in Nat, s \in Nat : len = Len(stream) /\ s = Len(sent)
  BY <1>0, TypeFacts
<1>4. /\ DOMAIN stream = 1 .. len /\ DOMAIN sent = 1 .. s /\ stream \in Seq(Byte) /\ sent \in Seq(Packets)
      /\ DOMAIN returned = 1 .. Len(returned) /\ returned \in Seq(Packets)
  BY <1>0, <1>3, TypeFacts
<1>5. p \in Nat /\ p = s + 1 /\ p # 0
  BY <1>1, <1>3, Sizes DEF Packets
<1>6. DOMAIN sent' = 1 .. s + 1 /\ Len(sent') = s + 1 /\ \A i \in 1 .. s + 1 : sent'[i] = i
  <2>1. /\ Append(sent, p) \in Seq(Packets) /\ Len(Append(sent, p)) = s + 1
        /\ Append(sent, p)[s + 1] = p /\ \A i \in 1 .. s : Append(sent, p)[i] = sent[i]
    BY <1>3, <1>4, AppendProperties
  <2>2. DOMAIN Append(sent, p) = 1 .. s + 1
    BY <2>1, LenProperties
  <2>3. \A i \in 1 .. s : sent[i] = i
    BY <1>4 DEF OnceInv
  <2>4. \A i \in 1 .. s + 1 : i \in 1 .. s \/ i = s + 1
    BY <1>3
  <2> QED BY <1>1, <1>5, <2>1, <2>2, <2>3, <2>4
<1>7. /\ Header(p) \in Seq(Byte) /\ Len(Header(p)) = HeaderSize
      /\ \A i \in 1 .. HeaderSize : Header(p)[i] = [packet |-> p, place |-> i]
  BY HeaderFacts
<1>8. /\ DOMAIN stream' = 1 .. len + HeaderSize
      /\ \A i \in 1 .. len : stream'[i] = stream[i]
      /\ \A i \in 1 .. HeaderSize : stream'[len + i] = Header(p)[i]
  <2>1. /\ stream' \in Seq(Byte) /\ Len(stream') = len + HeaderSize
        /\ \A i \in 1 .. len : stream'[i] = stream[i]
        /\ \A i \in 1 .. HeaderSize : stream'[len + i] = Header(p)[i]
    <3>1. PICK t \in Seq(Byte) : t = Header(p)
      BY <1>7
    <3>2. /\ stream \o t \in Seq(Byte) /\ Len(stream \o t) = Len(stream) + Len(t)
          /\ \A i \in 1 .. Len(stream) : (stream \o t)[i] = stream[i]
          /\ \A i \in 1 .. Len(t) : (stream \o t)[Len(stream) + i] = t[i]
      BY <1>4, Joined
    <3>3. stream' = stream \o t /\ Len(t) = HeaderSize /\ Len(stream) = len
      BY <1>1, <1>3, <1>7, <3>1
    <3> QED BY <3>1, <3>2, <3>3
  <2> QED BY <2>1, LenProperties
\* What is new has no last byte in it.
<1>9. ASSUME NEW i \in DOMAIN stream'
      PROVE  \/ i \in 1 .. len /\ stream'[i] = stream[i]
             \/ stream'[i].packet = p /\ stream'[i].place # Size
  <2>1. CASE i \in 1 .. len
    BY <1>8, <2>1
  <2>2. CASE i \notin 1 .. len
    <3>1. i - len \in 1 .. HeaderSize /\ i = len + (i - len)
      BY <1>3, <1>8, <2>2, Sizes
    <3>2. stream'[i] = [packet |-> p, place |-> i - len]
      BY <1>7, <1>8, <3>1
    <3>3. i - len # Size
      BY <3>1, Sizes
    <3> QED BY <3>2, <3>3
  <2> QED BY <2>1, <2>2
<1>10. \A v \in Writers : wpc[v] \in Nat /\ wpc[v] <= s
  BY <1>0, <1>3, TypeFacts DEF OnceInv
<1>11. \A v \in Writers : wpc'[v] = IF v = w THEN p ELSE wpc[v]
  BY <1>0, <1>1 DEF TypeOK
<1>12. \A i \in 1 .. len : stream[i].packet \in Nat /\ stream[i].packet <= s
  <2> SUFFICES ASSUME NEW i \in 1 .. len PROVE stream[i].packet \in Nat /\ stream[i].packet <= s
    OBVIOUS
  <2>1. PICK b \in Byte : b = stream[i]
    BY <1>3, <1>4, ElementOfSeq
  <2>2. b.packet \in Nat
    BY PositionOfByte
  <2>3. stream[i].packet <= s
    BY <1>3, <1>4 DEF OnceInv
  <2> QED BY <2>1, <2>2, <2>3
<1>13. \A k \in DOMAIN returned : returned[k] \in Nat /\ returned[k] <= s
  <2> SUFFICES ASSUME NEW k \in DOMAIN returned PROVE returned[k] \in Nat /\ returned[k] <= s
    OBVIOUS
  <2>1. returned[k] \in Packets
    BY <1>4, ElementOfSeq
  <2>2. returned[k] <= s
    BY <1>3 DEF OnceInv
  <2> QED BY <2>1, <2>2 DEF Packets
<1>14. \A i \in DOMAIN stream' : stream'[i].packet <= s + 1
  <2> SUFFICES ASSUME NEW i \in DOMAIN stream' PROVE stream'[i].packet <= s + 1
    OBVIOUS
  <2>1. CASE i \in 1 .. len /\ stream'[i] = stream[i]
    BY <1>3, <1>12, <2>1
  <2>2. CASE stream'[i].packet = p
    BY <1>5, <2>2
  <2> QED BY <1>9, <2>1, <2>2
<1>15. \A i, j \in DOMAIN stream' : stream'[i] = stream'[j] /\ stream'[i].place = Size => i = j
  <2> SUFFICES ASSUME NEW i \in DOMAIN stream', NEW j \in DOMAIN stream',
                      stream'[i] = stream'[j], stream'[i].place = Size
               PROVE  i = j
    OBVIOUS
  <2>1. i \in 1 .. len /\ stream'[i] = stream[i] /\ j \in 1 .. len /\ stream'[j] = stream[j]
    BY <1>9
  <2>2. stream[i] = stream[j] /\ stream[i].place = Size
    BY <2>1
  <2> QED BY <1>4, <2>1, <2>2 DEF OnceInv
<1>16. \A i \in DOMAIN stream' : stream'[i].place = Size =>
           /\ \A k \in DOMAIN returned' : returned'[k] # stream'[i].packet
           /\ \A v \in Writers : wpc'[v] # stream'[i].packet
  <2> SUFFICES ASSUME NEW i \in DOMAIN stream', stream'[i].place = Size
               PROVE  /\ \A k \in DOMAIN returned' : returned'[k] # stream'[i].packet
                      /\ \A v \in Writers : wpc'[v] # stream'[i].packet
    OBVIOUS
  <2>1. i \in 1 .. len /\ stream'[i] = stream[i]
    BY <1>9
  <2>2. /\ \A k \in DOMAIN returned : returned[k] # stream[i].packet
        /\ \A v \in Writers : wpc[v] # stream[i].packet
    BY <1>4, <2>1 DEF OnceInv
  <2>3. p # stream[i].packet
    BY <1>3, <1>5, <1>12, <2>1
  <2> QED BY <1>2, <1>11, <2>1, <2>2, <2>3
<1>17. \A v \in Writers : wpc'[v] <= s + 1
  BY <1>3, <1>5, <1>10, <1>11
<1>18. \A k \in DOMAIN returned' : returned'[k] <= s + 1 /\ \A v \in Writers : returned'[k] # wpc'[v]
  <2> SUFFICES ASSUME NEW k \in DOMAIN returned
               PROVE  returned[k] <= s + 1 /\ \A v \in Writers : returned[k] # wpc'[v]
    BY <1>2
  <2>1. returned[k] <= s + 1 /\ returned[k] # p
    BY <1>3, <1>5, <1>13
  <2>2. \A v \in Writers : returned[k] # wpc[v]
    BY DEF OnceInv
  <2> QED BY <1>11, <2>1, <2>2
<1>19. \A u, v \in Writers : wpc'[u] = wpc'[v] /\ wpc'[u] # 0 => u = v
  <2>1. \A v \in Writers : wpc[v] # p
    BY <1>3, <1>5, <1>10
  <2>2. \A u, v \in Writers : wpc[u] = wpc[v] /\ wpc[u] # 0 => u = v
    BY DEF OnceInv
  <2> QED BY <1>11, <2>1, <2>2
<1> QED BY <1>6, <1>14, <1>15, <1>16, <1>17, <1>18, <1>19 DEF OnceInv


\* A body has its last byte, and its writer forgets the packet.
LEMMA WriteBodyOnce ==
  ASSUME TypeInv, OnceInv, NEW w \in Writers, WriteBody(w), ~ closed
  PROVE  OnceInv'
<1>0. TypeOK
  BY DEF TypeInv
<1>1. PICK p \in Packets : p = wpc[w] /\ stream' = stream \o Body(p)
  BY <1>0 DEF WriteBody, TypeOK
<1>2. returned' = returned /\ sent' = sent
  BY DEF WriteBody, readerVars
<1>3. PICK len \in Nat, s \in Nat : len = Len(stream) /\ s = Len(sent)
  BY <1>0, TypeFacts
<1>4. DOMAIN stream = 1 .. len /\ stream \in Seq(Byte) /\ p # 0
  BY <1>0, <1>3, TypeFacts, Sizes DEF Packets
<1>5. /\ Body(p) \in Seq(Byte) /\ Len(Body(p)) = BodySize
      /\ \A i \in 1 .. BodySize : Body(p)[i] = [packet |-> p, place |-> HeaderSize + i]
  BY BodyFacts
<1>6. /\ DOMAIN stream' = 1 .. len + BodySize
      /\ \A i \in 1 .. len : stream'[i] = stream[i]
      /\ \A i \in 1 .. BodySize : stream'[len + i] = Body(p)[i]
  <2>1. /\ stream' \in Seq(Byte) /\ Len(stream') = len + BodySize
        /\ \A i \in 1 .. len : stream'[i] = stream[i]
        /\ \A i \in 1 .. BodySize : stream'[len + i] = Body(p)[i]
    <3>1. PICK t \in Seq(Byte) : t = Body(p)
      BY <1>5
    <3>2. /\ stream \o t \in Seq(Byte) /\ Len(stream \o t) = Len(stream) + Len(t)
          /\ \A i \in 1 .. Len(stream) : (stream \o t)[i] = stream[i]
          /\ \A i \in 1 .. Len(t) : (stream \o t)[Len(stream) + i] = t[i]
      BY <1>4, Joined
    <3>3. stream' = stream \o t /\ Len(t) = BodySize /\ Len(stream) = len
      BY <1>1, <1>3, <1>5, <3>1
    <3> QED BY <3>1, <3>2, <3>3
  <2> QED BY <2>1, LenProperties
\* What is new has its last byte at its end.
<1>7. ASSUME NEW i \in DOMAIN stream'
      PROVE  \/ i \in 1 .. len /\ stream'[i] = stream[i]
             \/ i \notin 1 .. len /\ stream'[i].packet = p /\ (stream'[i].place = Size => i = len + BodySize)
  <2>1. CASE i \in 1 .. len
    BY <1>6, <2>1
  <2>2. CASE i \notin 1 .. len
    <3>1. PICK j \in 1 .. BodySize : i = len + j
      <4>1. i - len \in 1 .. BodySize /\ i = len + (i - len)
        BY <1>3, <1>6, <2>2, Sizes
      <4> QED BY <4>1
    <3>2. stream'[i] = [packet |-> p, place |-> HeaderSize + j]
      BY <1>5, <1>6, <3>1
    <3>3. HeaderSize + j = Size => j = BodySize
      BY <3>1, Sizes
    <3> QED BY <2>2, <3>1, <3>2, <3>3
  <2> QED BY <2>1, <2>2
<1>8. \A v \in Writers : wpc'[v] = IF v = w THEN 0 ELSE wpc[v]
  BY <1>0 DEF WriteBody, TypeOK
\* This packet is in nobody else's hands, and its last byte is nowhere.
<1>9. /\ \A v \in Writers : v # w => wpc[v] # p
      /\ \A i \in 1 .. len : stream[i].place = Size => stream[i].packet # p
      /\ \A k \in DOMAIN returned : returned[k] # p
  <2>1. \A v \in Writers : v # w => wpc[v] # p
    <3> SUFFICES ASSUME NEW v \in Writers, v # w, wpc[v] = p PROVE FALSE
      OBVIOUS
    <3>1. wpc[v] = wpc[w] /\ wpc[v] # 0
      BY <1>1, <1>4
    <3> QED BY <3>1 DEF OnceInv
  <2>2. \A i \in 1 .. len : stream[i].place = Size => stream[i].packet # p
    BY <1>1, <1>4 DEF OnceInv
  <2>3. \A k \in DOMAIN returned : returned[k] # p
    BY <1>1 DEF OnceInv
  <2> QED BY <2>1, <2>2, <2>3
<1>10. \A i \in DOMAIN stream' : stream'[i].packet <= s
  <2> SUFFICES ASSUME NEW i \in DOMAIN stream' PROVE stream'[i].packet <= s
    OBVIOUS
  <2>1. CASE i \in 1 .. len /\ stream'[i] = stream[i]
    BY <1>3, <1>4, <2>1 DEF OnceInv
  <2>2. CASE stream'[i].packet = p
    BY <1>1, <1>3, <2>2 DEF OnceInv
  <2> QED BY <1>7, <2>1, <2>2
<1>11. \A i, j \in DOMAIN stream' : stream'[i] = stream'[j] /\ stream'[i].place = Size => i = j
  <2> SUFFICES ASSUME NEW i \in DOMAIN stream', NEW j \in DOMAIN stream',
                      stream'[i] = stream'[j], stream'[i].place = Size
               PROVE  i = j
    OBVIOUS
  <2>1. CASE i \in 1 .. len /\ j \in 1 .. len
    <3>1. stream[i] = stream[j] /\ stream[i].place = Size
      BY <1>6, <2>1
    <3> QED BY <1>4, <2>1, <3>1 DEF OnceInv
  <2>2. CASE i \in 1 .. len /\ j \notin 1 .. len
    BY <1>6, <1>7, <1>9, <2>2
  <2>3. CASE i \notin 1 .. len /\ j \in 1 .. len
    BY <1>6, <1>7, <1>9, <2>3
  <2>4. CASE i \notin 1 .. len /\ j \notin 1 .. len
    BY <1>7, <2>4
  <2> QED BY <2>1, <2>2, <2>3, <2>4
<1>12. \A i \in DOMAIN stream' : stream'[i].place = Size =>
           /\ \A k \in DOMAIN returned' : returned'[k] # stream'[i].packet
           /\ \A v \in Writers : wpc'[v] # stream'[i].packet
  <2> SUFFICES ASSUME NEW i \in DOMAIN stream', stream'[i].place = Size
               PROVE  /\ \A k \in DOMAIN returned : returned[k] # stream'[i].packet
                      /\ \A v \in Writers : wpc'[v] # stream'[i].packet
    BY <1>2
  <2>1. CASE i \in 1 .. len /\ stream'[i] = stream[i]
    <3>1. /\ \A k \in DOMAIN returned : returned[k] # stream[i].packet
          /\ \A v \in Writers : wpc[v] # stream[i].packet
      BY <1>4, <2>1 DEF OnceInv
    <3>2. stream[i].packet # 0
      <4>1. PICK b \in Byte : b = stream[i]
        BY <1>3, <1>4, <2>1, ElementOfSeq
      <4> QED BY <4>1, PositionOfByte
    <3> QED BY <1>8, <2>1, <3>1, <3>2
  <2>2. CASE stream'[i].packet = p
    BY <1>4, <1>8, <1>9, <2>2
  <2> QED BY <1>7, <2>1, <2>2
<1>13. \A v \in Writers : wpc'[v] <= s
  BY <1>3, <1>8 DEF OnceInv
<1>14. \A k \in DOMAIN returned' : returned'[k] <= s /\ \A v \in Writers : returned'[k] # wpc'[v]
  <2> SUFFICES ASSUME NEW k \in DOMAIN returned
               PROVE  returned[k] <= s /\ \A v \in Writers : returned[k] # wpc'[v]
    BY <1>2
  <2>1. returned[k] <= s /\ \A v \in Writers : returned[k] # wpc[v]
    BY <1>3 DEF OnceInv
  <2>2. returned[k] # 0
    <3>1. returned \in Seq(Packets) /\ DOMAIN returned = 1 .. Len(returned)
      BY <1>0, TypeFacts
    <3>2. returned[k] \in Packets
      BY <3>1, ElementOfSeq
    <3> QED BY <3>2, Sizes DEF Packets
  <2> QED BY <1>8, <2>1, <2>2
<1>15. \A u, v \in Writers : wpc'[u] = wpc'[v] /\ wpc'[u] # 0 => u = v
  BY <1>8 DEF OnceInv
<1>16. \A i \in DOMAIN sent' : sent'[i] = i
  BY <1>2 DEF OnceInv
<1> QED BY <1>2, <1>3, <1>10, <1>11, <1>12, <1>13, <1>14, <1>15, <1>16 DEF OnceInv

\* One that is not sent any more has none, and its writer forgets the packet too.
LEMMA TornOnce ==
  ASSUME TypeInv, OnceInv, NEW w \in Writers, WriteBody(w), closed
  PROVE  OnceInv'
<1>0. TypeOK
  BY DEF TypeInv
<1>1. stream' = stream /\ returned' = returned /\ sent' = sent
  BY DEF WriteBody, readerVars
<1>2. \A v \in Writers : wpc'[v] = IF v = w THEN 0 ELSE wpc[v]
  BY <1>0 DEF WriteBody, TypeOK
<1>3. 0 <= Len(sent)
  BY <1>0, TypeFacts
<1>4. \A i \in DOMAIN stream : stream[i].packet # 0
  <2> SUFFICES ASSUME NEW i \in DOMAIN stream PROVE stream[i].packet # 0
    OBVIOUS
  <2>1. PICK b \in Byte : b = stream[i]
    BY <1>0, TypeFacts, ElementOfSeq
  <2> QED BY <2>1, PositionOfByte
<1>5. \A k \in DOMAIN returned : returned[k] # 0
  <2> SUFFICES ASSUME NEW k \in DOMAIN returned PROVE returned[k] # 0
    OBVIOUS
  <2>1. returned[k] \in Packets
    BY <1>0, TypeFacts, ElementOfSeq
  <2> QED BY <2>1, Sizes DEF Packets
<1>6. \A v \in Writers : wpc'[v] <= Len(sent)
  BY <1>2, <1>3 DEF OnceInv
<1>7. \A i \in DOMAIN stream : stream[i].place = Size =>
          \A v \in Writers : wpc'[v] # stream[i].packet
  BY <1>2, <1>4 DEF OnceInv
<1>8. \A k \in DOMAIN returned : \A v \in Writers : returned[k] # wpc'[v]
  BY <1>2, <1>5 DEF OnceInv
<1>9. \A u, v \in Writers : wpc'[u] = wpc'[v] /\ wpc'[u] # 0 => u = v
  BY <1>2 DEF OnceInv
<1> QED BY <1>1, <1>6, <1>7, <1>8, <1>9 DEF OnceInv

\* A packet is returned with the last byte of it, and was not returned before.
LEMMA RecvReturns ==
  ASSUME TypeInv, OnceInv, NEW n \in 1 .. arrived, Recv(n), NEW p \in Packets, Collected(n) = Body(p)
  PROVE  /\ stream[n].packet = p /\ stream[n].place = Size /\ n \in DOMAIN stream
         /\ Head(Collected(n)).packet = p
         /\ p \in DOMAIN sent /\ \A k \in DOMAIN returned : returned[k] # p
<1>0. TypeOK
  BY DEF TypeInv
<1>1. /\ n \in Nat /\ n >= 1 /\ n <= Len(stream) /\ Len(stream) \in Nat /\ Len(got) \in Nat
      /\ Len(Collected(n)) = Len(got) + n /\ DOMAIN stream = 1 .. Len(stream)
      /\ \A i \in 1 .. n : Collected(n)[Len(got) + i] = stream[i]
  BY <1>0, RecvFacts, TypeFacts
<1>2. /\ Body(p) \in Seq(Byte) /\ Len(Body(p)) = BodySize
      /\ \A i \in 1 .. BodySize : Body(p)[i] = [packet |-> p, place |-> HeaderSize + i]
  BY BodyFacts
<1>3. BodySize \in 1 .. BodySize /\ 1 \in 1 .. BodySize /\ HeaderSize + BodySize = Size
  BY Sizes
<1>4. stream[n] = [packet |-> p, place |-> Size]
  <2>1. n \in 1 .. n /\ Len(got) + n = BodySize
    <3>1. Len(Collected(n)) = BodySize
      BY <1>2
    <3> QED BY <1>1, <3>1
  <2>2. stream[n] = Body(p)[BodySize]
    BY <1>1, <2>1
  <2> QED BY <1>2, <1>3, <2>2
<1>5. Head(Collected(n)).packet = p
  <2>1. Head(Body(p)) = Body(p)[1]
    BY <1>2, <1>3
  <2> QED BY <1>2, <1>3, <2>1
<1>6. n \in DOMAIN stream
  BY <1>1
<1>7. \A k \in DOMAIN returned : returned[k] # p
  BY <1>4, <1>6 DEF OnceInv
<1>8. p \in DOMAIN sent
  <2>1. p <= Len(sent)
    BY <1>4, <1>6 DEF OnceInv
  <2> QED BY <1>0, <2>1, TypeFacts DEF Packets
<1> QED BY <1>4, <1>5, <1>6, <1>7, <1>8

\* A packet that is returned leaves the stream with its last byte.
LEMMA RecvOnce ==
  ASSUME TypeInv, OnceInv, NEW n \in 1 .. arrived, Recv(n)
  PROVE  OnceInv'
<1>0. TypeOK
  BY DEF TypeInv
<1>1. sent' = sent /\ wpc' = wpc
  BY DEF Recv, writerVars
<1>2. PICK len \in Nat : /\ len = Len(stream) /\ DOMAIN stream = 1 .. len /\ stream \in Seq(Byte)
                         /\ n \in Nat /\ n >= 1 /\ n <= len
                         /\ DOMAIN stream' = 1 .. len - n
                         /\ \A i \in 1 .. len - n : stream'[i] = stream[n + i]
  BY <1>0, RecvFacts, TypeFacts
<1>3. ASSUME NEW i \in DOMAIN stream' PROVE n + i \in DOMAIN stream /\ stream'[i] = stream[n + i]
  BY <1>2
<1>4. \A i \in DOMAIN stream' : stream'[i].packet <= Len(sent)
  BY <1>3 DEF OnceInv
<1>5. \A i, j \in DOMAIN stream' : stream'[i] = stream'[j] /\ stream'[i].place = Size => i = j
  <2> SUFFICES ASSUME NEW i \in DOMAIN stream', NEW j \in DOMAIN stream',
                      stream'[i] = stream'[j], stream'[i].place = Size
               PROVE  i = j
    OBVIOUS
  <2>1. n + i \in DOMAIN stream /\ n + j \in DOMAIN stream
        /\ stream[n + i] = stream[n + j] /\ stream[n + i].place = Size
    BY <1>3
  <2>2. n + i = n + j
    BY <2>1 DEF OnceInv
  <2> QED BY <1>2, <2>2
<1>6. CASE returned' = returned
  <2>1. \A i \in DOMAIN stream' : stream'[i].place = Size =>
           /\ \A k \in DOMAIN returned : returned[k] # stream'[i].packet
           /\ \A w \in Writers : wpc[w] # stream'[i].packet
    BY <1>3 DEF OnceInv
  <2> QED BY <1>1, <1>4, <1>5, <1>6, <2>1 DEF OnceInv
<1>7. CASE returned' # returned
  <2>1. PICK p \in Packets : Collected(n) = Body(p) /\ returned' = Append(returned, Head(Collected(n)).packet)
    BY <1>7 DEF Recv, ReadLength, ReadBody, IsBody, Collected
  <2>2. /\ stream[n].packet = p /\ stream[n].place = Size /\ n \in DOMAIN stream
        /\ returned' = Append(returned, p)
        /\ p \in DOMAIN sent /\ \A k \in DOMAIN returned : returned[k] # p
    BY <2>1, RecvReturns
  <2>3. PICK m \in Nat : /\ m = Len(returned) /\ DOMAIN returned = 1 .. m /\ DOMAIN returned' = 1 .. m + 1
                         /\ returned'[m + 1] = p /\ \A k \in 1 .. m : returned'[k] = returned[k]
    <3>1. returned \in Seq(Packets) /\ Len(returned) \in Nat /\ DOMAIN returned = 1 .. Len(returned)
      BY <1>0, TypeFacts
    <3>2. /\ Append(returned, p) \in Seq(Packets) /\ Len(Append(returned, p)) = Len(returned) + 1
          /\ Append(returned, p)[Len(returned) + 1] = p
          /\ \A k \in 1 .. Len(returned) : Append(returned, p)[k] = returned[k]
      BY <3>1, AppendProperties
    <3>3. DOMAIN Append(returned, p) = 1 .. Len(returned) + 1
      BY <3>2, LenProperties
    <3> QED BY <2>2, <3>1, <3>2, <3>3
  <2>4. ASSUME NEW k \in DOMAIN returned'
        PROVE  (k \in DOMAIN returned /\ returned'[k] = returned[k]) \/ returned'[k] = p
    <3>1. k \in 1 .. m \/ k = m + 1
      BY <2>3
    <3> QED BY <2>3, <3>1
  <2>5. p <= Len(sent)
    BY <1>0, <2>2, TypeFacts
  <2>6. \A w \in Writers : wpc[w] # p
    BY <2>2 DEF OnceInv
  <2>7. \A i \in DOMAIN stream' : stream'[i].place = Size => stream'[i].packet # p
    <3> SUFFICES ASSUME NEW i \in DOMAIN stream', stream'[i].place = Size, stream'[i].packet = p
                 PROVE  FALSE
      OBVIOUS
    <3>1. n + i \in 1 .. len /\ stream[n + i].place = Size /\ stream[n + i].packet = p /\ i # 0
      BY <1>2, <1>3
    <3>2. stream[n + i] \in Byte /\ stream[n] \in Byte
      BY <1>2, <2>2, <3>1, ElementOfSeq
    <3>3. stream[n + i] = stream[n]
      <4>1. PICK b \in Byte, c \in Byte : b = stream[n + i] /\ c = stream[n]
        BY <3>2
      <4>2. b = [packet |-> b.packet, place |-> b.place] /\ c = [packet |-> c.packet, place |-> c.place]
        BY PositionOfByte
      <4>3. b.packet = c.packet /\ b.place = c.place
        BY <2>2, <3>1, <4>1
      <4> QED BY <4>1, <4>2, <4>3
    <3>4. n + i = n
      BY <1>2, <2>2, <3>1, <3>3 DEF OnceInv
    <3> QED BY <1>2, <3>1, <3>4
  <2>8. \A i \in DOMAIN stream' : stream'[i].place = Size =>
           /\ \A k \in DOMAIN returned' : returned'[k] # stream'[i].packet
           /\ \A w \in Writers : wpc[w] # stream'[i].packet
    <3> SUFFICES ASSUME NEW i \in DOMAIN stream', stream'[i].place = Size
                 PROVE  /\ \A k \in DOMAIN returned' : returned'[k] # stream'[i].packet
                        /\ \A w \in Writers : wpc[w] # stream'[i].packet
      OBVIOUS
    <3>1. /\ \A k \in DOMAIN returned : returned[k] # stream'[i].packet
          /\ \A w \in Writers : wpc[w] # stream'[i].packet
      BY <1>3 DEF OnceInv
    <3> QED BY <2>4, <2>7, <3>1
  <2>9. \A k \in DOMAIN returned' : returned'[k] <= Len(sent) /\ \A w \in Writers : returned'[k] # wpc[w]
    <3> SUFFICES ASSUME NEW k \in DOMAIN returned'
                 PROVE  returned'[k] <= Len(sent) /\ \A w \in Writers : returned'[k] # wpc[w]
      OBVIOUS
    <3>1. CASE k \in DOMAIN returned /\ returned'[k] = returned[k]
      BY <3>1 DEF OnceInv
    <3>2. CASE returned'[k] = p
      BY <2>5, <2>6, <3>2
    <3> QED BY <2>4, <3>1, <3>2
  <2> QED BY <1>1, <1>4, <1>5, <2>8, <2>9 DEF OnceInv
<1> QED BY <1>6, <1>7

\* Every step keeps the last byte of a packet unique.
LEMMA OnceStep == TypeInv /\ OnceInv /\ [Next]_vars => OnceInv'
<1> SUFFICES ASSUME TypeInv, OnceInv, [Next]_vars PROVE OnceInv'
  OBVIOUS
<1>1. ASSUME NEW w \in Writers, WriteLength(w) PROVE OnceInv'
  BY <1>1, WriteLengthOnce
<1>2. ASSUME NEW w \in Writers, WriteBody(w) PROVE OnceInv'
  BY <1>2, WriteBodyOnce, TornOnce
<1>3. ASSUME NEW n \in 1 .. arrived, Recv(n) PROVE OnceInv'
  BY <1>3, RecvOnce
<1>4. ASSUME Close \/ Arrive \/ (\E block \in BOOLEAN : BeginRead(block)) \/ WouldBlock \/ SpinAtEOF
             \/ UNCHANGED vars
      PROVE  OnceInv'
  <2>1. UNCHANGED <<sent, stream, wpc, returned>>
    BY <1>4 DEF Close, Arrive, BeginRead, WouldBlock, SpinAtEOF, vars, writerVars, readerVars
  <2> QED BY <2>1 DEF OnceInv
<1> QED BY <1>1, <1>2, <1>3, <1>4 DEF Next, Reader


\* All of it together is inductive.
LEMMA Inductive == Spec => [](TypeInv /\ SyncInv /\ OnceInv)
<1>1. Init => TypeInv /\ SyncInv /\ OnceInv
  BY InitTypes, InitSync, InitOnce
<1>2. (TypeInv /\ SyncInv /\ OnceInv) /\ [Next]_vars => (TypeInv /\ SyncInv /\ OnceInv)'
  BY TypeStep, SyncStep, OnceStep
<1> QED BY <1>1, <1>2, PTL DEF Spec

\* Until a part of a length is thrown away no packet is left out, not even after
\* two packets were written into each other.
LEMMA NextPacketReturned ==
  ASSUME TypeInv, SyncInv, ~ cut, NEW n \in 1 .. arrived, Recv(n), Enough(Collected(n)),
         rpc = "body", IsBody(Collected(n))
  PROVE  Head(Collected(n)).packet = Len(returned) + 1
<1>0. TypeOK
  BY DEF TypeInv
<1>1. ~ (Collected(n)[1].place = 1)
  BY LengthIsNoBody
<1>2. PICK m \in Nat : n <= m /\ m <= Len(stream) /\ InStep(m)
  <2>0. n \in Nat /\ n <= Len(stream) /\ Len(stream) \in Nat
    BY <1>0, RecvFacts, TypeFacts
  <2>1. CASE mixed
    <3>1. PICK m \in Nat, g \in Nat : Ahead(m, g)
      BY <1>0, <1>1, <2>1, DoomedTaken DEF SyncInv, Garbled
    <3>2. ~ (n > m)
      BY <1>1, <3>1, AheadTaken
    <3>3. m <= Len(stream) /\ InStep(m)
      BY <2>0, <3>1 DEF Ahead
    <3> QED BY <2>0, <3>2, <3>3
  <2>2. CASE ~ mixed
    <3>1. PICK m \in Nat : m = Len(stream)
      BY <2>0
    <3>2. InStep(m)
      BY <2>2, <3>1 DEF SyncInv, Whole, InStep
    <3> QED BY <2>0, <3>1, <3>2
  <2> QED BY <2>1, <2>2
<1> QED BY <1>0, <1>2, InStepUnit

\* A step of the connection is a step of PacketFifo, or none.
LEMMA FifoStep ==
  TypeInv /\ SyncInv /\ OnceInv /\ [Next]_vars => [Fifo!Next]_<<sent, returned, cut>>
<1> SUFFICES ASSUME TypeInv, SyncInv, OnceInv, [Next]_vars
             PROVE  Fifo!Next \/ UNCHANGED <<sent, returned, cut>>
  BY Zenon
<1>1. ASSUME NEW w \in Writers, WriteLength(w) PROVE Fifo!Send
  BY <1>1 DEF WriteLength, readerVars, Fifo!Send
<1>2. ASSUME \/ \E w \in Writers : WriteBody(w)
             \/ Close \/ Arrive \/ (\E block \in BOOLEAN : BeginRead(block)) \/ SpinAtEOF \/ UNCHANGED vars
      PROVE  UNCHANGED <<sent, returned, cut>>
  BY <1>2 DEF WriteBody, Close, Arrive, BeginRead, SpinAtEOF, vars, writerVars, readerVars
<1>3. CASE WouldBlock
  <2>1. sent' = sent /\ returned' = returned /\ (cut' = cut \/ cut' = TRUE)
    BY <1>3 DEF WouldBlock, writerVars, TypeInv, TypeOK
  <2> QED BY <2>1 DEF Fifo!Next, Fifo!ThrowAway
<1>4. ASSUME NEW n \in 1 .. arrived, Recv(n) PROVE Fifo!Return \/ UNCHANGED <<sent, returned, cut>>
  <2>1. sent' = sent /\ cut' = cut
    BY <1>4 DEF Recv, writerVars
  <2>2. CASE returned' # returned
    <3>1. /\ Enough(Collected(n)) /\ rpc = "body" /\ IsBody(Collected(n))
          /\ returned' = Append(returned, Head(Collected(n)).packet)
      BY <1>4, <2>2 DEF Recv, ReadLength, ReadBody, Collected
    <3>2. PICK p \in Packets : Collected(n) = Body(p)
      BY <3>1 DEF IsBody
    <3>3. /\ Head(Collected(n)).packet = p /\ p \in DOMAIN sent
          /\ \A k \in DOMAIN returned : returned[k] # p
      BY <1>4, <3>2, RecvReturns
    <3>4. sent[p] = p
      BY <3>3 DEF OnceInv
    <3>5. cut \/ p = Len(returned) + 1
      BY <1>4, <3>1, <3>3, NextPacketReturned
    <3>6. returned' = Append(returned, sent[p])
      BY <3>1, <3>3, <3>4
    <3>7. \A k \in DOMAIN returned : returned[k] # sent[p]
      BY <3>3, <3>4
    <3> QED BY <2>1, <3>3, <3>5, <3>6, <3>7, Zenon DEF Fifo!Return
  <2> QED BY <2>1, <2>2
<1> QED BY <1>1, <1>2, <1>3, <1>4, Zenon DEF Next, Reader, Fifo!Next

\* send_packet and recv_packet are the channel the transfer protocols take them for:
\* packets come out whole, each at most once and, until a part of a length is
\* thrown away, in the order they went in and without a gap.
THEOREM Refinement == Spec => FifoSpec
<1>1. Init => Fifo!Init
  BY DEF Init, Fifo!Init
<1> QED BY <1>1, Inductive, FifoStep, PTL DEF Spec, FifoSpec, Fifo!Spec

=============================================================================
