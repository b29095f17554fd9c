------------------------------ MODULE Framing ------------------------------
(***************************************************************************)
(* The byte stream under the protocols of src/4_mac: send_packet writes a  *)
(* length and then the packet; read_k_bytes collects bytes for recv_packet *)
(* and recv_packet_nblock.  One direction of a connection, with the two    *)
(* threads of sr_sender.py that write to it; in the other programs, and    *)
(* in the other direction, only "main" writes, and mixes with nobody.      *)
(*                                                                         *)
(* A byte is its packet and its place in it.  Bytes that are not the       *)
(* length of a packet are a number that fits nothing: the reader then      *)
(* waits for bytes that never come or pickle.loads raises an exception.    *)
(***************************************************************************)
EXTENDS Integers, Sequences

CONSTANTS
    HeaderSize,     \* bytes of a length, 4 in the code
    BodySize,       \* bytes of a pickled packet
    MaxPackets      \* bound: packets sent

ASSUME FramingAssumption == HeaderSize \in Nat \ {0} /\ BodySize \in Nat \ {0} /\ MaxPackets \in Nat

VARIABLES
    stream,         \* bytes sent and not read ...
    arrived,        \* ... of which so many are in the reader's socket
    closed,         \* the writing end has been closed
    sent,           \* packets whose length has been written, in order
    wpc,            \* wpc[w]: the packet of which w has to write the body, or 0
    lock,           \* the holder of client_sync_lock, or "nobody"
    rpc,            \* what the reader is collecting
    blocking,       \* whether its socket is
    got,            \* ret of read_k_bytes
    returned,       \* packets it has returned
    cut, mixed,     \* history: part of a length thrown away; packets written into each other;
    torn            \* ... packets whose body was not sent any more

writerVars == <<sent, wpc, lock, mixed, torn>>
readerVars == <<rpc, blocking, got, returned, cut>>
vars == <<stream, arrived, closed, writerVars, readerVars>>

Writers == {"main", "timer"}
Packets == 1 .. MaxPackets
Size == HeaderSize + BodySize
Bytes(p, from, to) == [i \in 1 .. to - from + 1 |-> [packet |-> p, place |-> from + i - 1]]
Header(p) == Bytes(p, 1, HeaderSize)
Body(p) == Bytes(p, HeaderSize + 1, Size)

Init ==
    /\ stream = <<>> /\ arrived = 0 /\ closed = FALSE
    /\ sent = <<>> /\ wpc = [w \in Writers |-> 0] /\ lock = "nobody"
    /\ rpc = "idle" /\ blocking = TRUE /\ got = <<>> /\ returned = <<>>
    /\ cut = FALSE /\ mixed = FALSE /\ torn = {}

-----------------------------------------------------------------------------
(***************************************************************************)
(* send_packet.                                                            *)
(***************************************************************************)

\* Only the answer to a NACK, which main sends, is written without the lock.
MayWriteUnlocked(w) == w = "main"

WriteLength(w) ==
    /\ wpc[w] = 0 /\ Len(sent) < MaxPackets /\ ~ closed
    /\ \/ lock = "nobody" /\ lock' = w
       \/ MayWriteUnlocked(w) /\ UNCHANGED lock
    /\ LET p == Len(sent) + 1
       IN  /\ stream' = stream \o Header(p)
           /\ sent' = Append(sent, p)
           /\ wpc' = [wpc EXCEPT ![w] = p]
    /\ mixed' = (mixed \/ \E v \in Writers : wpc[v] # 0)
    /\ UNCHANGED <<arrived, closed, torn, readerVars>>

\* On a socket that has been closed sendall raises an exception, which ends the thread.
WriteBody(w) ==
    /\ wpc[w] # 0 /\ wpc' = [wpc EXCEPT ![w] = 0]
    /\ stream' = IF closed THEN stream ELSE stream \o Body(wpc[w])
    /\ torn' = IF closed THEN torn \cup {wpc[w]} ELSE torn
    /\ lock' = IF lock = w THEN "nobody" ELSE lock
    /\ UNCHANGED <<arrived, closed, sent, mixed, readerVars>>

\* Wherever the timer thread is: main neither takes the lock nor joins the thread.
\* Main itself may be inside a packet when the interrupt key takes it to its end.
Close ==
    /\ ~ closed /\ closed' = TRUE
    /\ UNCHANGED <<stream, arrived, writerVars, readerVars>>

Arrive ==
    /\ arrived' \in arrived + 1 .. Len(stream)
    /\ UNCHANGED <<stream, closed, writerVars, readerVars>>

-----------------------------------------------------------------------------
(***************************************************************************)
(* recv_packet, which waits, and recv_packet_nblock, which waits only when *)
(* it has the length.  recv_packet with a timeout is like the second.      *)
(***************************************************************************)
BeginRead(block) ==
    /\ rpc = "idle" /\ rpc' = "length"
    /\ blocking' = block /\ got' = <<>>
    /\ UNCHANGED <<stream, arrived, closed, writerVars, returned, cut>>

Wanted == IF rpc = "length" THEN HeaderSize ELSE BodySize
NotCountedDown == Wanted                        \* mutant of Remaining
Remaining == Wanted - Len(got)

OneRecv(bytes) == TRUE                          \* mutant of Enough
OneByteMore(bytes) == Len(bytes) > Wanted       \* mutant of Enough
Enough(bytes) == Len(bytes) = Wanted

IsHeader(bytes) == bytes \in {Header(p) : p \in Packets}
IsBody(bytes) == bytes \in {Body(p) : p \in Packets}

\* Nothing catches an exception of pickle.loads.
GarbageIgnored == "idle"                        \* mutant of AfterGarbage
AfterGarbage == "lost"

ReadLength(bytes) ==
    /\ rpc = "length"
    /\ rpc' = IF IsHeader(bytes) THEN "body" ELSE AfterGarbage
    /\ got' = <<>> /\ blocking' = TRUE
    /\ UNCHANGED returned

ReadBody(bytes) ==
    /\ rpc = "body"
    /\ rpc' = IF IsBody(bytes) THEN "idle" ELSE AfterGarbage
    /\ returned' = IF IsBody(bytes) THEN Append(returned, Head(bytes).packet) ELSE returned
    /\ got' = <<>> /\ UNCHANGED blocking

\* One recv of read_k_bytes: all that is there and wanted, or less.
Recv(n) ==
    /\ rpc \in {"length", "body"}
    /\ n \in 1 .. arrived /\ n <= Remaining
    /\ stream' = SubSeq(stream, n + 1, Len(stream)) /\ arrived' = arrived - n
    /\ LET bytes == got \o SubSeq(stream, 1, n)
       IN  \/ ~ Enough(bytes) /\ got' = bytes /\ UNCHANGED <<rpc, blocking, returned>>
           \/ Enough(bytes) /\ (ReadLength(bytes) \/ ReadBody(bytes))
    /\ UNCHANGED <<closed, writerVars, cut>>

\* BlockingIOError: what has been read of the length is forgotten.
WouldBlock ==
    /\ rpc = "length" /\ ~ blocking /\ arrived = 0 /\ ~ (closed /\ stream = <<>>)
    /\ rpc' = "idle" /\ got' = <<>> /\ blocking' = TRUE
    /\ cut' = (cut \/ got # <<>>)
    /\ UNCHANGED <<stream, arrived, closed, writerVars, returned>>

\* At the end of the stream recv returns nothing and read_k_bytes asks again for ever.
SpinAtEOF == rpc \in {"length", "body"} /\ closed /\ stream = <<>> /\ UNCHANGED vars

Reader == (\E block \in BOOLEAN : BeginRead(block))
          \/ (\E n \in 1 .. arrived : Recv(n)) \/ WouldBlock \/ SpinAtEOF

Next ==
    \/ \E w \in Writers : WriteLength(w) \/ WriteBody(w)
    \/ Close \/ Arrive \/ Reader

Spec == Init /\ [][Next]_vars

\* Threads run, TCP delivers what is sent, and the programs read in a loop.
Fairness ==
    /\ \A w \in Writers : WF_vars(WriteBody(w))
    /\ WF_vars(Arrive) /\ WF_vars(Reader)
FairSpec == Spec /\ Fairness

-----------------------------------------------------------------------------
\* Bytes are in the places the programs keep them in; a read never collects too many.
TypeOK ==
    /\ stream \in Seq([packet : Packets, place : 1 .. Size]) /\ arrived \in 0 .. Len(stream)
    /\ closed \in BOOLEAN
    /\ sent \in Seq(Packets) /\ wpc \in [Writers -> Packets \cup {0}]
    /\ lock \in Writers \cup {"nobody"}
    /\ rpc \in {"idle", "length", "body", "lost"} /\ blocking \in BOOLEAN
    /\ got \in Seq([packet : Packets, place : 1 .. Size]) /\ Len(got) < Wanted
    /\ returned \in Seq(Packets)
    /\ cut \in BOOLEAN /\ mixed \in BOOLEAN /\ torn \subseteq Packets

\* However TCP splits the stream, the reader falls out of step only after a part of
\* a length was thrown away or two packets were written into each other.
LostOnlyAfterCutOrMix == rpc = "lost" => cut \/ mixed

\* Packets come out whole and once, also when two threads write into each other,
\* and in order and without a gap until a part of a length is thrown away.  Then
\* the reader may fall into step again with packets missing.
Fifo == INSTANCE PacketFifo WITH gaps <- cut
FifoSpec == Fifo!Spec

\* Until one of the two happens every packet comes out of which more than the length
\* was sent before the connection was closed.
EveryPacketReturned ==
    \A p \in Packets : Len(sent) >= p ~> Len(returned) >= p \/ cut \/ mixed \/ p \in torn
=============================================================================
